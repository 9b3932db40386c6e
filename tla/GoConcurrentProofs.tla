-------------------------- MODULE GoConcurrentProofs --------------------------
(***************************************************************************)
(* Proofs about GoConcurrent, for every input file and every capacity.     *)
(***************************************************************************)
EXTENDS GoConcurrent, SchedulerLemmas

-----------------------------------------------------------------------------
(* The inductive invariant.  The properties speak of what a goroutine does  *)
(* and of a scheduler at rest; what keeps them true is what is still in the *)
(* channels and how far set_channels has come.                              *)

\* The id of the call that main subscribes next but for those on the channel.
NextId == IF sched = "pause" THEN id + 1 ELSE id

\* The ids on the subscribe channel are those of the lines read last, in
\* order; goroutines are started in the order of the ids, each with an unused
\* channel.
Numbered ==
  /\ scanned + 1 = NextId + Len(subscribe)
  /\ \A i \in 1 .. Len(subscribe) : subscribe[i] = NextId + i - 1
  /\ \A c \in Call :
       /\ pc[c] = "none" <=> c >= id
       /\ pc[c] = "none" => ~active[c] /\ state[c] = <<>>

\* The WaitGroup counter is the number of goroutines that have still to call
\* Done.
Done == {c \in Call : pc[c] = "done"}
Counted == wg = NumCalls - Cardinality(Done)

\* Without --scheduler the scheduler only starts goroutines.
Unscheduled ==
  ~use_scheduler =>
    /\ sched = "select" /\ table = {} /\ max_priority = 0 /\ unsubscribe = <<>>
    /\ \A c \in Call : pc[c] # "unsubscribe"

\* A call is in the table from when the scheduler takes its id off the
\* subscribe channel until it takes it off the unsubscribe channel.
Tabled ==
  use_scheduler =>
    /\ \A c \in table : pc[c] # "none" \/ (sched = "pause" /\ c = id)
    /\ sched = "pause" => id \in table
    /\ \A c \in Call : pc[c] \in {"open", "loop", "send", "unsubscribe"} => c \in table
    /\ \A i \in 1 .. Len(unsubscribe) :
         /\ unsubscribe[i] \in table
         /\ pc[unsubscribe[i]] \in {"report", "done"}
         /\ \A j \in 1 .. Len(unsubscribe) : unsubscribe[i] = unsubscribe[j] => i = j

\* The groups that count: a newcomer's does once the group it outranks has
\* been paused.
Registered == IF sched = "pause" THEN table \ {id} ELSE table

\* max_priority is that of the highest group, and set_channels tells its
\* members.
Chosen ==
  /\ todo \subseteq Group(max_priority, Registered)
  /\ sched = "select" => todo = {}
  /\ use_scheduler => max_priority = GetMaxPriority(Registered)
  /\ sched = "pause" => max_priority > 0 /\ line[id].priority > max_priority

\* What the goroutines have been told: no call below the highest group runs,
\* and every member of it does, but for those told to pause already or still
\* to be told to run.
Told ==
  use_scheduler =>
    \A c \in Registered :
      /\ line[c].priority # max_priority => ~Effective(c)
      /\ line[c].priority = max_priority /\ c \notin todo => (Effective(c) <=> sched # "pause")
      /\ sched = "pause" /\ c \in todo => Effective(c)

\* A paused goroutine is never paused again: its next command is TRUE, and
\* no two commands in a row are FALSE.
Alternating ==
  \A c \in Call :
    /\ pc[c] = "send" => active[c]
    /\ state[c] # <<>> /\ ~active[c] => state[c][1]
    /\ NoTwoPauses(state[c])

\* Every command in front of a FALSE can cost one more number, and so can a
\* Send that is under way.
Sending(c) == IF pc[c] = "send" THEN 1 ELSE 0
Draining ==
  \A c \in Call :
    /\ Len(state[c]) <= StateCap
    /\ overrun[c] <= StateCap
    /\ ~Effective(c) /\ state[c] # <<>> =>
         overrun[c] + Len(state[c]) - 1 + Sending(c) <= StateCap

Inv ==
  /\ TypeOK /\ Numbered /\ Counted /\ Unscheduled /\ Tabled /\ Chosen /\ Told
  /\ Alternating /\ Draining

-----------------------------------------------------------------------------
(* get_max_priority *)

\* get_max_priority() returns the highest priority in the table, and 0 when
\* there is none.
LEMMA MaxPriority ==
  ASSUME line \in [Call -> Line], NEW S, S \subseteq Call
  PROVE  /\ GetMaxPriority(S) \in Nat
         /\ S = {} => GetMaxPriority(S) = 0
         /\ S # {} => /\ GetMaxPriority(S) > 0
                      /\ \E c \in S : line[c].priority = GetMaxPriority(S)
                      /\ \A c \in S : line[c].priority <= GetMaxPriority(S)
<1>1. \A c \in S : line[c].priority \in Nat /\ line[c].priority > 0
  BY DEF Line
<1>2. CASE S = {}
  BY <1>2 DEF GetMaxPriority
<1>3. CASE S # {}
  <2>1. IsFiniteSet(S)
    <3>1. IsFiniteSet(Call)
      BY FS_Interval, GoConcurrentAssumption DEF Call
    <3> QED
      BY <3>1, FS_Subset
  <2>2. \E c \in S : \A d \in S : line[d].priority <= line[c].priority
    <3> DEFINE f == [c \in S |-> line[c].priority]
    <3>1. \A c \in S : f[c] \in Int
      BY <1>1
    <3>2. \E c \in S : \A d \in S : f[d] <= f[c]
      <4> HIDE DEF f
      <4> QED
        BY <1>3, <2>1, <3>1, HighestExists
    <3> QED
      BY <3>2
  <2>3. \E p \in {line[c].priority : c \in S} : \A c \in S : line[c].priority <= p
    BY <2>2
  <2>4. /\ GetMaxPriority(S) \in {line[c].priority : c \in S}
        /\ \A c \in S : line[c].priority <= GetMaxPriority(S)
    BY <1>3, <2>3 DEF GetMaxPriority
  <2> QED
    BY <1>1, <1>3, <2>4
<1> QED
  BY <1>2, <1>3

\* It is the only value with that property.
LEMMA MaxPriorityIs ==
  ASSUME line \in [Call -> Line], NEW S, S \subseteq Call,
         NEW c \in S, \A d \in S : line[d].priority <= line[c].priority
  PROVE  GetMaxPriority(S) = line[c].priority
<1>1. PICK d \in S : line[d].priority = GetMaxPriority(S)
  BY MaxPriority
<1>2. line[c].priority \in Nat /\ line[d].priority \in Nat
  BY DEF Line
<1>3. line[c].priority <= GetMaxPriority(S)
  BY MaxPriority
<1> QED
  BY <1>1, <1>2, <1>3

-----------------------------------------------------------------------------
(* Steps *)

\* What the inductive invariant speaks of.
core == <<config, scanned, wg, subscribe, unsubscribe, state, schedVars,
          pc, active, sent, overrun>>

\* The other steps change how the process stands and what is written only.
LEMMA Steps ==
  ASSUME [Next]_vars
  PROVE  \/ UNCHANGED core
         \/ ReadLine \/ Subscribe \/ Paused \/ Resumed \/ Unsubscribe
         \/ \E c \in Call : SetChannel(c) \/ Thread(c)
<1> USE DEF core, vars, config, mainVars, schedVars, callVars
<1>1. CASE Main \/ MainFails
  BY <1>1 DEF Main, ParsePanic, EndOfFile, Return, MainFails
<1>2. CASE Scheduler
  BY <1>2 DEF Scheduler
<1>3. ASSUME NEW c \in Call, WriteToFile(c) \/ Failure(c) PROVE UNCHANGED core
  BY <1>3 DEF WriteToFile, Failure
<1>4. CASE Exited \/ UNCHANGED vars
  BY <1>4 DEF Exited
<1> QED
  BY <1>1, <1>2, <1>3, <1>4 DEF Next

\* The --scheduler flag and the input file are given once.
LEMMA ConfigIsFixed ==
  ASSUME [Next]_vars
  PROVE  UNCHANGED <<use_scheduler, line>>
<1> USE DEF config
<1>1. CASE ReadLine \/ Subscribe \/ Paused \/ Resumed \/ Unsubscribe
  BY <1>1 DEF ReadLine, Subscribe, Paused, Resumed, Unsubscribe
<1>2. ASSUME NEW c \in Call, SetChannel(c) \/ Thread(c) PROVE UNCHANGED config
  BY <1>2 DEF SetChannel, Thread
<1> QED
  BY <1>1, <1>2, Steps DEF core

\* The types the proofs need most.
LEMMA Types ==
  ASSUME TypeOK
  PROVE  /\ use_scheduler \in BOOLEAN /\ line \in [Call -> Line]
         /\ pc \in [Call -> {"none", "open", "loop", "send", "unsubscribe", "report", "done"}]
         /\ active \in [Call -> BOOLEAN] /\ state \in [Call -> Seq(BOOLEAN)]
         /\ sent \in [Call -> Nat] /\ overrun \in [Call -> Nat]
         /\ subscribe \in Seq(Call) /\ unsubscribe \in Seq(Call)
         /\ todo \subseteq Call /\ table \subseteq Call
         /\ id \in Int /\ id >= 1 /\ max_priority \in Nat /\ scanned \in Int
         /\ NumCalls \in Nat /\ StateCap \in Nat \ {0}
         /\ \A c \in Call : /\ c \in Int /\ c >= 1
                            /\ line[c].priority \in Nat /\ line[c].priority > 0
<1>1. line \in [Call -> Line] /\ NumCalls \in Nat /\ StateCap \in Nat \ {0}
  BY GoConcurrentAssumption DEF TypeOK
<1>2. \A c \in Call : /\ c \in Int /\ c >= 1
                      /\ line[c].priority \in Nat /\ line[c].priority > 0
  BY <1>1 DEF Line, Call
<1>3. id \in Int /\ id >= 1 /\ scanned \in Int
  BY <1>1 DEF TypeOK
<1> QED
  BY <1>1, <1>2, <1>3 DEF TypeOK

\* The id at the head of the subscribe channel is the next one.
LEMMA Subscribed ==
  ASSUME TypeOK, Numbered, Subscribe
  PROVE  /\ Head(subscribe) = id /\ id \in Call /\ pc[id] = "none"
         /\ ~active[id] /\ state[id] = <<>>
         /\ subscribe' \in Seq(Call) /\ Len(subscribe') = Len(subscribe) - 1
         /\ Len(subscribe) \in Nat
         /\ \A i \in 1 .. Len(subscribe') : subscribe'[i] = id + i
         /\ sched = "select"
<1>0. subscribe \in Seq(Call) /\ subscribe # <<>> /\ sched = "select" /\ id \in Int
  BY Types DEF Subscribe
<1>1. /\ Head(subscribe) = subscribe[1] /\ Head(subscribe) \in Call
      /\ subscribe' \in Seq(Call) /\ Len(subscribe') = Len(subscribe) - 1
      /\ Len(subscribe) \in Nat /\ Len(subscribe) >= 1
      /\ \A i \in 1 .. Len(subscribe') : subscribe'[i] = subscribe[i + 1]
  BY <1>0, HeadTailProperties, EmptySeq DEF Subscribe
<1>2. \A i \in 1 .. Len(subscribe) : subscribe[i] = id + i - 1
  BY <1>0 DEF Numbered, NextId
<1>3. Head(subscribe) = id
  BY <1>0, <1>1, <1>2
<1>4. \A i \in 1 .. Len(subscribe') : subscribe'[i] = id + i
  BY <1>0, <1>1, <1>2
<1> QED
  BY <1>0, <1>1, <1>3, <1>4 DEF Numbered

\* What becomes of a newcomer, by its priority.
LEMMA Ranked ==
  ASSUME TypeOK, Numbered, Subscribe, use_scheduler
  PROVE  LET priority == line[id].priority IN
         /\ table' = table \cup {id}
         /\ max_priority \in {0, priority} =>
              /\ Start(id, TRUE) /\ max_priority' = priority /\ UNCHANGED <<sched, todo>>
         /\ 0 < max_priority /\ max_priority < priority =>
              /\ sched' = "pause" /\ todo' = Group(max_priority, table)
              /\ UNCHANGED <<id, max_priority, pc, active>>
         /\ priority < max_priority =>
              Start(id, FALSE) /\ UNCHANGED <<sched, todo, max_priority>>
         /\ \/ max_priority \in {0, priority}
            \/ 0 < max_priority /\ max_priority < priority
            \/ priority < max_priority
<1>1. Head(subscribe) = id /\ id \in Call
  BY Subscribed
<1>2. max_priority \in Nat /\ line[id].priority \in Nat /\ line[id].priority > 0
  BY <1>1, Types
<1> DEFINE p == line[id].priority
<1>3. /\ \/ /\ max_priority \in {0, p}
            /\ table' = table \cup {id} /\ max_priority' = p
            /\ Start(id, TRUE)
            /\ UNCHANGED <<sched, todo>>
         \/ /\ 0 < max_priority /\ max_priority < p
            /\ table' = table \cup {id}
            /\ sched' = "pause" /\ todo' = Group(max_priority, table)
            /\ UNCHANGED <<id, max_priority, pc, active>>
         \/ /\ p < max_priority
            /\ table' = table \cup {id}
            /\ Start(id, FALSE)
            /\ UNCHANGED <<sched, todo, max_priority>>
  BY <1>1, Zenon DEF Subscribe
<1>4. p \in Nat /\ p > 0
  BY <1>2
<1> HIDE DEF p
<1>5. table' = table \cup {id}
  BY <1>3
<1>6. /\ max_priority \in {0, p} => ~(0 < max_priority /\ max_priority < p) /\ ~(p < max_priority)
      /\ 0 < max_priority /\ max_priority < p => max_priority \notin {0, p} /\ ~(p < max_priority)
      /\ p < max_priority => max_priority \notin {0, p} /\ ~(max_priority < p)
      /\ \/ max_priority \in {0, p}
         \/ 0 < max_priority /\ max_priority < p
         \/ p < max_priority
  BY <1>2, <1>4
<1>7. max_priority \in {0, p} =>
        /\ Start(id, TRUE) /\ max_priority' = p /\ UNCHANGED <<sched, todo>>
  BY <1>3, <1>6, Zenon
<1>8. 0 < max_priority /\ max_priority < p =>
        /\ sched' = "pause" /\ todo' = Group(max_priority, table)
        /\ UNCHANGED <<id, max_priority, pc, active>>
  BY <1>3, <1>6, Zenon
<1>9. p < max_priority => Start(id, FALSE) /\ UNCHANGED <<sched, todo, max_priority>>
  BY <1>3, <1>6, Zenon
<1> QED
  BY <1>5, <1>6, <1>7, <1>8, <1>9 DEF p

\* A newcomer's goroutine is started with the flag it is given, and nobody
\* else's is concerned.
LEMMA StartFrame ==
  ASSUME TypeOK, NEW c \in Call, c = id, state[c] = <<>>, NEW a \in BOOLEAN, Start(c, a),
         UNCHANGED state
  PROVE  /\ id' = c + 1 /\ pc'[c] = "open" /\ active'[c] = a
         /\ Effective(c)' = a
         /\ pc' \in [Call -> {"none", "open", "loop", "send", "unsubscribe", "report", "done"}]
         /\ active' \in [Call -> BOOLEAN]
         /\ \A d \in Call \ {c} : /\ pc'[d] = pc[d] /\ active'[d] = active[d]
                                  /\ Effective(d)' = Effective(d)
<1>1. /\ id' = c + 1 /\ pc'[c] = "open" /\ active'[c] = a
      /\ pc' \in [Call -> {"none", "open", "loop", "send", "unsubscribe", "report", "done"}]
      /\ active' \in [Call -> BOOLEAN]
      /\ \A d \in Call \ {c} : pc'[d] = pc[d] /\ active'[d] = active[d]
  BY Types DEF Start
<1>2. Effective(c)' = active'[c]
  BY DEF Effective
<1>3. \A d \in Call \ {c} : Effective(d)' = Effective(d)
  BY <1>1 DEF Effective
<1> QED
  BY <1>1, <1>2, <1>3, Zenon

\* A command reaches the goroutine it is sent to, and no other.
LEMMA CommandFrame ==
  ASSUME TypeOK, NEW c \in Call, SetChannel(c)
  PROVE  LET b == sched = "run" IN
         /\ b \in BOOLEAN
         /\ state' \in [Call -> Seq(BOOLEAN)] /\ overrun' \in [Call -> Nat]
         /\ state'[c] = Append(state[c], b) /\ Effective(c)' = b
         /\ Len(state'[c]) = Len(state[c]) + 1 /\ Len(state[c]) \in Nat
         /\ Len(state[c]) < StateCap /\ state'[c] # <<>> /\ overrun'[c] = 0
         /\ state[c] # <<>> => state'[c][1] = state[c][1]
         /\ state[c] = <<>> => state'[c][1] = b
         /\ \A d \in Call \ {c} : /\ state'[d] = state[d] /\ overrun'[d] = overrun[d]
                                  /\ Effective(d)' = Effective(d)
         /\ UNCHANGED <<pc, active, sent, sched, table, id, max_priority, use_scheduler,
                        line, unsubscribe, subscribe, scanned, wg>>
<1> DEFINE b == sched = "run"
<1>1. UNCHANGED <<pc, active, sent, sched, table, id, max_priority, use_scheduler,
                  line, unsubscribe, subscribe, scanned, wg>>
  BY DEF SetChannel, config, mainVars, callVars
<1>2. /\ b \in BOOLEAN /\ state \in [Call -> Seq(BOOLEAN)]
      /\ state' = [state EXCEPT ![c] = Append(@, b)]
      /\ overrun' = [overrun EXCEPT ![c] = 0] /\ Len(state[c]) < StateCap
  BY Types DEF SetChannel
<1> HIDE DEF b
<1>3. /\ state'[c] = Append(state[c], b)
      /\ \A d \in Call \ {c} : state'[d] = state[d]
  BY <1>2
<1>4. /\ Append(state[c], b) \in Seq(BOOLEAN) /\ Append(state[c], b) # <<>>
      /\ Len(state[c]) \in Nat /\ Len(Append(state[c], b)) = Len(state[c]) + 1
      /\ \A i \in 1 .. Len(state[c]) : Append(state[c], b)[i] = state[c][i]
      /\ Append(state[c], b)[Len(state[c]) + 1] = b
  BY <1>2, AppendedCommand
<1>5. state' \in [Call -> Seq(BOOLEAN)]
  BY <1>2, <1>4
<1>6. overrun' \in [Call -> Nat] /\ overrun'[c] = 0 /\ \A d \in Call \ {c} : overrun'[d] = overrun[d]
  BY <1>2, Types
<1>7. /\ Effective(c)' = b
      /\ \A d \in Call \ {c} : Effective(d)' = Effective(d)
  BY <1>1, <1>3, <1>4 DEF Effective
<1>8. /\ state[c] # <<>> => state'[c][1] = state[c][1]
      /\ state[c] = <<>> => state'[c][1] = b
  <2>1. state[c] # <<>> => Len(state[c]) >= 1
    BY <1>2, EmptySeq
  <2>2. state[c] = <<>> => Len(state[c]) = 0
    BY EmptySeq
  <2> QED
    BY <1>3, <1>4, <2>1, <2>2
<1> QED
  BY <1>1, <1>2, <1>3, <1>4, <1>5, <1>6, <1>7, <1>8 DEF b

\* A step of goroutine c changes neither the table nor another goroutine,
\* and not what c has been told.
LEMMA ThreadFrame ==
  ASSUME TypeOK, NEW c \in Call, Thread(c)
  PROVE  /\ UNCHANGED <<schedVars, config, scanned, subscribe>>
         /\ pc[c] \notin {"none", "done"} /\ pc'[c] # "none"
         /\ pc' \in [Call -> {"none", "open", "loop", "send", "unsubscribe", "report", "done"}]
         /\ active' \in [Call -> BOOLEAN] /\ state' \in [Call -> Seq(BOOLEAN)]
         /\ sent' \in [Call -> Nat] /\ overrun' \in [Call -> Nat]
         /\ \A d \in Call : Effective(d)' = Effective(d)
         /\ \A d \in Call \ {c} :
              /\ pc'[d] = pc[d] /\ active'[d] = active[d] /\ state'[d] = state[d]
              /\ sent'[d] = sent[d] /\ overrun'[d] = overrun[d]
<1> USE DEF Looping, Goto
<1>0. /\ pc \in [Call -> {"none", "open", "loop", "send", "unsubscribe", "report", "done"}]
      /\ active \in [Call -> BOOLEAN] /\ state \in [Call -> Seq(BOOLEAN)]
      /\ sent \in [Call -> Nat] /\ overrun \in [Call -> Nat]
  BY Types
<1>1. UNCHANGED <<schedVars, config, scanned, subscribe>>
  BY DEF Thread, mainVars
<1>2. /\ pc' \in [Call -> {"none", "open", "loop", "send", "unsubscribe", "report", "done"}]
      /\ pc[c] \notin {"none", "done"} /\ pc'[c] # "none"
  BY <1>0 DEF Thread, Open, GoOn, TakeCommand, Await, Send, Close, SendUnsubscribe, Report
<1>3. sent' \in [Call -> Nat] /\ overrun' \in [Call -> Nat]
  <2>1. CASE UNCHANGED <<sent, overrun>>
    BY <1>0, <2>1
  <2>2. CASE Send(c)
    BY <1>0, <2>2 DEF Send
  <2> QED
    BY <2>1, <2>2 DEF Thread, Open, GoOn, TakeCommand, Await, Close, SendUnsubscribe, Report
<1>4. \A d \in Call \ {c} :
              /\ pc'[d] = pc[d] /\ active'[d] = active[d] /\ state'[d] = state[d]
              /\ sent'[d] = sent[d] /\ overrun'[d] = overrun[d]
  BY <1>0 DEF Thread, Open, GoOn, TakeCommand, Await, Send, Close, SendUnsubscribe, Report
<1>5. /\ Effective(c)' = Effective(c)
      /\ active' \in [Call -> BOOLEAN] /\ state' \in [Call -> Seq(BOOLEAN)]
  <2>1. CASE TakeCommand(c) \/ Await(c)
    <3>1. /\ state[c] # <<>> /\ active' = [active EXCEPT ![c] = Head(state[c])]
          /\ state' = [state EXCEPT ![c] = Tail(@)]
      BY <2>1 DEF TakeCommand, Await
    <3>2. Head(state[c]) \in BOOLEAN /\ Tail(state[c]) \in Seq(BOOLEAN)
      BY <3>1, <1>0, TakenCommand
    <3>3. Effective(c)' = Effective(c)
      BY <3>1, <1>0, TakenCommand DEF Effective
    <3> QED
      BY <3>1, <3>2, <3>3, <1>0
  <2>2. CASE ~(TakeCommand(c) \/ Await(c))
    <3>1. UNCHANGED <<active, state>>
      BY <2>2 DEF Thread, Open, GoOn, Send, Close, SendUnsubscribe, Report
    <3> QED
      BY <3>1, <1>0 DEF Effective
  <2> QED
    BY <2>1, <2>2
<1> QED
  BY <1>1, <1>2, <1>3, <1>4, <1>5 DEF Effective

-----------------------------------------------------------------------------
(* The parts of the invariant, each preserved by every step *)

\* Goroutines are started in the order in which main sends the ids.
LEMMA NumberedStep ==
  ASSUME Inv, [Next]_vars
  PROVE  Numbered'
<1>0. TypeOK /\ Numbered /\ Tabled /\ Unscheduled /\ Chosen
  BY DEF Inv
<1>t. /\ id \in Int /\ scanned \in Int /\ subscribe \in Seq(Call) /\ Len(subscribe) \in Nat
      /\ todo \subseteq Call /\ \A c \in Call : c \in Int
  BY <1>0, Types
<1> USE DEF Numbered
<1>1. CASE UNCHANGED core
  BY <1>0, <1>1 DEF core, schedVars, NextId
<1>2. CASE ReadLine
  <2>1. /\ UNCHANGED <<sched, id, pc, active, state>> /\ scanned' = scanned + 1
        /\ subscribe' = Append(subscribe, scanned + 1) /\ scanned + 1 \in Call
    <3>1. scanned + 1 \in Call
      <4>1. scanned \in 0 .. NumCalls /\ scanned < NumCalls /\ NumCalls \in Nat
        BY <1>0, <1>2, GoConcurrentAssumption DEF ReadLine, TypeOK
      <4> QED
        BY <4>1 DEF Call
    <3> QED
      BY <1>2, <3>1 DEF ReadLine, schedVars, callVars
  <2>2. /\ Len(subscribe') = Len(subscribe) + 1
        /\ \A i \in 1 .. Len(subscribe) : subscribe'[i] = subscribe[i]
        /\ subscribe'[Len(subscribe) + 1] = scanned + 1
    BY <1>t, <2>1, AppendProperties
  <2>3. NextId' = NextId /\ NextId \in Int
    BY <1>t, <2>1 DEF NextId
  <2>4. ASSUME NEW i \in 1 .. Len(subscribe') PROVE subscribe'[i] = NextId + i - 1
    <3>1. CASE i \in 1 .. Len(subscribe)
      BY <1>0, <2>2, <3>1
    <3>2. CASE i = Len(subscribe) + 1
      BY <1>0, <1>t, <2>2, <2>3, <3>2
    <3> QED
      BY <1>t, <2>2, <3>1, <3>2
  <2>5. scanned' + 1 = NextId + Len(subscribe')
    BY <1>0, <1>t, <2>1, <2>2, <2>3
  <2> QED
    BY <1>0, <2>1, <2>3, <2>4, <2>5
<1>3. CASE Subscribe
  <2>1. /\ id \in Call /\ pc[id] = "none" /\ ~active[id] /\ state[id] = <<>>
        /\ Len(subscribe') = Len(subscribe) - 1 /\ sched = "select"
        /\ \A i \in 1 .. Len(subscribe') : subscribe'[i] = id + i
        /\ Head(subscribe) = id
    BY <1>0, <1>3, Subscribed
  <2>2. UNCHANGED <<scanned, state>>
    BY <1>3 DEF Subscribe, mainVars
  <2>3. CASE \E a \in BOOLEAN : Start(id, a) /\ UNCHANGED sched
    <3>1. PICK a \in BOOLEAN : Start(id, a) /\ UNCHANGED sched
      BY <2>3
    <3>2. /\ id' = id + 1 /\ pc'[id] = "open"
          /\ \A d \in Call \ {id} : pc'[d] = pc[d] /\ active'[d] = active[d]
      BY <1>0, <2>1, <2>2, <3>1, StartFrame
    <3>3. NextId = id /\ NextId' = id + 1
      BY <2>1, <3>1, <3>2 DEF NextId
    <3>4. ASSUME NEW d \in Call
          PROVE  /\ pc'[d] = "none" <=> d >= id + 1
                 /\ pc'[d] = "none" => ~active'[d] /\ state'[d] = <<>>
      <4>1. CASE d = id
        BY <1>t, <3>2, <4>1
      <4>2. CASE d # id
        BY <1>0, <1>t, <2>2, <3>2, <4>2
      <4> QED
        BY <4>1, <4>2
    <3> QED
      BY <1>0, <1>t, <2>1, <2>2, <3>2, <3>3, <3>4
  <2>4. CASE sched' = "pause" /\ UNCHANGED <<id, pc, active>>
    <3>1. NextId = id /\ NextId' = id + 1
      BY <2>1, <2>4 DEF NextId
    <3> QED
      BY <1>0, <1>t, <2>1, <2>2, <2>4, <3>1
  <2> QED
    BY <1>3, <2>1, <2>3, <2>4 DEF Subscribe
<1>4. CASE Paused
  <2>1. use_scheduler /\ id \in table /\ sched = "pause"
    BY <1>0, <1>4 DEF Paused, Unscheduled, Tabled
  <2>2. id \in Call /\ state[id] = <<>>
    BY <1>0, <1>t, <2>1, Types
  <2>3. /\ id' = id + 1 /\ pc'[id] = "open"
        /\ \A d \in Call \ {id} : pc'[d] = pc[d] /\ active'[d] = active[d]
    BY <1>0, <1>4, <2>2, StartFrame DEF Paused
  <2>4. UNCHANGED <<state, subscribe, scanned>> /\ sched' = "select"
    BY <1>4 DEF Paused, mainVars
  <2>5. NextId = id + 1 /\ NextId' = NextId
    BY <2>1, <2>3, <2>4 DEF NextId
  <2>6. \A d \in Call : /\ pc'[d] = "none" <=> d >= id + 1
                        /\ pc'[d] = "none" => ~active'[d] /\ state'[d] = <<>>
    BY <1>0, <1>t, <2>2, <2>3, <2>4
  <2> QED
    BY <1>0, <2>3, <2>4, <2>5, <2>6
<1>5. CASE Resumed \/ Unsubscribe
  <2>1. /\ UNCHANGED <<id, pc, active, state, subscribe, scanned>>
        /\ sched # "pause" /\ sched' # "pause"
    BY <1>5 DEF Resumed, Unsubscribe, callVars, mainVars
  <2> QED
    BY <1>0, <2>1 DEF NextId
<1>6. ASSUME NEW c \in Call, SetChannel(c) PROVE Numbered'
  <2>1. /\ UNCHANGED <<sched, id, pc, active, subscribe, scanned>>
        /\ \A d \in Call \ {c} : state'[d] = state[d]
    BY <1>0, <1>6, CommandFrame
  <2>2. pc[c] # "none"
    <3>1. c \in todo /\ sched # "select" /\ use_scheduler
      BY <1>0, <1>6 DEF SetChannel, Chosen, Unscheduled
    <3>2. c \in table /\ (sched = "pause" => c # id)
      BY <1>0, <3>1 DEF Chosen, Group, Registered
    <3> QED
      BY <1>0, <3>1, <3>2 DEF Tabled
  <2> QED
    BY <1>0, <2>1, <2>2 DEF NextId
<1>7. ASSUME NEW c \in Call, Thread(c) PROVE Numbered'
  <2>1. /\ UNCHANGED <<sched, id, subscribe, scanned>> /\ pc[c] # "none" /\ pc'[c] # "none"
        /\ \A d \in Call \ {c} : pc'[d] = pc[d] /\ active'[d] = active[d] /\ state'[d] = state[d]
    BY <1>0, <1>7, ThreadFrame DEF schedVars
  <2> QED
    BY <1>0, <2>1 DEF NextId
<1> QED
  BY <1>1, <1>2, <1>3, <1>4, <1>5, <1>6, <1>7, Steps

\* wg.Done() takes one off the counter for every goroutine that ends.
LEMMA CountedStep ==
  ASSUME Inv, [Next]_vars
  PROVE  Counted' /\ wg' \in Nat
<1>0. TypeOK /\ Numbered /\ Counted /\ NumCalls \in Nat /\ wg \in Nat
  BY GoConcurrentAssumption DEF Inv, TypeOK
<1>t. IsFiniteSet(Done) /\ Cardinality(Done) \in Nat
  <2>1. IsFiniteSet(Call) /\ Done \subseteq Call
    BY <1>0, FS_Interval DEF Call, Done
  <2> QED
    BY <2>1, FS_Subset, FS_CardinalityType
<1>1. ASSUME UNCHANGED wg, \A d \in Call : pc'[d] = "done" <=> pc[d] = "done"
      PROVE  Counted' /\ wg' \in Nat
  <2>1. Done' = Done
    BY <1>1 DEF Done
  <2> QED
    BY <1>0, <1>1, <2>1 DEF Counted
<1>2. CASE UNCHANGED core \/ ReadLine \/ Resumed \/ Unsubscribe
  BY <1>1, <1>2 DEF core, ReadLine, Resumed, Unsubscribe, callVars
<1>3. CASE Subscribe
  <2>1. id \in Call /\ pc[id] = "none" /\ Head(subscribe) = id
    BY <1>0, <1>3, Subscribed
  <2>2. \A d \in Call : pc'[d] = "done" <=> pc[d] = "done"
    BY <1>0, <1>3, <2>1, Types DEF Subscribe, Start
  <2> QED
    BY <1>1, <1>3, <2>2 DEF Subscribe
<1>4. CASE Paused
  <2>1. id \in Call => pc[id] = "none"
    BY <1>0, Types DEF Numbered
  <2>2. \A d \in Call : pc'[d] = "done" <=> pc[d] = "done"
    BY <1>0, <1>4, <2>1, Types DEF Paused, Start
  <2> QED
    BY <1>1, <1>4, <2>2 DEF Paused
<1>5. ASSUME NEW c \in Call, SetChannel(c) PROVE Counted' /\ wg' \in Nat
  BY <1>1, <1>5 DEF SetChannel, callVars
<1>6. ASSUME NEW c \in Call, Thread(c) PROVE Counted' /\ wg' \in Nat
  <2>1. pc[c] # "done" /\ \A d \in Call \ {c} : pc'[d] = pc[d]
    BY <1>0, <1>6, ThreadFrame
  <2>2. CASE Report(c)
    <3>1. Done' = Done \cup {c} /\ c \notin Done /\ wg' = wg - 1
      BY <1>0, <2>1, <2>2, Types DEF Report, Goto, Done
    <3>2. Cardinality(Done') = Cardinality(Done) + 1
      BY <1>t, <3>1, FS_AddElement
    <3>3. Cardinality(Done') <= NumCalls
      <4>1. IsFiniteSet(Call) /\ Cardinality(Call) = NumCalls
        <5>1. IsFiniteSet(1 .. NumCalls) /\ Cardinality(1 .. NumCalls) = NumCalls
          BY <1>0, FS_Interval
        <5> QED
          BY <5>1 DEF Call
      <4>2. Done' \subseteq Call
        BY DEF Done
      <4> QED
        BY <4>1, <4>2, FS_Subset
    <3> QED
      BY <1>0, <1>t, <3>1, <3>2, <3>3 DEF Counted
  <2>3. CASE ~Report(c)
    <3>1. UNCHANGED wg /\ pc'[c] # "done"
      BY <1>0, <1>6, <2>3, Types DEF Thread, Open, GoOn, TakeCommand, Await, Send, Close,
                  SendUnsubscribe, Goto
    <3> QED
      BY <1>1, <2>1, <3>1
  <2> QED
    BY <2>2, <2>3
<1> QED
  BY <1>2, <1>3, <1>4, <1>5, <1>6, Steps

\* Without --scheduler no call enters the table.
LEMMA UnscheduledStep ==
  ASSUME Inv, [Next]_vars
  PROVE  Unscheduled'
<1> SUFFICES ASSUME ~use_scheduler
             PROVE  /\ sched' = "select" /\ table' = {} /\ max_priority' = 0
                    /\ unsubscribe' = <<>>
                    /\ \A c \in Call : pc'[c] # "unsubscribe"
  BY ConfigIsFixed DEF Unscheduled
<1>0. /\ sched = "select" /\ table = {} /\ max_priority = 0 /\ unsubscribe = <<>>
      /\ \A c \in Call : pc[c] # "unsubscribe" /\ TypeOK /\ Chosen
      /\ TypeOK /\ Chosen
      /\ pc \in [Call -> {"none", "open", "loop", "send", "unsubscribe", "report", "done"}]
  BY Types DEF Inv, Unscheduled
<1>1. CASE UNCHANGED core \/ ReadLine
  BY <1>0, <1>1 DEF core, ReadLine, schedVars, callVars
<1>2. CASE Subscribe
  BY <1>0, <1>2 DEF Subscribe, Start
<1>3. CASE Paused \/ Resumed \/ Unsubscribe
  BY <1>0, <1>3 DEF Paused, Resumed, Unsubscribe
<1>4. ASSUME NEW c \in Call, SetChannel(c) PROVE FALSE
  BY <1>0, <1>4 DEF SetChannel, Chosen
<1>5. ASSUME NEW c \in Call, Thread(c)
      PROVE  /\ UNCHANGED <<sched, table, max_priority, unsubscribe>>
             /\ \A d \in Call : pc'[d] # "unsubscribe"
  <2>1. UNCHANGED <<sched, table, max_priority>> /\ \A d \in Call \ {c} : pc'[d] = pc[d]
    BY <1>0, <1>5, ThreadFrame DEF schedVars
  <2>2. UNCHANGED unsubscribe /\ pc'[c] # "unsubscribe"
    BY <1>0, <1>5 DEF Thread, Open, GoOn, TakeCommand, Await, Send, Close, SendUnsubscribe,
                Report, Goto
  <2> QED
    BY <1>0, <2>1, <2>2
<1> QED
  BY <1>0, <1>1, <1>2, <1>3, <1>4, <1>5, Steps

\* A call enters the table when its id is read and leaves when its id comes
\* back.
LEMMA TabledStep ==
  ASSUME Inv, [Next]_vars
  PROVE  Tabled'
<1> SUFFICES ASSUME use_scheduler PROVE Tabled'
  BY ConfigIsFixed DEF Tabled
<1>0. /\ TypeOK /\ Numbered /\ Chosen /\ use_scheduler
      /\ \A c \in table : pc[c] # "none" \/ (sched = "pause" /\ c = id)
      /\ sched = "pause" => id \in table
      /\ \A c \in Call : pc[c] \in {"open", "loop", "send", "unsubscribe"} => c \in table
      /\ \A i \in 1 .. Len(unsubscribe) :
           /\ unsubscribe[i] \in table
           /\ pc[unsubscribe[i]] \in {"report", "done"}
           /\ \A j \in 1 .. Len(unsubscribe) : unsubscribe[i] = unsubscribe[j] => i = j
  BY DEF Inv, Tabled
<1>t. /\ pc \in [Call -> {"none", "open", "loop", "send", "unsubscribe", "report", "done"}]
      /\ table \subseteq Call /\ unsubscribe \in Seq(Call) /\ Len(unsubscribe) \in Nat
  BY <1>0, Types
<1> USE DEF Tabled
<1>1. CASE UNCHANGED core \/ ReadLine \/ Resumed
  BY <1>0, <1>1 DEF core, schedVars, callVars, ReadLine, Resumed
<1>2. CASE Subscribe
  <2>1. id \in Call /\ pc[id] = "none" /\ sched = "select" /\ Head(subscribe) = id
    BY <1>0, <1>2, Subscribed
  <2>2. table' = table \cup {id} /\ UNCHANGED unsubscribe
    BY <1>0, <1>2, <2>1 DEF Subscribe
  <2>3. \A i \in 1 .. Len(unsubscribe) : unsubscribe[i] # id
    BY <1>0, <2>1
  <2>4. CASE pc' = [pc EXCEPT ![id] = "open"] /\ sched' = "select"
    BY <1>0, <1>t, <2>1, <2>2, <2>3, <2>4
  <2>5. CASE sched' = "pause" /\ UNCHANGED <<id, pc>>
    BY <1>0, <1>t, <2>1, <2>2, <2>5
  <2> QED
    BY <1>0, <1>2, <2>1, <2>4, <2>5 DEF Subscribe, Start
<1>3. CASE Paused
  <2>1. id \in table /\ pc[id] = "none" /\ sched = "pause"
    <3>1. id \in table /\ sched = "pause"
      BY <1>0, <1>3 DEF Paused
    <3>2. id \in Int
      BY <1>0, Types
    <3> QED
      BY <1>0, <1>t, <3>1, <3>2 DEF Numbered
  <2>2. /\ pc' = [pc EXCEPT ![id] = "open"] /\ sched' = "select"
        /\ UNCHANGED <<table, unsubscribe>>
    BY <1>3 DEF Paused, Start
  <2>3. \A i \in 1 .. Len(unsubscribe) : unsubscribe[i] # id
    BY <1>0, <2>1
  <2> QED
    BY <1>0, <1>t, <2>1, <2>2, <2>3
<1>4. CASE Unsubscribe
  <2>1. /\ Head(unsubscribe) = unsubscribe[1] /\ unsubscribe' \in Seq(Call)
        /\ Len(unsubscribe') = Len(unsubscribe) - 1 /\ 1 \in 1 .. Len(unsubscribe)
        /\ \A i \in 1 .. Len(unsubscribe') :
             unsubscribe'[i] = unsubscribe[i + 1] /\ i + 1 \in 1 .. Len(unsubscribe)
    BY <1>t, <1>4, HeadTailProperties, EmptySeq DEF Unsubscribe
  <2>2. /\ table' = table \ {unsubscribe[1]} /\ UNCHANGED pc
        /\ sched = "select" /\ sched' # "pause"
    BY <1>4, <2>1 DEF Unsubscribe, callVars
  <2>3. pc[unsubscribe[1]] \in {"report", "done"}
    BY <1>0, <2>1
  <2>4. ASSUME NEW i \in 1 .. Len(unsubscribe')
        PROVE  /\ unsubscribe'[i] \in table' /\ pc[unsubscribe'[i]] \in {"report", "done"}
               /\ \A j \in 1 .. Len(unsubscribe') : unsubscribe'[i] = unsubscribe'[j] => i = j
    <3>1. unsubscribe'[i] = unsubscribe[i + 1] /\ i + 1 \in 1 .. Len(unsubscribe) /\ i + 1 # 1
      BY <2>1
    <3>2. ASSUME NEW j \in 1 .. Len(unsubscribe'), unsubscribe'[i] = unsubscribe'[j]
          PROVE  i = j
      <4>1. unsubscribe'[j] = unsubscribe[j + 1] /\ j + 1 \in 1 .. Len(unsubscribe)
        BY <2>1
      <4>2. i + 1 = j + 1
        BY <1>0, <3>1, <3>2, <4>1
      <4> QED
        BY <1>t, <2>1, <4>2
    <3> QED
      BY <1>0, <2>1, <2>2, <3>1, <3>2
  <2> QED
    BY <1>0, <2>2, <2>3, <2>4
<1>5. ASSUME NEW c \in Call, SetChannel(c) PROVE Tabled'
  BY <1>0, <1>5, CommandFrame
<1>6. ASSUME NEW c \in Call, Thread(c) PROVE Tabled'
  <2>1. /\ UNCHANGED <<table, sched, id>> /\ pc[c] \notin {"none", "done"}
        /\ pc'[c] # "none" /\ \A d \in Call \ {c} : pc'[d] = pc[d]
    BY <1>0, <1>6, ThreadFrame DEF schedVars
  <2>2. CASE SendUnsubscribe(c)
    <3>1. /\ pc[c] = "unsubscribe" /\ pc'[c] = "report"
          /\ unsubscribe' = Append(unsubscribe, c) /\ c \in table
      BY <1>0, <1>t, <2>2 DEF SendUnsubscribe, Goto
    <3>2. /\ Len(unsubscribe') = Len(unsubscribe) + 1
          /\ \A i \in 1 .. Len(unsubscribe) : unsubscribe'[i] = unsubscribe[i]
          /\ unsubscribe'[Len(unsubscribe) + 1] = c
      BY <1>t, <3>1, AppendProperties
    <3>3. \A i \in 1 .. Len(unsubscribe) : unsubscribe[i] # c /\ unsubscribe[i] \in Call
      BY <1>0, <1>t, <3>1
    <3>4. ASSUME NEW i \in 1 .. Len(unsubscribe')
          PROVE  /\ unsubscribe'[i] \in table
                 /\ pc'[unsubscribe'[i]] \in {"report", "done"}
                 /\ \A j \in 1 .. Len(unsubscribe') : unsubscribe'[i] = unsubscribe'[j] => i = j
      <4>1. CASE i = Len(unsubscribe) + 1
        BY <1>0, <1>t, <2>1, <3>1, <3>2, <3>3, <4>1
      <4>2. CASE i \in 1 .. Len(unsubscribe)
        BY <1>0, <1>t, <2>1, <3>1, <3>2, <3>3, <4>2
      <4> QED
        BY <1>t, <3>2, <4>1, <4>2
    <3> QED
      BY <1>0, <1>t, <2>1, <3>1, <3>4
  <2>3. CASE ~SendUnsubscribe(c)
    <3>1. /\ UNCHANGED unsubscribe
          /\ pc[c] = "report" => pc'[c] = "done"
          /\ pc'[c] \in {"open", "loop", "send", "unsubscribe"} =>
               pc[c] \in {"open", "loop", "send", "unsubscribe"}
      BY <1>0, <1>t, <1>6, <2>3 DEF Thread, Open, GoOn, TakeCommand, Await, Send, Close,
                  Report, Goto, Looping
    <3>2. \A d \in Call : pc[d] \in {"report", "done"} => pc'[d] \in {"report", "done"}
      BY <2>1, <3>1
    <3>3. \A i \in 1 .. Len(unsubscribe) : unsubscribe[i] \in Call
      BY <1>t
    <3> QED
      BY <1>0, <1>t, <2>1, <3>1, <3>2, <3>3
  <2> QED
    BY <2>2, <2>3
<1> QED
  BY <1>1, <1>2, <1>3, <1>4, <1>5, <1>6, Steps

\* A call that leaves is one of the table.
LEMMA Unsubscribed ==
  ASSUME TypeOK, Tabled, Unscheduled, Unsubscribe
  PROVE  /\ use_scheduler /\ Head(unsubscribe) \in table /\ unsubscribe' \in Seq(Call)
<1>1. unsubscribe \in Seq(Call) /\ unsubscribe # <<>>
  BY DEF TypeOK, Unsubscribe
<1>2. /\ Head(unsubscribe) = unsubscribe[1] /\ 1 \in 1 .. Len(unsubscribe)
      /\ unsubscribe' \in Seq(Call)
  BY <1>1, HeadTailProperties, EmptySeq DEF Unsubscribe
<1> QED
  BY <1>1, <1>2 DEF Tabled, Unscheduled

\* max_priority is brought up to date by a newcomer that outranks the others
\* and by a call that empties its group; every other step leaves the highest
\* priority as it is.
LEMMA ChosenStep ==
  ASSUME Inv, [Next]_vars
  PROVE  Chosen'
<1>0. TypeOK /\ Numbered /\ Tabled /\ Unscheduled /\ Chosen
  BY DEF Inv
<1>t. /\ table \subseteq Call /\ line \in [Call -> Line] /\ max_priority \in Nat /\ id \in Int
      /\ use_scheduler \in BOOLEAN
      /\ \A c \in Call : c \in Int /\ line[c].priority \in Nat /\ line[c].priority > 0
  BY <1>0, Types
<1>c. UNCHANGED <<use_scheduler, line>>
  BY ConfigIsFixed
<1>1. CASE UNCHANGED core
  BY <1>0, <1>1, <1>c DEF core, schedVars, Chosen, Registered, Group, GetMaxPriority
<1>2. ASSUME UNCHANGED <<todo, sched, max_priority, table, id>> PROVE Chosen'
  BY <1>0, <1>2, <1>c DEF Chosen, Registered, Group, GetMaxPriority
<1>3. CASE ReadLine
  BY <1>2, <1>3 DEF ReadLine, schedVars
<1>4. CASE Subscribe
  <2>1. /\ id \in Call /\ pc[id] = "none" /\ sched = "select" /\ todo = {}
        /\ Head(subscribe) = id
    BY <1>0, <1>4, Subscribed DEF Chosen
  <2>2. CASE ~use_scheduler
    <3>1. UNCHANGED <<sched, todo, table, max_priority>>
      BY <1>4, <2>2 DEF Subscribe
    <3> QED
      BY <1>0, <1>c, <2>1, <2>2, <3>1 DEF Chosen
  <2>3. CASE use_scheduler
    <3>1. /\ max_priority = GetMaxPriority(table) /\ id \notin table
          /\ table' = table \cup {id}
          /\ \A d \in table : line[d].priority <= max_priority /\ max_priority > 0
          /\ table # {} => \E d \in table : line[d].priority = max_priority
      <4>1. max_priority = GetMaxPriority(table)
        BY <1>0, <2>1, <2>3 DEF Chosen, Registered
      <4>2. id \notin table
        BY <1>0, <2>1, <2>3 DEF Tabled
      <4>3. table' = table \cup {id}
        BY <1>4, <2>1, <2>3 DEF Subscribe
      <4> QED
        BY <1>t, <4>1, <4>2, <4>3, MaxPriority
    <3>2. CASE max_priority \in {0, line[id].priority}
      <4>1. /\ sched' = "select" /\ todo' = {} /\ max_priority' = line[id].priority
        BY <1>0, <1>4, <2>1, <2>3, <3>2, Ranked
      <4>2. \A d \in table' : line[d].priority <= line[id].priority
        BY <1>t, <2>1, <3>1, <3>2
      <4>3. GetMaxPriority(table') = line[id].priority
        BY <1>t, <2>1, <3>1, <4>2, MaxPriorityIs
      <4>4. GetMaxPriority(table)' = GetMaxPriority(table')
        BY <1>c DEF GetMaxPriority
      <4> QED
        BY <4>1, <4>3, <4>4 DEF Chosen, Registered
    <3>3. CASE 0 < max_priority /\ max_priority < line[id].priority
      <4>1. /\ sched' = "pause" /\ todo' = Group(max_priority, table)
            /\ UNCHANGED <<id, max_priority>>
        BY <1>0, <1>4, <2>3, <3>3, Ranked
      <4>2. Registered' = table
        BY <3>1, <4>1 DEF Registered
      <4>3. GetMaxPriority(Registered)' = GetMaxPriority(table)
        BY <1>c, <4>2 DEF GetMaxPriority
      <4>4. Group(max_priority, Registered)' = Group(max_priority, table)
        BY <1>c, <4>1, <4>2 DEF Group
      <4> QED
        BY <1>c, <3>1, <3>3, <4>1, <4>3, <4>4 DEF Chosen
    <3>4. CASE line[id].priority < max_priority
      <4>1. /\ sched' = "select" /\ todo' = {} /\ max_priority' = max_priority
        BY <1>0, <1>4, <2>1, <2>3, <3>4, Ranked
      <4>2. PICK d \in table : line[d].priority = max_priority
        <5>1. table # {}
          BY <1>t, <2>1, <3>1, <3>4, MaxPriority
        <5> QED
          BY <3>1, <5>1
      <4>3. GetMaxPriority(table') = line[d].priority
        <5>1. \A e \in table' : line[e].priority <= line[d].priority
          BY <1>t, <2>1, <3>1, <3>4, <4>2
        <5> QED
          BY <1>t, <2>1, <3>1, <4>2, <5>1, MaxPriorityIs
      <4>4. GetMaxPriority(table)' = GetMaxPriority(table')
        BY <1>c DEF GetMaxPriority
      <4> QED
        BY <4>1, <4>2, <4>3, <4>4 DEF Chosen, Registered
    <3> QED
      BY <1>t, <2>1, <3>2, <3>3, <3>4
  <2> QED
    BY <1>t, <2>2, <2>3
<1>5. CASE Paused
  <2>1. /\ sched = "pause" /\ sched' = "select" /\ todo' = {} /\ table' = table
        /\ use_scheduler /\ max_priority' = line[id].priority /\ id \in table
        /\ max_priority = GetMaxPriority(table \ {id}) /\ max_priority < line[id].priority
    BY <1>0, <1>5 DEF Paused, Chosen, Tabled, Unscheduled, Registered
  <2>2. \A d \in table : line[d].priority <= line[id].priority
    <3>1. \A d \in table \ {id} : line[d].priority <= max_priority
      BY <1>t, <2>1, MaxPriority
    <3>2. line[id].priority \in Int /\ max_priority \in Int /\ \A d \in table : line[d].priority \in Int
      BY <1>t, <2>1
    <3>3. \A a, b, c \in Int : a <= b /\ b < c => a <= c
      OBVIOUS
    <3>4. ASSUME NEW d \in table, d # id PROVE line[d].priority <= line[id].priority
      <4>1. line[d].priority <= max_priority /\ max_priority < line[id].priority
        BY <2>1, <3>1, <3>4
      <4> QED
        BY <3>2, <3>3, <4>1
    <3>5. line[id].priority <= line[id].priority
      BY <3>2
    <3> QED
      BY <3>4, <3>5
  <2>3. GetMaxPriority(table) = line[id].priority
    BY <1>t, <2>1, <2>2, MaxPriorityIs
  <2>4. GetMaxPriority(Registered)' = GetMaxPriority(table)
    BY <1>c, <2>1 DEF GetMaxPriority, Registered
  <2> QED
    BY <2>1, <2>3, <2>4 DEF Chosen
<1>6. CASE Resumed
  <2>1. /\ sched = "run" /\ sched' = "select" /\ todo' = {} /\ UNCHANGED <<table, max_priority>>
    BY <1>6 DEF Resumed
  <2>2. GetMaxPriority(Registered)' = GetMaxPriority(Registered)
    BY <1>c, <2>1 DEF GetMaxPriority, Registered
  <2> QED
    BY <1>0, <1>c, <2>1, <2>2 DEF Chosen
<1>7. CASE Unsubscribe
  <2> DEFINE c == Head(unsubscribe)
  <2>1. /\ use_scheduler /\ c \in table /\ sched = "select" /\ table' = table \ {c}
        /\ max_priority = GetMaxPriority(table) /\ todo = {}
    BY <1>0, <1>7, Unsubscribed DEF Chosen, Registered, Unsubscribe
  <2>2. /\ \A d \in table : line[d].priority <= max_priority
        /\ \E d \in table : line[d].priority = max_priority
    BY <1>t, <2>1, MaxPriority
  <2>3. /\ GetMaxPriority(table)' = GetMaxPriority(table')
        /\ Group(max_priority, table)' = Group(max_priority', table')
    BY <1>c DEF GetMaxPriority, Group
  <2>4. CASE Group(line[c].priority, table') # {}
    <3>1. sched' = "select" /\ todo' = {} /\ max_priority' = max_priority
      BY <1>7, <2>1, <2>4 DEF Unsubscribe
    <3>2. PICK d \in table' : line[d].priority = max_priority
      <4>1. PICK e \in table : line[e].priority = max_priority
        BY <2>2
      <4>2. PICK f \in table' : line[f].priority = line[c].priority
        BY <2>4 DEF Group
      <4> QED
        BY <2>1, <4>1, <4>2
    <3>3. GetMaxPriority(table') = line[d].priority
      BY <1>t, <2>1, <2>2, <3>2, MaxPriorityIs
    <3> QED
      BY <2>3, <3>1, <3>2, <3>3 DEF Chosen, Registered
  <2>5. CASE Group(line[c].priority, table') = {}
    <3>1. /\ sched' = "run" /\ max_priority' = GetMaxPriority(table')
          /\ todo' = Group(max_priority', table')
      BY <1>7, <2>1, <2>5 DEF Unsubscribe
    <3> QED
      BY <2>3, <3>1 DEF Chosen, Registered
  <2> QED
    BY <2>4, <2>5
<1>8. ASSUME NEW c \in Call, SetChannel(c) PROVE Chosen'
  <2>1. /\ todo' = todo \ {c} /\ c \in todo
        /\ UNCHANGED <<sched, table, id, max_priority>>
    BY <1>8 DEF SetChannel
  <2>2. /\ Registered' = Registered
        /\ GetMaxPriority(Registered)' = GetMaxPriority(Registered)
        /\ Group(max_priority, Registered)' = Group(max_priority, Registered)
    BY <1>c, <2>1 DEF Registered, GetMaxPriority, Group
  <2> QED
    BY <1>0, <1>c, <2>1, <2>2 DEF Chosen
<1>9. ASSUME NEW c \in Call, Thread(c) PROVE Chosen'
  BY <1>0, <1>2, <1>9, ThreadFrame DEF schedVars
<1> QED
  BY <1>1, <1>3, <1>4, <1>5, <1>6, <1>7, <1>8, <1>9, Steps


\* A newcomer's goroutine starts with the flag its rank gives it; a pause
\* reaches exactly the group it outranks, and a run the group that is left.
LEMMA ToldStep ==
  ASSUME Inv, [Next]_vars
  PROVE  Told'
<1> SUFFICES ASSUME use_scheduler PROVE Told'
  BY ConfigIsFixed DEF Told
<1>0. /\ TypeOK /\ Numbered /\ Tabled /\ Unscheduled /\ Chosen /\ use_scheduler
      /\ \A c \in Registered :
           /\ line[c].priority # max_priority => ~Effective(c)
           /\ line[c].priority = max_priority /\ c \notin todo =>
                (Effective(c) <=> sched # "pause")
           /\ sched = "pause" /\ c \in todo => Effective(c)
  BY DEF Inv, Told
<1>t. /\ table \subseteq Call /\ line \in [Call -> Line] /\ max_priority \in Nat /\ id \in Int
      /\ \A c \in Call : line[c].priority \in Nat /\ line[c].priority > 0
  BY <1>0, Types
<1>c. UNCHANGED <<use_scheduler, line>>
  BY ConfigIsFixed
<1>1. ASSUME UNCHANGED <<todo, sched, max_priority, table, id>>,
             \A d \in Call : Effective(d)' = Effective(d)
      PROVE  Told'
  <2>1. Registered' = Registered /\ Registered \subseteq Call
    BY <1>t, <1>1 DEF Registered
  <2> QED
    BY <1>0, <1>c, <1>1, <2>1 DEF Told
<1>2. CASE UNCHANGED core \/ ReadLine
  BY <1>1, <1>2 DEF core, ReadLine, schedVars, callVars, Effective
<1>3. CASE Subscribe
  <2>1. /\ id \in Call /\ sched = "select" /\ todo = {} /\ Head(subscribe) = id
        /\ state[id] = <<>> /\ id \notin table /\ table' = table \cup {id}
        /\ max_priority = GetMaxPriority(table) /\ UNCHANGED state
    <3>1. /\ id \in Call /\ sched = "select" /\ Head(subscribe) = id /\ state[id] = <<>>
          /\ pc[id] = "none"
      BY <1>0, <1>3, Subscribed
    <3>2. todo = {} /\ max_priority = GetMaxPriority(table)
      BY <1>0, <3>1 DEF Chosen, Registered
    <3>3. id \notin table
      BY <1>0, <3>1 DEF Tabled
    <3> QED
      BY <1>0, <1>3, <3>1, <3>2, <3>3 DEF Subscribe
  <2>m. PICK m \in Call : m = id
    BY <2>1
  <2>2. \A d \in table : /\ line[d].priority # max_priority => ~Effective(d)
                         /\ line[d].priority = max_priority => Effective(d)
    BY <1>0, <2>1 DEF Registered
  <2>3. CASE max_priority \in {0, line[id].priority}
    <3>1. /\ Start(id, TRUE) /\ max_priority' = line[id].priority
          /\ sched' = "select" /\ todo' = {}
      BY <1>0, <1>3, <2>1, <2>3, Ranked
    <3>2. /\ Effective(m)' = TRUE
          /\ \A d \in Call \ {m} : Effective(d)' = Effective(d)
      BY <1>0, <2>1, <2>m, <3>1, StartFrame
    <3>3. table # {} => max_priority' = max_priority
      <4>1. table # {} => max_priority > 0
        BY <1>t, <2>1, MaxPriority
      <4> QED
        BY <1>t, <2>1, <2>3, <3>1, <4>1
    <3>4. Registered' = table \cup {m}
      BY <2>1, <2>m, <3>1 DEF Registered
    <3> QED
      BY <1>c, <1>t, <2>1, <2>m, <2>2, <3>1, <3>2, <3>3, <3>4 DEF Told
  <2>4. CASE 0 < max_priority /\ max_priority < line[id].priority
    <3>1. /\ sched' = "pause" /\ todo' = Group(max_priority, table)
          /\ UNCHANGED <<id, max_priority, active>>
      BY <1>0, <1>3, <2>4, Ranked
    <3>2. Registered' = table /\ \A d \in Call : Effective(d)' = Effective(d)
      BY <2>1, <3>1 DEF Registered, Effective
    <3> QED
      BY <1>c, <1>t, <2>2, <3>1, <3>2 DEF Told, Group
  <2>5. CASE line[id].priority < max_priority
    <3>1. /\ Start(id, FALSE) /\ max_priority' = max_priority
          /\ sched' = "select" /\ todo' = {}
      BY <1>0, <1>3, <2>1, <2>5, Ranked
    <3>2. /\ Effective(m)' = FALSE
          /\ \A d \in Call \ {m} : Effective(d)' = Effective(d)
      BY <1>0, <2>1, <2>m, <3>1, StartFrame
    <3>3. Registered' = table \cup {m}
      BY <2>1, <2>m, <3>1 DEF Registered
    <3>4. line[id].priority # max_priority
      BY <1>t, <2>1, <2>5
    <3> QED
      BY <1>c, <1>t, <2>1, <2>m, <2>2, <3>1, <3>2, <3>3, <3>4 DEF Told
  <2> QED
    BY <1>0, <1>3, <2>3, <2>4, <2>5, Ranked
<1>4. CASE Paused
  <2>1. /\ sched = "pause" /\ sched' = "select" /\ todo = {} /\ todo' = {}
        /\ table' = table /\ id \in table /\ id \in Call
        /\ Start(id, TRUE) /\ max_priority' = line[id].priority /\ UNCHANGED state
        /\ max_priority = GetMaxPriority(table \ {id}) /\ max_priority < line[id].priority
    BY <1>0, <1>t, <1>4 DEF Paused, Chosen, Tabled, Registered
  <2>2. state[id] = <<>>
    <3>1. pc[id] = "none"
      BY <1>0, <1>t, <2>1 DEF Numbered
    <3> QED
      BY <1>0, <2>1, <3>1 DEF Numbered
  <2>m. PICK m \in Call : m = id
    BY <2>1
  <2>3. /\ Effective(m)' = TRUE
        /\ \A d \in Call \ {m} : Effective(d)' = Effective(d)
    BY <1>0, <2>1, <2>2, <2>m, StartFrame
  <2>4. \A d \in table \ {id} : ~Effective(d)
    BY <1>0, <2>1 DEF Registered
  <2>5. \A d \in table \ {id} : line[d].priority # line[id].priority
    <3>1. \A d \in table \ {id} : line[d].priority <= max_priority
      BY <1>t, <2>1, MaxPriority
    <3> QED
      BY <1>t, <2>1, <3>1
  <2>6. Registered' = table
    BY <2>1 DEF Registered
  <2> QED
    BY <1>c, <1>t, <2>1, <2>m, <2>3, <2>4, <2>5, <2>6 DEF Told
<1>5. CASE Resumed
  <2>1. /\ sched = "run" /\ sched' = "select" /\ todo = {} /\ todo' = {}
        /\ UNCHANGED <<table, max_priority, active, state>>
    BY <1>5 DEF Resumed, callVars
  <2>2. Registered = table /\ Registered' = table /\ \A d \in Call : Effective(d)' = Effective(d)
    BY <2>1 DEF Registered, Effective
  <2> QED
    BY <1>0, <1>c, <1>t, <2>1, <2>2 DEF Told
<1>6. CASE Unsubscribe
  <2> DEFINE c == Head(unsubscribe)
  <2>1. /\ c \in table /\ sched = "select" /\ table' = table \ {c} /\ todo = {}
        /\ max_priority = GetMaxPriority(table) /\ UNCHANGED <<active, state>>
    BY <1>0, <1>6, Unsubscribed DEF Chosen, Registered, Unsubscribe, callVars
  <2>2. \A d \in table : /\ line[d].priority # max_priority => ~Effective(d)
                         /\ line[d].priority = max_priority => Effective(d)
                         /\ line[d].priority <= max_priority
    <3>1. \A d \in table : line[d].priority <= max_priority
      BY <1>t, <2>1, MaxPriority
    <3> QED
      BY <1>0, <2>1, <3>1 DEF Registered
  <2>3. \A d \in Call : Effective(d)' = Effective(d)
    BY <2>1 DEF Effective
  <2>4. CASE Group(line[c].priority, table') # {}
    <3>1. sched' = "select" /\ todo' = {} /\ max_priority' = max_priority
      BY <1>6, <2>1, <2>4 DEF Unsubscribe
    <3>2. Registered' = table \ {c}
      BY <2>1, <3>1 DEF Registered
    <3> QED
      BY <1>c, <1>t, <2>1, <2>2, <2>3, <3>1, <3>2 DEF Told
  <2>5. CASE Group(line[c].priority, table') = {}
    <3>1. /\ sched' = "run" /\ max_priority' = GetMaxPriority(table')
          /\ todo' = Group(max_priority', table')
      BY <1>6, <2>1, <2>5 DEF Unsubscribe
    <3>2. Registered' = table'
      BY <3>1 DEF Registered
    <3>3. ASSUME NEW d \in table' PROVE line[d].priority # max_priority' => ~Effective(d)
      <4>1. CASE line[d].priority = max_priority
        <5>1. line[d].priority <= max_priority'
          BY <1>t, <2>1, <3>1, <3>3, MaxPriority
        <5>2. PICK e \in table' : line[e].priority = max_priority'
          BY <1>t, <2>1, <3>1, <3>3, MaxPriority
        <5>3. line[e].priority <= max_priority
          BY <2>1, <2>2, <5>2
        <5> QED
          BY <1>t, <2>1, <4>1, <5>1, <5>2, <5>3
      <4>2. CASE line[d].priority # max_priority
        BY <2>1, <2>2, <4>2
      <4> QED
        BY <4>1, <4>2
    <3>4. \A d \in table' : line[d].priority = max_priority' => d \in todo'
      BY <3>1 DEF Group
    <3> QED
      BY <1>c, <1>t, <2>1, <2>3, <3>1, <3>2, <3>3, <3>4 DEF Told
  <2> QED
    BY <2>4, <2>5
<1>7. ASSUME NEW c \in Call, SetChannel(c) PROVE Told'
  <2>1. c \in todo /\ todo' = todo \ {c}
    BY <1>7 DEF SetChannel
  <2>2. /\ line[c].priority = max_priority /\ sched \in {"pause", "run"}
    <3>1. sched \in {"select", "pause", "run"}
      BY <1>0 DEF TypeOK
    <3> QED
      BY <1>0, <2>1, <3>1 DEF Chosen, Group
  <2>3. /\ Effective(c)' = (sched = "run") /\ UNCHANGED <<sched, table, id, max_priority>>
        /\ \A d \in Call \ {c} : Effective(d)' = Effective(d)
    BY <1>0, <1>7, CommandFrame
  <2>4. Registered' = Registered /\ Registered \subseteq Call
    BY <1>t, <2>3 DEF Registered
  <2> QED
    BY <1>0, <1>c, <2>1, <2>2, <2>3, <2>4 DEF Told
<1>8. ASSUME NEW c \in Call, Thread(c) PROVE Told'
  BY <1>0, <1>1, <1>8, ThreadFrame DEF schedVars
<1> QED
  BY <1>2, <1>3, <1>4, <1>5, <1>6, <1>7, <1>8, Steps

\* set_channels sends FALSE to the members of the highest group only, who
\* have been told to run.
LEMMA AlternatingStep ==
  ASSUME Inv, [Next]_vars
  PROVE  Alternating'
<1>0. /\ TypeOK /\ Alternating /\ Numbered /\ Tabled /\ Unscheduled
      /\ pc \in [Call -> {"none", "open", "loop", "send", "unsubscribe", "report", "done"}]
      /\ active \in [Call -> BOOLEAN] /\ state \in [Call -> Seq(BOOLEAN)] /\ id \in Int
  BY Types DEF Inv
<1>1. ASSUME UNCHANGED <<pc, active, state>> PROVE Alternating'
  BY <1>0, <1>1 DEF Alternating
<1>2. CASE UNCHANGED core \/ ReadLine \/ Resumed \/ Unsubscribe
  BY <1>1, <1>2 DEF core, ReadLine, Resumed, Unsubscribe, callVars
<1>3. ASSUME NEW a \in BOOLEAN, Start(id, a), id \in Call, state[id] = <<>>, UNCHANGED state
      PROVE  Alternating'
  <2>1. /\ pc'[id] = "open"
        /\ \A d \in Call \ {id} : pc'[d] = pc[d] /\ active'[d] = active[d]
    BY <1>0, <1>3, StartFrame
  <2> QED
    BY <1>0, <1>3, <2>1 DEF Alternating
<1>4. CASE Subscribe
  <2>1. id \in Call /\ state[id] = <<>> /\ Head(subscribe) = id
    BY <1>0, <1>4, Subscribed
  <2>2. \/ \E a \in BOOLEAN : Start(id, a)
        \/ UNCHANGED <<pc, active>>
    BY <1>4, <2>1 DEF Subscribe
  <2>3. UNCHANGED state
    BY <1>4 DEF Subscribe
  <2> QED
    BY <1>1, <1>3, <2>1, <2>2, <2>3
<1>5. CASE Paused
  <2>1. Start(id, TRUE) /\ UNCHANGED state /\ id \in table
    BY <1>0, <1>5 DEF Paused, Tabled, Unscheduled
  <2>2. id \in Call
    BY <1>0, <2>1, Types
  <2>3. state[id] = <<>>
    BY <1>0, <2>2 DEF Numbered
  <2> QED
    BY <1>3, <2>1, <2>2, <2>3
<1>6. ASSUME NEW c \in Call, Thread(c) PROVE Alternating'
  <2> SUFFICES /\ pc'[c] = "send" => active'[c]
               /\ state'[c] # <<>> /\ ~active'[c] => state'[c][1]
               /\ NoTwoPauses(state'[c])
    <3>1. \A d \in Call \ {c} : pc'[d] = pc[d] /\ active'[d] = active[d] /\ state'[d] = state[d]
      BY <1>0, <1>6, ThreadFrame
    <3> QED
      BY <1>0, <3>1 DEF Alternating
  <2>1. CASE TakeCommand(c) \/ Await(c)
    <3>1. /\ state[c] # <<>> /\ active'[c] = Head(state[c]) /\ state'[c] = Tail(state[c])
          /\ pc'[c] = "send" => Head(state[c]) \/ ~active[c]
      BY <1>0, <2>1 DEF TakeCommand, Await, Goto
    <3>2. NoTwoPauses(state[c]) /\ (~active[c] => state[c][1])
      BY <1>0, <3>1 DEF Alternating
    <3>3. Head(state[c]) = state[c][1]
      BY <1>0, <3>1, TakenCommand
    <3>4. /\ NoTwoPauses(Tail(state[c]))
          /\ Tail(state[c]) # <<>> /\ ~Head(state[c]) => Tail(state[c])[1]
      BY <1>0, <3>1, <3>2, TakenAlternating
    <3>5. pc'[c] = "send" => active'[c]
      BY <3>1, <3>2, <3>3, Zenon
    <3> QED
      BY <3>1, <3>4, <3>5
  <2>2. CASE ~(TakeCommand(c) \/ Await(c))
    <3>1. UNCHANGED <<active, state>> /\ (pc'[c] = "send" => active[c])
      BY <1>0, <1>6, <2>2 DEF Thread, Open, GoOn, Send, Close, SendUnsubscribe, Report, Goto
    <3> QED
      BY <1>0, <3>1 DEF Alternating
  <2> QED
    BY <2>1, <2>2
<1>7. ASSUME NEW c \in Call, SetChannel(c) PROVE Alternating'
  <2>1. PICK b \in BOOLEAN : b = (sched = "run")
    OBVIOUS
  <2>2. b \/ Effective(c)
    <3>1. ASSUME ~b PROVE Effective(c)
      <4>1. c \in todo /\ sched = "pause" /\ use_scheduler
        <5>1. c \in todo /\ sched # "run" /\ sched \in {"select", "pause", "run"}
          BY <1>0, <1>7, <2>1, <3>1 DEF SetChannel, TypeOK
        <5>2. sched # "select"
          BY <5>1 DEF Inv, Chosen
        <5> QED
          BY <1>0, <5>1, <5>2 DEF Unscheduled
      <4>2. c \in Registered
        BY <4>1 DEF Inv, Chosen, Group
      <4> QED
        BY <4>1, <4>2 DEF Inv, Told
    <3> QED
      BY <3>1
  <2>3. /\ state'[c] = Append(state[c], b) /\ UNCHANGED <<pc, active>>
        /\ state[c] # <<>> => state'[c][1] = state[c][1]
        /\ state[c] = <<>> => state'[c][1] = b
        /\ \A d \in Call \ {c} : state'[d] = state[d]
    BY <1>0, <1>7, <2>1, CommandFrame
  <2>4. NoTwoPauses(state[c]) /\ (state[c] # <<>> /\ ~active[c] => state[c][1])
    BY <1>0 DEF Alternating
  <2>5. /\ state[c] = <<>> => b \/ active[c]
        /\ b \/ state[c] = <<>> \/ state[c][Len(state[c])]
    BY <2>2, Zenon DEF Effective
  <2>6. NoTwoPauses(state'[c])
    BY <1>0, <2>3, <2>4, <2>5, AppendedAlternating
  <2>7. ~active[c] => state'[c][1]
    BY <2>3, <2>4, <2>5, Zenon
  <2> QED
    BY <1>0, <2>3, <2>6, <2>7 DEF Alternating
<1> QED
  BY <1>2, <1>4, <1>5, <1>6, <1>7, Steps

\* A number is paid for by a command that is taken off the channel, or by the
\* Send that was under way.
LEMMA DrainingStep ==
  ASSUME Inv, [Next]_vars
  PROVE  Draining'
<1>0. /\ TypeOK /\ Draining /\ Numbered /\ Tabled /\ Unscheduled /\ Alternating
      /\ StateCap \in Nat \ {0}
      /\ pc \in [Call -> {"none", "open", "loop", "send", "unsubscribe", "report", "done"}]
      /\ active \in [Call -> BOOLEAN] /\ state \in [Call -> Seq(BOOLEAN)]
      /\ overrun \in [Call -> Nat] /\ id \in Int
  BY Types DEF Inv
<1>1. ASSUME UNCHANGED <<pc, active, state, overrun>> PROVE Draining'
  BY <1>0, <1>1 DEF Draining, Effective, Sending
<1>2. CASE UNCHANGED core \/ ReadLine \/ Resumed \/ Unsubscribe
  BY <1>1, <1>2 DEF core, ReadLine, Resumed, Unsubscribe, callVars
<1>3. ASSUME NEW a \in BOOLEAN, Start(id, a), id \in Call, state[id] = <<>>,
             UNCHANGED <<state, overrun>>
      PROVE  Draining'
  <2>1. \A d \in Call \ {id} : pc'[d] = pc[d] /\ Effective(d)' = Effective(d)
    BY <1>0, <1>3, StartFrame
  <2>2. Len(state[id]) <= StateCap /\ overrun[id] <= StateCap
    BY <1>0, <1>3 DEF Draining
  <2> QED
    BY <1>0, <1>3, <2>1, <2>2 DEF Draining, Sending
<1>4. CASE Subscribe
  <2>1. id \in Call /\ state[id] = <<>> /\ Head(subscribe) = id
    BY <1>0, <1>4, Subscribed
  <2>2. \/ \E a \in BOOLEAN : Start(id, a)
        \/ UNCHANGED <<pc, active>>
    BY <1>4, <2>1 DEF Subscribe
  <2>3. UNCHANGED <<state, overrun>>
    BY <1>4 DEF Subscribe
  <2> QED
    BY <1>1, <1>3, <2>1, <2>2, <2>3
<1>5. CASE Paused
  <2>1. Start(id, TRUE) /\ UNCHANGED <<state, overrun>> /\ id \in table
    BY <1>0, <1>5 DEF Paused, Tabled, Unscheduled
  <2>2. id \in Call
    BY <1>0, <2>1, Types
  <2>3. state[id] = <<>>
    BY <1>0, <2>2 DEF Numbered
  <2> QED
    BY <1>3, <2>1, <2>2, <2>3
<1>6. ASSUME NEW c \in Call, Thread(c) PROVE Draining'
  <2> SUFFICES /\ Len(state'[c]) <= StateCap
               /\ overrun'[c] <= StateCap
               /\ ~Effective(c) /\ state'[c] # <<>> =>
                    overrun'[c] + Len(state'[c]) - 1 + Sending(c)' <= StateCap
    <3>1. /\ Effective(c)' = Effective(c)
          /\ \A d \in Call \ {c} : /\ state'[d] = state[d] /\ overrun'[d] = overrun[d]
                                   /\ pc'[d] = pc[d] /\ Effective(d)' = Effective(d)
      BY <1>0, <1>6, ThreadFrame
    <3> QED
      BY <1>0, <3>1 DEF Draining, Sending
  <2>1. /\ Len(state[c]) <= StateCap /\ Len(state[c]) \in Nat
        /\ overrun[c] <= StateCap /\ overrun[c] \in Nat
        /\ ~Effective(c) /\ state[c] # <<>> =>
             overrun[c] + Len(state[c]) - 1 + Sending(c) <= StateCap
    BY <1>0 DEF Draining
  <2>2. CASE TakeCommand(c) \/ Await(c)
    <3>1. /\ state[c] # <<>> /\ state'[c] = Tail(state[c])
          /\ overrun'[c] = overrun[c] /\ pc[c] = "loop"
      BY <1>0, <2>2 DEF TakeCommand, Await, Looping
    <3>2. Len(state'[c]) = Len(state[c]) - 1
      BY <1>0, <3>1, TakenCommand
    <3>3. Sending(c) = 0 /\ Sending(c)' \in {0, 1}
      BY <3>1 DEF Sending
    <3> QED
      BY <1>0, <2>1, <3>1, <3>2, <3>3
  <2>3. CASE Send(c)
    <3>1. /\ pc[c] = "send" /\ pc'[c] = "loop" /\ state'[c] = state[c]
          /\ overrun'[c] = IF Effective(c) THEN 0 ELSE overrun[c] + 1
      BY <1>0, <2>3 DEF Send, Goto
    <3>2. ~Effective(c) => state[c] # <<>>
      BY <1>0, <3>1 DEF Alternating, Effective
    <3>3. Sending(c) = 1 /\ Sending(c)' = 0
      BY <3>1 DEF Sending
    <3>4. state[c] # <<>> => Len(state[c]) >= 1
      BY <1>0, EmptySeq
    <3> QED
      BY <1>0, <2>1, <3>1, <3>2, <3>3, <3>4
  <2>4. CASE GoOn(c)
    <3>1. /\ state[c] = <<>> /\ state'[c] = state[c] /\ overrun'[c] = overrun[c]
      BY <1>0, <2>4 DEF GoOn
    <3> QED
      BY <2>1, <3>1
  <2>5. CASE Open(c) \/ Close(c) \/ SendUnsubscribe(c) \/ Report(c)
    <3>1. /\ state'[c] = state[c] /\ overrun'[c] = overrun[c]
          /\ pc[c] # "send" /\ pc'[c] # "send"
      BY <1>0, <2>5 DEF Open, Close, SendUnsubscribe, Report, Goto
    <3> QED
      BY <2>1, <3>1 DEF Sending
  <2> QED
    BY <1>6, <2>2, <2>3, <2>4, <2>5 DEF Thread
<1>7. ASSUME NEW c \in Call, SetChannel(c) PROVE Draining'
  <2>1. /\ Len(state'[c]) = Len(state[c]) + 1 /\ Len(state[c]) \in Nat
        /\ Len(state[c]) < StateCap /\ overrun'[c] = 0 /\ UNCHANGED pc
        /\ \A d \in Call \ {c} : /\ state'[d] = state[d] /\ overrun'[d] = overrun[d]
                                 /\ Effective(d)' = Effective(d)
    BY <1>0, <1>7, CommandFrame
  <2>2. Sending(c)' \in {0, 1} /\ \A d \in Call : Sending(d)' = Sending(d)
    BY <2>1 DEF Sending
  <2>3. /\ Len(state'[c]) <= StateCap /\ overrun'[c] <= StateCap
        /\ overrun'[c] + Len(state'[c]) - 1 + Sending(c)' <= StateCap
    BY <1>0, <2>1, <2>2
  <2> QED
    BY <1>0, <2>1, <2>2, <2>3 DEF Draining
<1> QED
  BY <1>2, <1>4, <1>5, <1>6, <1>7, Steps

\* Ids stay within the input file: there is a goroutine for every line at most.
LEMMA TypeStep ==
  ASSUME Inv, [Next]_vars
  PROVE  TypeOK'
<1>0. /\ TypeOK /\ Numbered /\ Tabled /\ Unscheduled /\ Chosen
      /\ main \in {"scan", "wait"} /\ exit \in {"running", "returned", "failed", "panic"}
      /\ writing \in SUBSET Call /\ written \in SUBSET Call
      /\ scanned \in 0 .. NumCalls /\ id \in 1 .. NumCalls + 1
      /\ sched \in {"select", "pause", "run"} /\ NumCalls \in Nat
  BY GoConcurrentAssumption DEF Inv, TypeOK
<1>t. /\ use_scheduler \in BOOLEAN /\ line \in [Call -> Line]
      /\ pc \in [Call -> {"none", "open", "loop", "send", "unsubscribe", "report", "done"}]
      /\ active \in [Call -> BOOLEAN] /\ state \in [Call -> Seq(BOOLEAN)]
      /\ sent \in [Call -> Nat] /\ overrun \in [Call -> Nat]
      /\ subscribe \in Seq(Call) /\ unsubscribe \in Seq(Call)
      /\ todo \subseteq Call /\ table \subseteq Call /\ max_priority \in Nat
      /\ \A c \in Call : line[c].priority \in Nat
  BY <1>0, Types
<1>1. /\ main' \in {"scan", "wait"} /\ exit' \in {"running", "returned", "failed", "panic"}
      /\ writing' \in SUBSET Call /\ written' \in SUBSET Call
  <2> USE DEF mainVars, callVars
  <2>1. CASE Main \/ MainFails
    BY <1>0, <2>1 DEF Main, ReadLine, ParsePanic, EndOfFile, Return, MainFails
  <2>2. CASE Scheduler
    BY <1>0, <2>2 DEF Scheduler, Subscribe, Paused, Resumed, Unsubscribe, SetChannel
  <2>3. ASSUME NEW c \in Call, Thread(c)
        PROVE  UNCHANGED <<main, exit, written>> /\ writing' \in SUBSET Call
    BY <1>0, <2>3 DEF Thread, Open, GoOn, TakeCommand, Await, Send, Close, SendUnsubscribe,
                Report
  <2>4. ASSUME NEW c \in Call, WriteToFile(c) \/ Failure(c)
        PROVE  /\ main' = main /\ exit' \in {"running", "failed"}
               /\ writing' \in SUBSET Call /\ written' \in SUBSET Call
    BY <1>0, <2>4 DEF WriteToFile, Failure
  <2>5. CASE Exited \/ UNCHANGED vars
    BY <1>0, <2>5 DEF Exited, vars
  <2> QED
    BY <1>0, <2>1, <2>2, <2>3, <2>4, <2>5 DEF Next
<1>2. UNCHANGED <<use_scheduler, line>> /\ wg' \in Nat
  BY ConfigIsFixed, CountedStep
<1> DEFINE Fine ==
  /\ scanned' \in 0 .. NumCalls /\ id' \in 1 .. NumCalls + 1
  /\ subscribe' \in Seq(Call) /\ unsubscribe' \in Seq(Call)
  /\ state' \in [Call -> Seq(BOOLEAN)] /\ sched' \in {"select", "pause", "run"}
  /\ todo' \subseteq Call /\ table' \subseteq Call /\ max_priority' \in Nat
  /\ pc' \in [Call -> {"none", "open", "loop", "send", "unsubscribe", "report", "done"}]
  /\ active' \in [Call -> BOOLEAN] /\ sent' \in [Call -> Nat] /\ overrun' \in [Call -> Nat]
<1>3. Fine
  <2>1. CASE UNCHANGED core
    BY <1>0, <1>t, <2>1 DEF core, schedVars
  <2>2. CASE ReadLine
    <3>1. /\ UNCHANGED <<id, unsubscribe, state, sched, todo, table, max_priority, pc, active,
                         sent, overrun>>
          /\ scanned' = scanned + 1 /\ scanned < NumCalls
          /\ subscribe' = Append(subscribe, scanned + 1)
      BY <2>2 DEF ReadLine, schedVars, callVars
    <3>2. scanned + 1 \in Call /\ scanned' \in 0 .. NumCalls
      BY <1>0, <3>1 DEF Call
    <3> QED
      BY <1>0, <1>t, <3>1, <3>2, AppendProperties
  <2>3. CASE Subscribe
    <3>1. /\ id \in Call /\ subscribe' \in Seq(Call) /\ state[id] = <<>> /\ Head(subscribe) = id
      BY <1>0, <2>3, Subscribed
    <3>2. UNCHANGED <<scanned, unsubscribe, state, sent, overrun>>
      BY <2>3 DEF Subscribe, mainVars
    <3>3. id + 1 \in 1 .. NumCalls + 1
      BY <1>0, <3>1 DEF Call
    <3>4. /\ sched' \in {"select", "pause", "run"} /\ table' \subseteq Call
          /\ max_priority' \in Nat
      BY <1>0, <1>t, <2>3, <3>1 DEF Subscribe
    <3>5. todo' \subseteq Call
      BY <1>0, <1>t, <2>3, <3>1 DEF Subscribe, Group
    <3>6. /\ pc' \in [Call -> {"none", "open", "loop", "send", "unsubscribe", "report", "done"}]
          /\ active' \in [Call -> BOOLEAN] /\ id' \in {id, id + 1}
      <4>1. \/ \E a \in BOOLEAN : Start(id, a)
            \/ UNCHANGED <<id, pc, active>>
        BY <2>3, <3>1 DEF Subscribe
      <4> QED
        BY <1>t, <3>1, <4>1 DEF Start
    <3> QED
      BY <1>0, <1>t, <3>1, <3>2, <3>3, <3>4, <3>5, <3>6
  <2>4. CASE Paused
    <3>1. id \in table /\ id \in Call
      BY <1>0, <1>t, <2>4 DEF Paused, Tabled, Unscheduled
    <3>2. /\ UNCHANGED <<scanned, subscribe, unsubscribe, state, todo, table, sent, overrun>>
          /\ Start(id, TRUE) /\ max_priority' = line[id].priority /\ sched' = "select"
      BY <2>4 DEF Paused, mainVars
    <3>3. id + 1 \in 1 .. NumCalls + 1
      BY <1>0, <3>1 DEF Call
    <3>4. /\ pc' \in [Call -> {"none", "open", "loop", "send", "unsubscribe", "report", "done"}]
          /\ active' \in [Call -> BOOLEAN] /\ id' = id + 1
      BY <1>t, <3>1, <3>2 DEF Start
    <3> QED
      BY <1>0, <1>t, <3>1, <3>2, <3>3, <3>4
  <2>5. CASE Resumed
    BY <1>0, <1>t, <2>5 DEF Resumed, mainVars, callVars
  <2>6. CASE Unsubscribe
    <3>1. UNCHANGED <<scanned, id, subscribe, state, pc, active, sent, overrun>>
      BY <2>6 DEF Unsubscribe, mainVars, callVars
    <3>2. /\ unsubscribe' \in Seq(Call) /\ table' \subseteq Call
          /\ GetMaxPriority(table') \in Nat
      <4>1. unsubscribe' \in Seq(Call)
        BY <1>0, <2>6, Unsubscribed
      <4>2. table' \subseteq Call
        BY <1>t, <2>6 DEF Unsubscribe
      <4> QED
        BY <1>t, <4>1, <4>2, MaxPriority
    <3>3. /\ sched' \in {"select", "run"} /\ max_priority' \in {max_priority, GetMaxPriority(table')}
          /\ todo' \in {todo, Group(max_priority', table')}
      BY <2>6 DEF Unsubscribe
    <3>4. Group(max_priority', table') \subseteq Call
      BY <3>2 DEF Group
    <3> QED
      BY <1>0, <1>t, <3>1, <3>2, <3>3, <3>4
  <2>7. ASSUME NEW c \in Call, SetChannel(c) PROVE Fine
    <3>1. /\ state' \in [Call -> Seq(BOOLEAN)] /\ overrun' \in [Call -> Nat]
          /\ UNCHANGED <<pc, active, sent, sched, table, id, max_priority, unsubscribe,
                         subscribe, scanned>>
      BY <1>0, <2>7, CommandFrame
    <3>2. todo' \subseteq Call
      BY <1>t, <2>7 DEF SetChannel
    <3> QED
      BY <1>0, <1>t, <3>1, <3>2
  <2>8. ASSUME NEW c \in Call, Thread(c) PROVE Fine
    <3>1. /\ UNCHANGED <<sched, todo, id, table, max_priority, scanned, subscribe>>
          /\ pc' \in [Call -> {"none", "open", "loop", "send", "unsubscribe", "report", "done"}]
          /\ active' \in [Call -> BOOLEAN] /\ state' \in [Call -> Seq(BOOLEAN)]
          /\ sent' \in [Call -> Nat] /\ overrun' \in [Call -> Nat]
      BY <1>0, <2>8, ThreadFrame DEF schedVars
    <3>2. unsubscribe' \in {unsubscribe, Append(unsubscribe, c)}
      BY <2>8 DEF Thread, Open, GoOn, TakeCommand, Await, Send, Close, SendUnsubscribe, Report
    <3>3. unsubscribe' \in Seq(Call)
      <4>1. Append(unsubscribe, c) \in Seq(Call)
        BY <1>t, AppendProperties
      <4> QED
        BY <1>t, <3>2, <4>1
    <3> QED
      BY <1>0, <1>t, <3>1, <3>3
  <2> QED
    BY <2>1, <2>2, <2>3, <2>4, <2>5, <2>6, <2>7, <2>8, Steps
<1> QED
  BY <1>t, <1>1, <1>2, <1>3 DEF TypeOK

-----------------------------------------------------------------------------
(* Theorems *)

\* Nothing has been read, started or told at first.
LEMMA Initially ==
  ASSUME Init
  PROVE  Inv
<1>t. /\ NumCalls \in Nat /\ StateCap \in Nat \ {0}
      /\ \A c \in Call : c \in Int /\ c >= 1
  BY GoConcurrentAssumption DEF Call
<1>1. line \in [Call -> Line]
  <2>1. InputFile \in [Call -> SUBSET Line]
    BY GoConcurrentAssumption
  <2>2. /\ line \in [Call -> UNION {InputFile[c] : c \in Call}]
        /\ \A c \in Call : line[c] \in InputFile[c]
    BY DEF Init
  <2>3. \A c \in Call : line[c] \in Line
    BY <2>1, <2>2
  <2> QED
    BY <2>2, <2>3
<1>2. use_scheduler \in BOOLEAN
  BY GoConcurrentAssumption DEF Init
<1>3. /\ subscribe = <<>> /\ Len(subscribe) = 0 /\ unsubscribe = <<>> /\ Len(unsubscribe) = 0
      /\ \A c \in Call : state[c] = <<>> /\ Len(state[c]) = 0 /\ pc[c] = "none"
                         /\ active[c] = FALSE /\ sent[c] = 0 /\ overrun[c] = 0
  BY DEF Init
<1>4. TypeOK
  <2>1. /\ id \in 1 .. NumCalls + 1 /\ scanned \in 0 .. NumCalls /\ wg \in Nat
        /\ max_priority \in Nat
    BY <1>t DEF Init
  <2> QED
    BY <1>1, <1>2, <2>1 DEF Init, TypeOK
<1>5. Numbered
  BY <1>t, <1>3 DEF Init, Numbered, NextId
<1>6. Counted
  <2>1. Done = {}
    BY <1>3 DEF Done
  <2> QED
    BY <1>t, <2>1, FS_EmptySet DEF Init, Counted
<1>7. Unscheduled /\ Tabled /\ Chosen /\ Told
  BY <1>3 DEF Init, Unscheduled, Tabled, Chosen, Told, Registered, Group, GetMaxPriority
<1>8. Alternating
  BY <1>3 DEF Alternating, NoTwoPauses
<1>9. Draining
  BY <1>t, <1>3 DEF Draining
<1> QED
  BY <1>4, <1>5, <1>6, <1>7, <1>8, <1>9 DEF Inv

\* The inductive invariant holds in every reachable state.
THEOREM Invariance == Spec => []Inv
<1>1. Init => Inv
  BY Initially
<1>2. Inv /\ [Next]_vars => Inv'
  BY TypeStep, NumberedStep, CountedStep, UnscheduledStep, TabledStep, ChosenStep, ToldStep,
     AlternatingStep, DrainingStep DEF Inv
<1> QED
  BY <1>1, <1>2, PTL DEF Spec

\* Every variable keeps its type: ids stay within the input file, and the
\* WaitGroup counter, which panics below zero, is never negative.
THEOREM TypeCorrect == Spec => []TypeOK
<1>1. Inv => TypeOK
  BY DEF Inv
<1> QED
  BY <1>1, Invariance, PTL

\* Whatever the input and however the goroutines are scheduled, exactly the
\* calls of the highest priority have been told to run whenever the scheduler
\* is back in its select.
THEOREM BestGroupIsTold == Spec => []TheBestGroupIsTold
<1>1. Inv => TheBestGroupIsTold
  <2> SUFFICES ASSUME Inv, use_scheduler, sched = "select"
               PROVE  /\ max_priority = GetMaxPriority(table)
                      /\ \A c \in table : Effective(c) <=> line[c].priority = max_priority
    BY DEF TheBestGroupIsTold
  <2>1. Registered = table /\ todo = {} /\ max_priority = GetMaxPriority(Registered)
    BY DEF Inv, Chosen, Registered
  <2>2. \A c \in table : /\ line[c].priority # max_priority => ~Effective(c)
                         /\ line[c].priority = max_priority => Effective(c)
    BY <2>1 DEF Inv, Told
  <2> QED
    BY <2>1, <2>2
<1> QED
  BY <1>1, Invariance, PTL

\* No goroutine sends while its own flag says paused, although the code sends
\* after any command a paused goroutine receives.
THEOREM PausedIsSilent == Spec => []NoSendWhilePaused
<1>1. Inv => NoSendWhilePaused
  BY DEF Inv, Alternating, NoSendWhilePaused
<1> QED
  BY <1>1, Invariance, PTL

\* A pause takes effect after at most StateCap more numbers.
THEOREM OverrunIsBounded == Spec => []BoundedOverrun
<1>1. Inv => BoundedOverrun
  BY DEF Inv, Draining, BoundedOverrun
<1> QED
  BY <1>1, Invariance, PTL

-----------------------------------------------------------------------------
(* Refinement *)

\* A newcomer that does not outrank the others registers when its id is read,
\* one that does when the group it outranks has been paused; a call leaves
\* when its id comes back.  No other step touches the abstract state.
LEMMA StepRefines ==
  ASSUME Inv, [Next]_vars
  PROVE  [Abstract!Next]_(Abstract!vars)
<1>0. TypeOK /\ Numbered /\ Tabled /\ Unscheduled /\ Chosen
  BY DEF Inv
<1>t. /\ table \subseteq Call /\ line \in [Call -> Line] /\ max_priority \in Nat /\ id \in Int
      /\ use_scheduler \in BOOLEAN
      /\ \A c \in Call : line[c].priority \in Nat /\ line[c].priority > 0
  BY <1>0, Types
<1>c. /\ UNCHANGED <<use_scheduler, line>>
      /\ [c \in Call |-> line[c].priority]' = [c \in Call |-> line[c].priority]
  BY ConfigIsFixed
<1> DEFINE priority == [c \in Call |-> line[c].priority]
<1>p. priority' = priority /\ \A c \in Call : priority[c] = line[c].priority
  BY <1>c
<1>1. ASSUME Registered' = Registered, max_priority' = max_priority
      PROVE  UNCHANGED Abstract!vars
  BY <1>1, <1>c DEF Abstract!vars, Registered
<1>2. CASE UNCHANGED core \/ ReadLine \/ Resumed
  BY <1>1, <1>2 DEF core, schedVars, ReadLine, Resumed, Registered
<1>3. CASE Subscribe
  <2>1. id \in Call /\ sched = "select" /\ Head(subscribe) = id /\ pc[id] = "none"
    BY <1>0, <1>3, Subscribed
  <2>2. CASE ~use_scheduler
    <3>1. UNCHANGED <<sched, table, max_priority>>
      BY <1>3, <2>2 DEF Subscribe
    <3> QED
      BY <1>1, <2>1, <3>1 DEF Registered
  <2>3. CASE use_scheduler
    <3>1. /\ Registered = table /\ id \notin table /\ table' = table \cup {id}
      BY <1>0, <1>3, <2>1, <2>3 DEF Registered, Tabled, Subscribe
    <3>2. CASE 0 < max_priority /\ max_priority < line[id].priority
      <4>1. sched' = "pause" /\ UNCHANGED <<id, max_priority>>
        BY <1>0, <1>3, <2>3, <3>2, Ranked
      <4> QED
        BY <1>1, <3>1, <4>1 DEF Registered
    <3>3. CASE \/ max_priority \in {0, line[id].priority}
               \/ line[id].priority < max_priority
      <4>1. /\ sched' = "select"
            /\ max_priority' = IF max_priority = 0 \/ line[id].priority > max_priority
                               THEN line[id].priority ELSE max_priority
        <5>1. CASE max_priority \in {0, line[id].priority}
          <6>1. /\ UNCHANGED sched /\ max_priority' = line[id].priority
            BY <1>0, <1>3, <2>3, <5>1, Ranked
          <6>2. max_priority \in Nat /\ line[id].priority \in Nat
            BY <1>t, <2>1
          <6> QED
            BY <2>1, <5>1, <6>1, <6>2
        <5>2. CASE line[id].priority < max_priority
          <6>1. UNCHANGED <<sched, max_priority>>
            BY <1>0, <1>3, <2>3, <5>2, Ranked
          <6>2. max_priority \in Nat /\ line[id].priority \in Nat /\ line[id].priority > 0
            BY <1>t, <2>1
          <6> QED
            BY <2>1, <5>2, <6>1, <6>2
        <5> QED
          BY <3>3, <5>1, <5>2
      <4>2. Abstract!Register(id)
        BY <1>p, <2>1, <3>1, <4>1 DEF Abstract!Register, Registered
      <4> QED
        BY <2>1, <4>2 DEF Abstract!Next
    <3> QED
      BY <1>0, <1>3, <2>3, <3>2, <3>3, Ranked
  <2> QED
    BY <1>t, <2>2, <2>3
<1>4. CASE Paused
  <2>1. /\ sched = "pause" /\ sched' = "select" /\ table' = table /\ id \in table /\ id \in Call
        /\ max_priority' = line[id].priority /\ max_priority < line[id].priority
    BY <1>0, <1>t, <1>4 DEF Paused, Chosen, Tabled, Unscheduled
  <2>2. Registered = table \ {id} /\ Registered' = table
    BY <2>1 DEF Registered
  <2>3. Abstract!Register(id)
    BY <1>p, <1>t, <2>1, <2>2 DEF Abstract!Register, Registered
  <2> QED
    BY <2>1, <2>3 DEF Abstract!Next
<1>5. CASE Unsubscribe
  <2>1. PICK c \in Call : c = Head(unsubscribe) /\ c \in table
    BY <1>0, <1>t, <1>5, Unsubscribed
  <2>2. /\ table' = table \ {c} /\ sched = "select" /\ sched' # "pause"
        /\ max_priority = GetMaxPriority(table)
    BY <1>0, <1>5, <2>1, Unsubscribed DEF Unsubscribe, Chosen, Registered
  <2>3. Registered = table /\ Registered' = table'
    BY <2>2 DEF Registered
  <2>4. /\ table' # {} => Abstract!Highest(GetMaxPriority(table'), table')
        /\ table' = {} => GetMaxPriority(table') = 0
    <3>1. /\ table' = {} => GetMaxPriority(table') = 0
          /\ table' # {} => /\ \E d \in table' : line[d].priority = GetMaxPriority(table')
                            /\ \A d \in table' : line[d].priority <= GetMaxPriority(table')
      BY <1>t, <2>2, MaxPriority
    <3> QED
      BY <1>t, <1>p, <2>2, <3>1 DEF Abstract!Highest
  <2>5. CASE Group(line[c].priority, table') # {}
    <3>1. max_priority' = max_priority
      BY <1>5, <2>1, <2>5 DEF Unsubscribe
    <3>2. PICK d \in table' : line[d].priority = line[c].priority
      BY <2>5 DEF Group
    <3>3. \E e \in table' : line[e].priority = max_priority
      <4>1. PICK e \in table : line[e].priority = max_priority
        BY <1>t, <2>1, <2>2, MaxPriority
      <4> QED
        BY <2>2, <3>2, <4>1
    <3>4. Abstract!Leave(c)
      BY <1>p, <1>t, <2>1, <2>2, <2>3, <3>1, <3>3 DEF Abstract!Leave, Registered
    <3> QED
      BY <3>4 DEF Abstract!Next
  <2>6. CASE Group(line[c].priority, table') = {}
    <3>1. max_priority' = GetMaxPriority(table')
      BY <1>5, <2>1, <2>6 DEF Unsubscribe
    <3>2. Abstract!Leave(c)
      BY <1>p, <1>t, <2>1, <2>2, <2>3, <2>4, <3>1
         DEF Abstract!Leave, Abstract!Highest, Registered
    <3> QED
      BY <3>2 DEF Abstract!Next
  <2> QED
    BY <2>5, <2>6
<1>6. ASSUME NEW c \in Call, SetChannel(c) PROVE UNCHANGED Abstract!vars
  BY <1>0, <1>1, <1>6, CommandFrame DEF Registered
<1>7. ASSUME NEW c \in Call, Thread(c) PROVE UNCHANGED Abstract!vars
  BY <1>0, <1>1, <1>7, ThreadFrame DEF schedVars, Registered
<1> QED
  BY <1>2, <1>3, <1>4, <1>5, <1>6, <1>7, Steps

\* The client's scheduler keeps the promise of PriorityLevel.
THEOREM Refinement == Spec => Implements
<1>1. Init => Abstract!Init
  <2> SUFFICES ASSUME Init PROVE Abstract!Init
    OBVIOUS
  <2>1. \A c \in Call : line[c].priority \in Int \ {0}
    BY Initially, Types DEF Inv
  <2> QED
    BY <2>1 DEF Init, Abstract!Init
<1>2. Inv /\ [Next]_vars => [Abstract!Next]_(Abstract!vars)
  BY StepRefines
<1> QED
  BY <1>1, <1>2, Invariance, PTL DEF Spec, Implements, Abstract!Spec

=============================================================================
