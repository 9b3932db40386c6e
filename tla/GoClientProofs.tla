--------------------------- MODULE GoClientProofs ---------------------------
(***************************************************************************)
(* Proofs about GoClient, for every input file and every capacity.         *)
(***************************************************************************)
EXTENDS GoClient, SchedulerLemmas

-----------------------------------------------------------------------------
(* Types *)

\* Every reachable state of the client has the types of TypeOK: ids that
\* travel through the channels are calls, the WaitGroup counter is never
\* negative (wg.Done panics first).
THEOREM TypeCorrect == Spec => []TypeOK
<1> USE GoClientAssumption DEF TypeOK
<1>1. Init => TypeOK
  BY DEF Init, NoLine, Line, none
<1>2. TypeOK /\ [Next]_vars => TypeOK'
  <2> SUFFICES ASSUME TypeOK, [Next]_vars PROVE TypeOK'
    OBVIOUS
  <2>1. CASE Main
    <3>1. CASE ReadLine
      <4>1. PICK l \in InputFile[scanned + 1] : subscribe' = Append(subscribe, l)
        BY <3>1 DEF ReadLine
      <4>2. l \in Line
        BY <4>1, <3>1 DEF ReadLine, Call
      <4>3. subscribe' \in Seq(Line)
        <5>1. subscribe \in Seq(Line)
          OBVIOUS
        <5> HIDE DEF TypeOK
        <5> QED
          BY <4>1, <4>2, <5>1
      <4>4. scanned' \in 0 .. NumCalls
        BY <3>1 DEF ReadLine
      <4>5. UNCHANGED <<use_scheduler, main, wg, exit, unsubscribe, state, schedVars,
                        callVars, overrun>>
        BY <3>1 DEF ReadLine
      <4> QED
        BY <4>3, <4>4, <4>5 DEF schedVars, callVars
    <3>2. CASE EndOfFile
      BY <3>2 DEF EndOfFile, schedVars, callVars
    <3>3. CASE Return
      BY <3>3 DEF Return, mainVars, schedVars, callVars
    <3> QED
      BY <2>1, <3>1, <3>2, <3>3 DEF Main
  <2>2. CASE Scheduler
    <3>1. ASSUME NEW c \in Call, Subscribe(c) PROVE TypeOK'
      <4>1. Head(subscribe) \in Line /\ subscribe' \in Seq(Line)
        BY <3>1, HeadTailProperties DEF Subscribe
      <4>2. id' \in 1 .. NumCalls + 1
        BY <3>1 DEF Subscribe, Call
      <4>3. /\ threads' \in SUBSET Call
            /\ line' \in [Call -> Line]
            /\ pc' \in [Call -> {"none", "open", "loop", "send", "unsubscribe", "wgdone", "done"}]
        BY <3>1, <4>1 DEF Subscribe
      <4>4. /\ active' \in [Call -> BOOLEAN]
            /\ sched' \in {"select", "preempt", "wake"}
            /\ max_id' \in Call \cup {none}
            /\ running_id' \in Call \cup {none}
        BY <3>1 DEF Subscribe
      <4> QED
        BY <3>1, <4>1, <4>2, <4>3, <4>4 DEF Subscribe, mainVars
    <3>2. CASE ParsePanic
      BY <3>2 DEF ParsePanic, mainVars, schedVars, callVars
    <3>3. CASE SendPause
      <4>1. state' \in [Call -> Seq(BOOLEAN)]
        <5>1. /\ state \in [Call -> Seq(BOOLEAN)]
              /\ state' = [state EXCEPT ![running_id] = Append(state[running_id], FALSE)]
          BY <3>3 DEF SendPause
        <5>2. \A c \in Call, b \in BOOLEAN : Append(state[c], b) \in Seq(BOOLEAN)
          BY <5>1
        <5> HIDE DEF TypeOK
        <5> QED
          BY <5>1, <5>2
      <4>2. overrun' \in [Call -> Nat]
        BY <3>3 DEF SendPause
      <4> QED
        BY <3>3, <4>1, <4>2 DEF SendPause, mainVars, callVars
    <3>4. CASE Unsubscribe
      <4>1. unsubscribe' \in Seq(Call)
        BY <3>4, HeadTailProperties DEF Unsubscribe
      <4> QED
        BY <3>4, <4>1 DEF Unsubscribe, mainVars, callVars
    <3>5. CASE SendRun
      <4>1. state' \in [Call -> Seq(BOOLEAN)]
        <5>1. /\ state \in [Call -> Seq(BOOLEAN)]
              /\ state' = [state EXCEPT ![max_id] = Append(state[max_id], TRUE)]
          BY <3>5 DEF SendRun
        <5>2. \A c \in Call, b \in BOOLEAN : Append(state[c], b) \in Seq(BOOLEAN)
          BY <5>1
        <5> HIDE DEF TypeOK
        <5> QED
          BY <5>1, <5>2
      <4> QED
        BY <3>5, <4>1 DEF SendRun, mainVars, callVars
    <3> QED
      BY <2>2, <3>1, <3>2, <3>3, <3>4, <3>5 DEF Scheduler
  <2>3. ASSUME NEW c \in Call, Thread(c) PROVE TypeOK'
    <3> USE DEF At, Goto, schedVars
    <3>1. CASE Open(c)
      BY <2>3, <3>1 DEF Thread, Open
    <3>2. CASE GoOn(c)
      BY <2>3, <3>2 DEF Thread, GoOn
    <3>3. CASE TakeCommand(c)
      <4>1. Head(state[c]) \in BOOLEAN /\ Tail(state[c]) \in Seq(BOOLEAN)
        BY <3>3, HeadTailProperties DEF TakeCommand
      <4> QED
        BY <2>3, <3>3, <4>1 DEF Thread, TakeCommand
    <3>4. CASE Await(c)
      BY <2>3, <3>4 DEF Thread, Await
    <3>5. CASE Send(c)
      BY <2>3, <3>5 DEF Thread, Send
    <3>6. CASE Close(c)
      BY <2>3, <3>6 DEF Thread, Close
    <3>7. CASE SendUnsubscribe(c)
      BY <2>3, <3>7 DEF Thread, SendUnsubscribe
    <3>8. CASE WgDone(c)
      BY <2>3, <3>8 DEF Thread, WgDone
    <3> QED
      BY <2>3, <3>1, <3>2, <3>3, <3>4, <3>5, <3>6, <3>7, <3>8 DEF Thread
  <2>4. ASSUME NEW c \in Call, Failure(c) PROVE TypeOK'
    BY <2>4 DEF Failure, Fatal, schedVars
  <2>5. CASE MainFails
    BY <2>5 DEF MainFails, mainVars, schedVars, callVars
  <2>6. CASE Exited \/ UNCHANGED vars
    BY <2>6 DEF Exited, vars
  <2> QED
    BY <2>1, <2>2, <2>3, <2>4, <2>5, <2>6 DEF Next
<1> QED
  BY <1>1, <1>2, PTL DEF Spec

-----------------------------------------------------------------------------
(* The inductive invariant.  The properties speak of what a goroutine does; *)
(* what keeps them true is what is still in the channels.                   *)

\* Goroutines are started in the order of the ids, each with an unused
\* channel and at least one number to send.
Numbered ==
  \A c \in Call :
    /\ pc[c] = "none" <=> c >= id
    /\ pc[c] = "none" => ~active[c] /\ state[c] = <<>> /\ sent[c] = 0
    /\ pc[c] # "none" => line[c].count > 0

\* Without --scheduler the scheduler only starts goroutines.
Unscheduled ==
  ~use_scheduler =>
    /\ sched = "select" /\ unsubscribe = <<>>
    /\ \A c \in Call : pc[c] # "unsubscribe"

\* A goroutine leaves the table once, after it has put its id on the channel.
Tabled ==
  use_scheduler =>
    /\ \A c \in threads : pc[c] # "none"
    /\ \A c \in Call : pc[c] \in {"open", "loop", "send", "unsubscribe"} => c \in threads
    /\ \A i \in 1 .. Len(unsubscribe) :
         /\ unsubscribe[i] \in threads
         /\ pc[unsubscribe[i]] \in {"wgdone", "done"}
         /\ \A j \in 1 .. Len(unsubscribe) : unsubscribe[i] = unsubscribe[j] => i = j

\* max_id is up to date whenever it is read, and running_id lags behind it
\* only between starting a newcomer and pausing the call it preempts.
Chosen ==
  use_scheduler =>
    /\ IsMaxPriority(max_id, threads)
    /\ sched \in {"select", "wake"} => running_id = max_id
    /\ sched = "wake" => max_id # none
    /\ sched = "preempt" => running_id \in threads /\ running_id # max_id

\* What the goroutines in the table have been told.
Told ==
  use_scheduler =>
    /\ \A c \in threads :
         Effective(c) => c = max_id \/ (sched = "preempt" /\ c = running_id)
    /\ sched # "wake" /\ max_id # none => Effective(max_id)
    /\ sched = "preempt" => Effective(running_id)

\* A paused goroutine is never paused again: its next command is TRUE, and
\* no two commands in a row are FALSE.
Alternating ==
  \A c \in Call :
    /\ pc[c] = "send" => active[c]
    /\ state[c] # <<>> /\ ~active[c] => state[c][1]
    /\ NoTwoPauses(state[c])

\* A call with an earlier one of its priority in the table has not been told
\* anything and has sent nothing.
Untouched(d) ==
  /\ pc[d] \in {"open", "loop"}
  /\ ~active[d] /\ state[d] = <<>> /\ sent[d] = 0

Serial ==
  use_scheduler =>
    \A c, d \in Call :
      /\ c < d /\ line[c].priority = line[d].priority
      /\ c \in threads /\ pc[d] # "none"
      => Untouched(d)

\* Every command in front of a FALSE can cost one more number, and so can a
\* Send that is under way.
Sending(c) == IF pc[c] = "send" THEN 1 ELSE 0
Draining ==
  \A c \in Call :
    /\ Len(state[c]) <= StateCap
    /\ overrun[c] <= StateCap
    /\ ~Effective(c) /\ state[c] # <<>> =>
         overrun[c] + Len(state[c]) - 1 + Sending(c) <= StateCap

Inv ==
  /\ TypeOK /\ Numbered /\ Unscheduled /\ Tabled /\ Chosen /\ Told
  /\ Alternating /\ Serial /\ Draining

-----------------------------------------------------------------------------
(* Steps *)

\* What the inductive invariant speaks of; the rest is main's.
core == <<unsubscribe, state, schedVars, pc, active, line, sent, overrun>>

\* A step of main, a failure and the end of the process leave all of that alone;
\* what is left are the scheduler's steps and the goroutines'.
LEMMA Steps ==
  ASSUME [Next]_vars
  PROVE  \/ UNCHANGED core
         \/ \E c \in Call : Subscribe(c) \/ Thread(c)
         \/ SendPause \/ Unsubscribe \/ SendRun
<1> USE DEF core, vars, mainVars, schedVars, callVars
<1>1. CASE Main \/ MainFails
  BY <1>1 DEF Main, ReadLine, EndOfFile, Return, MainFails
<1>2. CASE Scheduler
  BY <1>2 DEF Scheduler, ParsePanic
<1>3. ASSUME NEW c \in Call, Failure(c) PROVE UNCHANGED core
  BY <1>3 DEF Failure, Fatal
<1>4. CASE Exited \/ UNCHANGED vars
  BY <1>4 DEF Exited
<1> QED
  BY <1>1, <1>2, <1>3, <1>4 DEF Next

\* The --scheduler flag is set once, before anything else.
LEMMA FlagIsFixed ==
  ASSUME [Next]_vars
  PROVE  use_scheduler' = use_scheduler
<1>1. CASE Main \/ MainFails
  BY <1>1 DEF Main, ReadLine, EndOfFile, Return, MainFails, mainVars
<1>2. CASE Scheduler
  BY <1>2 DEF Scheduler, Subscribe, ParsePanic, SendPause, Unsubscribe, SendRun, mainVars
<1>3. CASE \E c \in Call : Thread(c) \/ Failure(c)
  BY <1>3 DEF Thread, Failure
<1>4. CASE Exited \/ UNCHANGED vars
  BY <1>4 DEF Exited, vars
<1> QED
  BY <1>1, <1>2, <1>3, <1>4 DEF Next

\* A step of goroutine c changes neither the table nor another goroutine,
\* and not what c has been told.
LEMMA ThreadFrame ==
  ASSUME TypeOK, NEW c \in Call, Thread(c)
  PROVE  /\ UNCHANGED <<schedVars, line>>
         /\ \A d \in Call : Effective(d)' = Effective(d)
         /\ \A d \in Call \ {c} :
              /\ pc'[d] = pc[d] /\ active'[d] = active[d] /\ state'[d] = state[d]
              /\ sent'[d] = sent[d] /\ overrun'[d] = overrun[d]
<1> USE DEF At, Goto
<1>0. /\ pc \in [Call -> {"none", "open", "loop", "send", "unsubscribe", "wgdone", "done"}]
      /\ active \in [Call -> BOOLEAN] /\ state \in [Call -> Seq(BOOLEAN)]
      /\ sent \in [Call -> Nat] /\ overrun \in [Call -> Nat]
  BY DEF TypeOK
<1>1. UNCHANGED schedVars
  BY DEF Thread
<1>2. UNCHANGED line
  BY DEF Thread, Open, GoOn, TakeCommand, Await, Send, Close, SendUnsubscribe, WgDone
<1>3. \A d \in Call \ {c} :
              /\ pc'[d] = pc[d] /\ active'[d] = active[d] /\ state'[d] = state[d]
              /\ sent'[d] = sent[d] /\ overrun'[d] = overrun[d]
  BY <1>0 DEF Thread, Open, GoOn, TakeCommand, Await, Send, Close, SendUnsubscribe, WgDone
<1>4. Effective(c)' = Effective(c)
  <2>1. CASE TakeCommand(c) \/ Await(c)
    <3>1. /\ state[c] # <<>> /\ active'[c] = Head(state[c]) /\ state'[c] = Tail(state[c])
      BY <2>1, <1>0 DEF TakeCommand, Await
    <3> QED
      BY <3>1, <1>0, TakenCommand DEF Effective
  <2>2. CASE ~(TakeCommand(c) \/ Await(c))
    <3>1. UNCHANGED <<active, state>>
      BY <2>2 DEF Thread, Open, GoOn, Send, Close, SendUnsubscribe, WgDone
    <3> QED
      BY <3>1 DEF Effective
  <2> QED
    BY <2>1, <2>2
<1> QED
  BY <1>1, <1>2, <1>3, <1>4 DEF Effective
\* A newcomer takes the next id; nobody else's goroutine is concerned.
LEMMA SubscribeFrame ==
  ASSUME TypeOK, NEW c \in Call, Subscribe(c)
  PROVE  /\ c = id /\ id' = id + 1 /\ threads' = threads \cup {c}
         /\ UNCHANGED <<state, sent, overrun, unsubscribe>>
         /\ pc'[c] = "open" /\ line'[c].count > 0
         /\ line'[c] \in Line /\ line'[c] = Head(subscribe)
         /\ \A d \in Call \ {c} :
              /\ pc'[d] = pc[d] /\ active'[d] = active[d] /\ line'[d] = line[d]
              /\ Effective(d)' = Effective(d)
<1>0. /\ pc \in [Call -> {"none", "open", "loop", "send", "unsubscribe", "wgdone", "done"}]
      /\ active \in [Call -> BOOLEAN] /\ line \in [Call -> Line]
      /\ subscribe \in Seq(Line)
  BY DEF TypeOK
<1>1. Head(subscribe) \in Line
  BY <1>0, HeadTailProperties DEF Subscribe
<1>2. \A d \in Call \ {c} :
        pc'[d] = pc[d] /\ active'[d] = active[d] /\ line'[d] = line[d]
  BY <1>0 DEF Subscribe
<1>3. UNCHANGED state
  BY DEF Subscribe
<1>4. line'[c] = Head(subscribe) /\ pc'[c] = "open"
  BY <1>0 DEF Subscribe
<1> QED
  BY <1>1, <1>2, <1>3, <1>4 DEF Subscribe, Effective

\* A command reaches the goroutine it is sent to, and no other.
LEMMA CommandFrame ==
  ASSUME TypeOK, NEW m \in Call, NEW b \in BOOLEAN,
         state' = [state EXCEPT ![m] = Append(@, b)], UNCHANGED active
  PROVE  /\ state'[m] = Append(state[m], b)
         /\ Effective(m)' = b
         /\ \A d \in Call \ {m} : state'[d] = state[d] /\ Effective(d)' = Effective(d)
<1>0. state \in [Call -> Seq(BOOLEAN)]
  BY DEF TypeOK
<1>1. /\ state'[m] = Append(state[m], b)
      /\ \A d \in Call \ {m} : state'[d] = state[d]
  BY <1>0
<1> QED
  BY <1>0, <1>1, AppendedCommand DEF Effective

\* The scheduler sends only to goroutines in the table: FALSE to one that was
\* last told TRUE, TRUE to the best.
LEMMA Commanded ==
  ASSUME Inv
  PROVE  /\ sched = "preempt" =>
              /\ use_scheduler /\ running_id \in threads /\ running_id \in Call
              /\ pc[running_id] # "none" /\ Effective(running_id)
         /\ sched = "wake" =>
              /\ use_scheduler /\ max_id \in threads /\ max_id \in Call
              /\ pc[max_id] # "none"
<1>1. sched # "select" => use_scheduler
  BY DEF Inv, Unscheduled
<1>2. threads \subseteq Call
  BY DEF Inv, TypeOK
<1>3. sched = "wake" => max_id \in threads
  BY <1>1 DEF Inv, Chosen, IsMaxPriority
<1> QED
  BY <1>1, <1>2, <1>3 DEF Inv, Chosen, Tabled, Told

-----------------------------------------------------------------------------
(* The parts of the invariant, each preserved by every step *)

\* Goroutines go on being started in the order of the ids.
LEMMA NumberedStep ==
  ASSUME Inv, [Next]_vars
  PROVE  Numbered'
<1> USE DEF Numbered
<1>0. TypeOK /\ Numbered
  BY DEF Inv
<1>1. CASE UNCHANGED core
  BY <1>0, <1>1 DEF core, schedVars
<1>2. ASSUME NEW c \in Call, Subscribe(c) PROVE Numbered'
  <2>1. id \in Int /\ Call \subseteq Int
    BY <1>0 DEF TypeOK, Call
  <2> QED
    BY <1>0, <1>2, <2>1, SubscribeFrame
<1>3. ASSUME NEW c \in Call, Thread(c) PROVE Numbered'
  <2>1. pc[c] # "none" /\ pc'[c] # "none"
    BY <1>0, <1>3 DEF TypeOK, Thread, Open, GoOn, TakeCommand, Await, Send, Close,
                   SendUnsubscribe, WgDone, At, Goto
  <2>2. id' = id
    BY <1>0, <1>3, ThreadFrame DEF schedVars
  <2> QED
    BY <1>0, <1>3, <2>1, <2>2, ThreadFrame
<1>4. CASE SendPause \/ SendRun
  <2>1. PICK m \in Call, b \in BOOLEAN :
          state' = [state EXCEPT ![m] = Append(@, b)] /\ pc[m] # "none"
    BY <1>4, Commanded DEF SendPause, SendRun
  <2>2. UNCHANGED <<pc, active, sent, line, id>>
    BY <1>4 DEF SendPause, SendRun, callVars
  <2> QED
    BY <1>0, <2>1, <2>2, CommandFrame
<1>5. CASE Unsubscribe
  BY <1>0, <1>5 DEF Unsubscribe, callVars
<1> QED
  BY <1>1, <1>2, <1>3, <1>4, <1>5, Steps

\* Without --scheduler nobody is ever paused, chosen or unsubscribed.
LEMMA UnscheduledStep ==
  ASSUME Inv, [Next]_vars
  PROVE  Unscheduled'
<1> SUFFICES ASSUME ~use_scheduler
             PROVE  /\ sched' = "select" /\ unsubscribe' = <<>>
                    /\ \A c \in Call : pc'[c] # "unsubscribe"
  BY FlagIsFixed DEF Unscheduled
<1>0. /\ sched = "select" /\ unsubscribe = <<>> /\ TypeOK
      /\ \A c \in Call : pc[c] # "unsubscribe"
  BY DEF Inv, Unscheduled
<1>1. CASE UNCHANGED core
  BY <1>0, <1>1 DEF core, schedVars
<1>2. ASSUME NEW c \in Call, Subscribe(c)
      PROVE  /\ sched' = "select" /\ unsubscribe' = <<>>
             /\ \A d \in Call : pc'[d] # "unsubscribe"
  <2>1. sched' = "select" /\ unsubscribe' = <<>>
    BY <1>0, <1>2 DEF Subscribe
  <2> QED
    BY <1>0, <1>2, <2>1, SubscribeFrame
<1>3. ASSUME NEW c \in Call, Thread(c)
      PROVE  /\ sched' = "select" /\ unsubscribe' = <<>>
             /\ \A d \in Call : pc'[d] # "unsubscribe"
  <2>1. pc'[c] # "unsubscribe" /\ unsubscribe' = <<>>
    BY <1>0, <1>3 DEF TypeOK, Thread, Open, GoOn, TakeCommand, Await, Send, Close,
                   SendUnsubscribe, WgDone, At, Goto
  <2> QED
    BY <1>0, <1>3, <2>1, ThreadFrame DEF schedVars
<1> QED
  BY <1>0, <1>1, <1>2, <1>3, Steps DEF SendPause, SendRun, Unsubscribe

\* A goroutine stays in the table until the scheduler takes its id off the
\* unsubscribe channel, and its id is there once.
LEMMA TabledStep ==
  ASSUME Inv, [Next]_vars
  PROVE  Tabled'
<1> SUFFICES ASSUME use_scheduler, use_scheduler' PROVE Tabled'
  BY FlagIsFixed DEF Tabled
<1>0. TypeOK /\ Tabled /\ Numbered /\ threads \subseteq Call /\ unsubscribe \in Seq(Call)
  BY DEF Inv, TypeOK
<1>1. CASE UNCHANGED core
  BY <1>0, <1>1 DEF core, schedVars, Tabled
<1>2. ASSUME NEW c \in Call, Subscribe(c) PROVE Tabled'
  <2>1. pc[c] = "none"
    BY <1>0, <1>2 DEF Numbered, Subscribe, Call
  <2> QED
    BY <1>0, <1>2, <2>1, SubscribeFrame DEF Tabled
<1>3. ASSUME NEW c \in Call, Thread(c) PROVE Tabled'
  <2>0. threads' = threads
    BY <1>0, <1>3, ThreadFrame DEF schedVars
  <2>1. CASE SendUnsubscribe(c)
    <3>1. /\ pc[c] = "unsubscribe" /\ pc'[c] = "wgdone" /\ c \in threads
          /\ unsubscribe' = Append(unsubscribe, c)
      BY <1>0, <2>1 DEF TypeOK, SendUnsubscribe, At, Goto, Tabled
    <3>2. /\ Len(unsubscribe) \in Nat /\ Len(unsubscribe') = Len(unsubscribe) + 1
          /\ \A i \in 1 .. Len(unsubscribe) : unsubscribe'[i] = unsubscribe[i]
          /\ unsubscribe'[Len(unsubscribe) + 1] = c
      BY <1>0, <3>1, AppendProperties
    <3>3. \A i \in 1 .. Len(unsubscribe) : unsubscribe[i] # c
      BY <1>0, <3>1 DEF Tabled
    <3>4. \A d \in threads : pc'[d] # "none"
      BY <1>0, <1>3, <3>1, ThreadFrame DEF Tabled
    <3>5. \A d \in Call : pc'[d] \in {"open", "loop", "send", "unsubscribe"} => d \in threads
      BY <1>0, <1>3, <3>1, ThreadFrame DEF Tabled
    <3>6. ASSUME NEW i \in 1 .. Len(unsubscribe')
          PROVE  /\ unsubscribe'[i] \in threads
                 /\ pc'[unsubscribe'[i]] \in {"wgdone", "done"}
                 /\ \A j \in 1 .. Len(unsubscribe') :
                      unsubscribe'[i] = unsubscribe'[j] => i = j
      <4>1. CASE i \in 1 .. Len(unsubscribe)
        <5>1. unsubscribe'[i] = unsubscribe[i] /\ unsubscribe[i] \in Call \ {c}
          BY <1>0, <3>2, <3>3, <4>1, ElementOfSeq
        <5>2. unsubscribe[i] \in threads /\ pc[unsubscribe[i]] \in {"wgdone", "done"}
          BY <1>0, <4>1 DEF Tabled
        <5>3. pc'[unsubscribe[i]] = pc[unsubscribe[i]]
          BY <1>0, <1>3, <5>1, ThreadFrame
        <5>4. ASSUME NEW j \in 1 .. Len(unsubscribe'), unsubscribe'[i] = unsubscribe'[j]
              PROVE  i = j
          <6>1. j \in 1 .. Len(unsubscribe) \/ j = Len(unsubscribe) + 1
            BY <3>2
          <6> QED
            BY <1>0, <3>2, <3>3, <4>1, <5>4, <6>1 DEF Tabled
        <5> QED
          BY <5>1, <5>2, <5>3, <5>4
      <4>2. CASE i = Len(unsubscribe) + 1
        BY <3>1, <3>2, <3>3, <4>2
      <4> QED
        BY <3>2, <4>1, <4>2
    <3> QED
      BY <2>0, <3>4, <3>5, <3>6 DEF Tabled
  <2>2. CASE ~SendUnsubscribe(c)
    <3>1. unsubscribe' = unsubscribe
      BY <1>3, <2>2 DEF Thread, Open, GoOn, TakeCommand, Await, Send, Close, WgDone
    <3>2. /\ pc[c] # "none" /\ pc'[c] # "none"
          /\ pc'[c] \in {"open", "loop", "send", "unsubscribe"} =>
               pc[c] \in {"open", "loop", "send", "unsubscribe"}
          /\ pc[c] \in {"wgdone", "done"} => pc'[c] \in {"wgdone", "done"}
      BY <1>0, <1>3, <2>2 DEF TypeOK, Thread, Open, GoOn, TakeCommand, Await, Send, Close,
                              WgDone, At, Goto
    <3>3. \A d \in Call : pc'[d] \in {"open", "loop", "send", "unsubscribe"} => d \in threads
      BY <1>0, <1>3, <3>2, ThreadFrame DEF Tabled
    <3>4. \A d \in threads : pc'[d] # "none"
      BY <1>0, <1>3, <3>2, ThreadFrame DEF Tabled
    <3>5. \A i \in 1 .. Len(unsubscribe) : pc'[unsubscribe[i]] \in {"wgdone", "done"}
      BY <1>0, <1>3, <3>2, ThreadFrame DEF Tabled
    <3> QED
      BY <1>0, <2>0, <3>1, <3>3, <3>4, <3>5 DEF Tabled
  <2> QED
    BY <2>1, <2>2
<1>4. CASE SendPause \/ SendRun
  BY <1>0, <1>4 DEF Tabled, SendPause, SendRun, callVars
<1>5. CASE Unsubscribe
  <2>1. /\ unsubscribe # <<>> /\ UNCHANGED pc /\ unsubscribe' = Tail(unsubscribe)
        /\ threads' = threads \ {Head(unsubscribe)}
    BY <1>5 DEF Unsubscribe, callVars
  <2>2. /\ Len(unsubscribe) \in Nat /\ Len(unsubscribe') = Len(unsubscribe) - 1
        /\ Head(unsubscribe) = unsubscribe[1] /\ Len(unsubscribe) >= 1
        /\ \A i \in 1 .. Len(unsubscribe') : unsubscribe'[i] = unsubscribe[i + 1]
    BY <1>0, <2>1, HeadTailProperties
  <2>3. pc[Head(unsubscribe)] \in {"wgdone", "done"}
    BY <1>0, <2>2 DEF Tabled
  <2>4. \A c \in Call : pc[c] \in {"open", "loop", "send", "unsubscribe"} => c \in threads'
    BY <1>0, <2>1, <2>3 DEF Tabled
  <2>5. \A i \in 1 .. Len(unsubscribe') :
          /\ unsubscribe'[i] \in threads'
          /\ pc[unsubscribe'[i]] \in {"wgdone", "done"}
          /\ \A j \in 1 .. Len(unsubscribe') : unsubscribe'[i] = unsubscribe'[j] => i = j
    BY <1>0, <2>1, <2>2 DEF Tabled
  <2> QED
    BY <1>0, <2>1, <2>4, <2>5 DEF Tabled
<1> QED
  BY <1>1, <1>2, <1>3, <1>4, <1>5, Steps

\* Comparing a newcomer with max_id alone, and choosing again at every
\* departure, keeps max_id what get_max_priority would return.
LEMMA ChosenStep ==
  ASSUME Inv, [Next]_vars
  PROVE  Chosen'
<1> SUFFICES ASSUME use_scheduler, use_scheduler' PROVE Chosen'
  BY FlagIsFixed DEF Chosen
<1>0. /\ TypeOK /\ Chosen /\ Tabled /\ Numbered /\ threads \subseteq Call
      /\ line \in [Call -> Line] /\ id \in Nat /\ id \notin threads
      /\ none \notin Call
  <2>1. TypeOK /\ Chosen /\ Tabled /\ Numbered /\ none \notin Call
    BY DEF Inv, Call, none
  <2>2. threads \subseteq Call /\ line \in [Call -> Line] /\ id \in Nat
    BY <2>1 DEF TypeOK
  <2>3. id \notin threads
    BY <2>1, <2>2 DEF Numbered, Tabled
  <2> QED
    BY <2>1, <2>2, <2>3
<1>1. CASE UNCHANGED core
  BY <1>0, <1>1 DEF core, schedVars, Chosen, IsMaxPriority
<1>2. ASSUME NEW c \in Call, Subscribe(c) PROVE Chosen'
  <2>1. /\ c = id /\ c \notin threads /\ threads' = threads \cup {c}
        /\ line'[c] = Head(subscribe) /\ line'[c] \in Line
        /\ \A d \in Call \ {c} : line'[d] = line[d]
        /\ sched = "select" /\ running_id = max_id
    BY <1>0, <1>2, SubscribeFrame DEF Subscribe, Chosen
  <2>2. /\ \A d \in Call : d \in Int
        /\ \A d \in Call : line[d].priority \in Int /\ line'[d].priority \in Int
    BY <1>0, <2>1 DEF Call, Line
  <2>3. \A d \in threads : d \in Call \ {c} /\ d < c /\ line'[d] = line[d]
    <3>1. \A d \in threads : d \in Call /\ ~(d >= id)
      BY <1>0 DEF Numbered, Tabled
    <3> QED
      BY <1>0, <2>1, <2>2, <3>1
  <2>4. \/ threads = {} /\ max_id = none
        \/ /\ max_id \in threads /\ max_id # none
           /\ \A d \in threads : \/ line[max_id].priority > line[d].priority
                                 \/ line[max_id].priority = line[d].priority /\ max_id <= d
    BY <1>0 DEF Chosen, IsMaxPriority
  <2>5. CASE Outranks(Head(subscribe).priority)
    <3>1. max_id' = c /\ \/ running_id # none /\ sched' = "preempt" /\ running_id' = running_id
                         \/ running_id = none /\ running_id' = c /\ sched' = "select"
      BY <1>2, <2>1, <2>5 DEF Subscribe
    <3>2. \A d \in threads : line'[c].priority > line[d].priority
      <4>1. max_id # none => line'[c].priority > line[max_id].priority
        BY <2>1, <2>5 DEF Outranks
      <4> QED
        BY <2>2, <2>3, <2>4, <4>1
    <3>3. IsMaxPriority(max_id, threads)'
      BY <2>1, <2>2, <2>3, <3>1, <3>2 DEF IsMaxPriority
    <3>4. running_id # none => running_id \in threads
      BY <2>1, <2>4
    <3> QED
      BY <2>1, <3>1, <3>3, <3>4 DEF Chosen
  <2>6. CASE ~Outranks(Head(subscribe).priority)
    <3>1. UNCHANGED <<sched, max_id, running_id>>
      BY <1>2, <2>6 DEF Subscribe
    <3>2. max_id \in threads /\ line'[c].priority <= line[max_id].priority
      <4>1. max_id # none /\ ~(line'[c].priority > line[max_id].priority)
        BY <2>1, <2>6 DEF Outranks
      <4>2. max_id \in threads
        BY <2>4, <4>1
      <4>3. line'[c].priority \in Int /\ line[max_id].priority \in Int
        BY <2>2, <2>3, <4>2
      <4> QED
        BY <4>1, <4>2, <4>3
    <3>3. IsMaxPriority(max_id, threads)'
      <4>1. \A d \in threads' : \/ line'[max_id].priority > line'[d].priority
                                \/ line'[max_id].priority = line'[d].priority /\ max_id <= d
        BY <2>1, <2>2, <2>3, <2>4, <3>2
      <4> QED
        BY <2>1, <3>1, <3>2, <4>1 DEF IsMaxPriority
    <3> QED
      BY <2>1, <3>1, <3>3 DEF Chosen
  <2> QED
    BY <2>5, <2>6
<1>3. ASSUME NEW c \in Call, Thread(c) PROVE Chosen'
  BY <1>0, <1>3, ThreadFrame DEF schedVars, Chosen, IsMaxPriority
<1>4. CASE SendPause
  BY <1>0, <1>4 DEF SendPause, callVars, Chosen, IsMaxPriority
<1>5. CASE SendRun
  BY <1>0, <1>5 DEF SendRun, callVars, Chosen, IsMaxPriority
<1>6. CASE Unsubscribe
  <2>1. /\ IsMaxPriority(max_id', threads') /\ running_id' = max_id' /\ line' = line
        /\ sched' = IF max_id' = none THEN "select" ELSE "wake"
    BY <1>6 DEF Unsubscribe, callVars
  <2> QED
    BY <2>1 DEF Chosen, IsMaxPriority
<1> QED
  BY <1>1, <1>2, <1>3, <1>4, <1>5, <1>6, Steps

\* The pause and the run commands follow max_id.
LEMMA ToldStep ==
  ASSUME Inv, [Next]_vars
  PROVE  Told'
<1>a. use_scheduler' = use_scheduler
  BY FlagIsFixed
<1> SUFFICES ASSUME use_scheduler, use_scheduler' PROVE Told'
  BY <1>a, Zenon DEF Told
<1>0. /\ TypeOK /\ Chosen /\ Told /\ Tabled /\ Numbered /\ threads \subseteq Call
      /\ id \in Nat /\ id \notin threads /\ none \notin Call
  <2>1. /\ TypeOK /\ Chosen /\ Told /\ Tabled /\ Numbered /\ none \notin Call
    BY DEF Inv, Call, none
  <2>2. threads \subseteq Call /\ id \in Nat
    BY <2>1 DEF TypeOK
  <2>3. id \notin threads
    BY <2>1, <2>2 DEF Numbered, Tabled
  <2> QED
    BY <2>1, <2>2, <2>3
<1>1. CASE UNCHANGED core
  BY <1>0, <1>1 DEF core, schedVars, Told, Effective
<1>2. ASSUME NEW c \in Call, Subscribe(c) PROVE Told'
  <2>1. /\ c = id /\ c \notin threads /\ threads' = threads \cup {c}
        /\ sched = "select" /\ running_id = max_id
        /\ \A d \in threads : Effective(d)' = Effective(d)
    BY <1>0, <1>2, SubscribeFrame DEF Subscribe, Chosen
  <2>2. state[c] = <<>> /\ ~active[c] /\ state' = state
    <3>1. pc[c] = "none"
      BY <1>0, <2>1 DEF Numbered
    <3>2. state' = state
      BY <1>0, <1>2, SubscribeFrame
    <3> QED
      BY <1>0, <3>1, <3>2 DEF Numbered
  <2>3. Effective(c)' = active'[c]
    BY <2>2 DEF Effective
  <2>4. max_id = none \/ max_id \in threads
    BY <1>0 DEF Chosen, IsMaxPriority
  <2>5. CASE Outranks(Head(subscribe).priority)
    <3>1. max_id' = c /\ \/ running_id # none /\ sched' = "preempt" /\ running_id' = running_id
                         \/ running_id = none /\ running_id' = c /\ sched' = "select"
      BY <1>2, <2>1, <2>5 DEF Subscribe
    <3>2. active'[c]
      BY <1>0, <1>2, <2>5 DEF Subscribe, TypeOK
    <3> QED
      BY <1>0, <2>1, <2>3, <2>4, <3>1, <3>2 DEF Told
  <2>6. CASE ~Outranks(Head(subscribe).priority)
    <3>1. UNCHANGED <<sched, max_id, running_id, active>>
      BY <1>2, <2>6 DEF Subscribe
    <3> QED
      BY <1>0, <2>1, <2>2, <2>3, <2>4, <3>1 DEF Told
  <2> QED
    BY <2>5, <2>6
<1>3. ASSUME NEW c \in Call, Thread(c) PROVE Told'
  <2>1. max_id \in Call \cup {none} /\ (sched = "preempt" => running_id \in Call)
    BY <1>0, Commanded DEF TypeOK
  <2> QED
    BY <1>0, <1>3, <2>1, ThreadFrame DEF schedVars, Told
<1>4. CASE SendPause
  <2>1. /\ running_id \in Call /\ running_id # max_id /\ UNCHANGED active
        /\ state' = [state EXCEPT ![running_id] = Append(@, FALSE)]
        /\ max_id \in Call \cup {none} /\ sched = "preempt"
        /\ sched' = "select" /\ threads' = threads /\ max_id' = max_id
    BY <1>0, <1>4, Commanded DEF SendPause, callVars, Chosen, TypeOK
  <2>2. PICK m \in Call : m = running_id
    BY <2>1
  <2>3. /\ Effective(m)' = FALSE
        /\ \A d \in Call \ {m} : Effective(d)' = Effective(d)
    BY <1>0, <2>1, <2>2, CommandFrame
  <2> QED
    BY <1>0, <2>1, <2>2, <2>3 DEF Told
<1>5. CASE SendRun
  <2>1. /\ max_id \in Call /\ UNCHANGED active
        /\ state' = [state EXCEPT ![max_id] = Append(@, TRUE)]
        /\ sched = "wake" /\ sched' = "select" /\ threads' = threads /\ max_id' = max_id
    BY <1>0, <1>5, Commanded DEF SendRun, callVars
  <2>2. PICK m \in Call : m = max_id
    BY <2>1
  <2>3. /\ Effective(m)' = TRUE
        /\ \A d \in Call \ {m} : Effective(d)' = Effective(d)
    BY <1>0, <2>1, <2>2, CommandFrame
  <2> QED
    BY <1>0, <2>1, <2>2, <2>3 DEF Told
<1>6. CASE Unsubscribe
  <2>1. /\ IsMaxPriority(max_id', threads') /\ UNCHANGED <<state, active, line>>
        /\ sched' = IF max_id' = none THEN "select" ELSE "wake"
        /\ threads' = threads \ {Head(unsubscribe)} /\ sched = "select"
    BY <1>6 DEF Unsubscribe, callVars
  <2>2. \A d \in Call : Effective(d)' = Effective(d)
    BY <2>1 DEF Effective
  <2>3. max_id' = none => threads' = {}
    BY <1>0, <2>1 DEF IsMaxPriority
  <2>4. ASSUME NEW d \in threads', Effective(d) PROVE d = max_id'
    <3>1. d = max_id /\ d \in threads /\ IsMaxPriority(d, threads)
      BY <1>0, <2>1, <2>4 DEF Told, Chosen
    <3>2. max_id' \in threads' /\ max_id' \in threads
      BY <1>0, <2>1, <2>4 DEF IsMaxPriority
    <3>3. \A e \in Call : e \in Int /\ line[e].priority \in Int
      BY <1>0 DEF TypeOK, Line, Call
    <3> QED
      BY <1>0, <2>1, <2>4, <3>1, <3>2, <3>3 DEF IsMaxPriority
  <2> QED
    BY <1>0, <2>1, <2>2, <2>3, <2>4 DEF Told
<1> QED
  BY <1>1, <1>2, <1>3, <1>4, <1>5, <1>6, Steps

\* The scheduler pauses only a goroutine it has last told to run, and a
\* goroutine that waits takes TRUE.
LEMMA AlternatingStep ==
  ASSUME Inv, [Next]_vars
  PROVE  Alternating'
<1>0. /\ TypeOK /\ Alternating /\ Numbered
      /\ pc \in [Call -> {"none", "open", "loop", "send", "unsubscribe", "wgdone", "done"}]
      /\ active \in [Call -> BOOLEAN] /\ state \in [Call -> Seq(BOOLEAN)]
  BY DEF Inv, TypeOK
<1>1. CASE UNCHANGED core
  BY <1>0, <1>1 DEF core, Alternating
<1>2. ASSUME NEW c \in Call, Subscribe(c) PROVE Alternating'
  <2>1. pc[c] = "none" /\ state[c] = <<>>
    <3>1. c = id /\ id \in Int
      BY <1>0, <1>2, SubscribeFrame DEF TypeOK
    <3> QED
      BY <1>0, <3>1 DEF Numbered
  <2> QED
    BY <1>0, <1>2, <2>1, SubscribeFrame DEF Alternating
<1>3. ASSUME NEW c \in Call, Thread(c) PROVE Alternating'
  <2> SUFFICES /\ pc'[c] = "send" => active'[c]
               /\ state'[c] # <<>> /\ ~active'[c] => state'[c][1]
               /\ NoTwoPauses(state'[c])
    BY <1>0, <1>3, ThreadFrame DEF Alternating
  <2>1. CASE TakeCommand(c) \/ Await(c)
    <3>1. /\ state[c] # <<>> /\ active'[c] = Head(state[c]) /\ state'[c] = Tail(state[c])
          /\ pc'[c] = "send" => Head(state[c]) \/ ~active[c]
      BY <1>0, <2>1 DEF TakeCommand, Await, At, Goto
    <3>2. NoTwoPauses(state[c]) /\ (~active[c] => state[c][1])
      BY <1>0, <3>1 DEF Alternating
    <3>3. Head(state[c]) = state[c][1]
      BY <1>0, <3>1, TakenCommand
    <3>4. /\ NoTwoPauses(Tail(state[c]))
          /\ Tail(state[c]) # <<>> /\ ~Head(state[c]) => Tail(state[c])[1]
      BY <1>0, <3>1, <3>2, TakenAlternating
    <3>5. pc'[c] = "send" => active'[c]
      BY <3>1, <3>2, <3>3, Zenon
    <3> QED
      BY <3>1, <3>4, <3>5
  <2>2. CASE ~(TakeCommand(c) \/ Await(c))
    <3>1. UNCHANGED <<active, state>> /\ (pc'[c] = "send" => active[c])
      BY <1>0, <1>3, <2>2 DEF Thread, Open, GoOn, Send, Close, SendUnsubscribe, WgDone, At, Goto
    <3> QED
      BY <1>0, <3>1 DEF Alternating
  <2> QED
    BY <2>1, <2>2
<1>4. CASE SendPause \/ SendRun
  <2>1. PICK m \in Call, b \in BOOLEAN :
          /\ state' = [state EXCEPT ![m] = Append(@, b)]
          /\ b \/ Effective(m)
    BY <1>4, Commanded DEF SendPause, SendRun
  <2>2. UNCHANGED <<pc, active>>
    BY <1>4 DEF SendPause, SendRun, callVars
  <2>3. /\ state'[m] = Append(state[m], b) /\ state[m] \in Seq(BOOLEAN)
        /\ \A d \in Call \ {m} : state'[d] = state[d]
    BY <1>0, <2>1
  <2>4. NoTwoPauses(state[m]) /\ (state[m] # <<>> /\ ~active[m] => state[m][1])
    BY <1>0 DEF Alternating
  <2>5. /\ state[m] = <<>> => b \/ active[m]
        /\ b \/ state[m] = <<>> \/ state[m][Len(state[m])]
    BY <2>1, Zenon DEF Effective
  <2>6. NoTwoPauses(state'[m])
    BY <2>3, <2>4, <2>5, AppendedAlternating
  <2>7. ~active[m] => state'[m][1]
    <3>1. /\ Len(state[m]) \in Nat /\ (state[m] # <<>> => Len(state[m]) >= 1)
          /\ state[m] = <<>> => Len(state[m]) = 0
          /\ \A i \in 1 .. Len(state[m]) : state'[m][i] = state[m][i]
          /\ state'[m][Len(state[m]) + 1] = b
      BY <2>3, AppendedCommand, EmptySeq
    <3>2. /\ state[m] = <<>> => state'[m][1] = b
          /\ state[m] # <<>> => state'[m][1] = state[m][1]
      BY <3>1
    <3> QED
      BY <2>4, <2>5, <3>2, Zenon
  <2> QED
    BY <1>0, <2>2, <2>3, <2>6, <2>7 DEF Alternating
<1>5. CASE Unsubscribe
  BY <1>0, <1>5 DEF Unsubscribe, callVars, Alternating
<1> QED
  BY <1>1, <1>2, <1>3, <1>4, <1>5, Steps

\* A call is told to run only when no earlier call of its priority is in the
\* table, and no goroutine acts without being told.
LEMMA SerialStep ==
  ASSUME Inv, [Next]_vars
  PROVE  Serial'
<1> SUFFICES ASSUME use_scheduler, NEW c \in Call, NEW d \in Call,
                    c < d, line'[c].priority = line'[d].priority,
                    c \in threads', pc'[d] # "none"
             PROVE  Untouched(d)'
  BY FlagIsFixed DEF Serial
<1>0. /\ TypeOK /\ Serial /\ Numbered /\ Tabled /\ Chosen /\ Told
      /\ pc \in [Call -> {"none", "open", "loop", "send", "unsubscribe", "wgdone", "done"}]
      /\ active \in [Call -> BOOLEAN] /\ state \in [Call -> Seq(BOOLEAN)]
      /\ sent \in [Call -> Nat] /\ id \in Int
      /\ \A e \in Call : line[e].priority \in Int /\ line[e].count \in Nat
  <2>1. TypeOK
    BY DEF Inv
  <2>2. line \in [Call -> Line] /\ id \in Int
    BY <2>1 DEF TypeOK
  <2>3. \A e \in Call : line[e].priority \in Int /\ line[e].count \in Nat
    BY <2>2 DEF Line
  <2> QED
    BY <2>1, <2>2, <2>3 DEF Inv, TypeOK
<1>1. c \in Int /\ d \in Int /\ c # d
  BY DEF Call
<1>2. ASSUME UNCHANGED <<pc, line>>, threads' \subseteq threads
      PROVE  Untouched(d) /\ pc[d] # "none"
  BY <1>0, <1>2 DEF Serial
<1>3. CASE UNCHANGED core
  BY <1>2, <1>3 DEF core, schedVars, Untouched
<1>4. ASSUME NEW e \in Call, Subscribe(e) PROVE Untouched(d)'
  <2>1. e = id /\ threads' = threads \cup {e}
    BY <1>0, <1>4, SubscribeFrame
  <2>2. CASE e = c
    BY <1>0, <1>1, <1>4, <2>1, <2>2, SubscribeFrame DEF Numbered
  <2>3. CASE e # c /\ e # d
    <3>1. pc'[d] = pc[d] /\ line'[c] = line[c] /\ line'[d] = line[d] /\ c \in threads
      BY <1>4, <1>0, <2>1, <2>3, SubscribeFrame
    <3>2. UNCHANGED <<state, sent>> /\ active'[d] = active[d]
      BY <1>4, <1>0, <2>3, SubscribeFrame
    <3> QED
      BY <1>0, <3>1, <3>2 DEF Serial, Untouched
  <2>4. CASE e = d
    <3>1. c \in threads /\ line'[c] = line[c] /\ line'[d] = Head(subscribe)
          /\ line'[d] \in Line /\ line[c] \in Line /\ pc'[d] = "open"
          /\ UNCHANGED <<state, sent>>
      BY <1>0, <1>1, <1>4, <2>1, <2>4, SubscribeFrame DEF TypeOK
    <3>2. /\ max_id \in threads /\ max_id # none
          /\ \/ line[max_id].priority > line[c].priority
             \/ line[max_id].priority = line[c].priority
      <4>1. threads \subseteq Call /\ none \notin Call
        BY <1>0 DEF TypeOK, Call, none
      <4> QED
        BY <1>0, <3>1, <4>1 DEF Chosen, IsMaxPriority
    <3>3. line[max_id] \in Line
      BY <1>0, <3>2 DEF TypeOK
    <3>4. ~Outranks(Head(subscribe).priority)
      <4>1. /\ line[max_id].priority \in Int /\ line[c].priority \in Int
            /\ Head(subscribe).priority \in Int
        BY <3>1, <3>3 DEF Line
      <4> QED
        BY <3>1, <3>2, <4>1 DEF Outranks
    <3>5. UNCHANGED active
      BY <1>4, <3>4 DEF Subscribe
    <3>6. ~active[d] /\ state[d] = <<>> /\ sent[d] = 0
      BY <1>0, <1>1, <2>1, <2>4 DEF Numbered
    <3> QED
      BY <3>1, <3>5, <3>6 DEF Untouched
  <2> QED
    BY <2>2, <2>3, <2>4
<1>5. ASSUME NEW e \in Call, Thread(e) PROVE Untouched(d)'
  <2>1. UNCHANGED <<threads, line>> /\ (e # d => pc'[d] = pc[d])
    BY <1>0, <1>5, ThreadFrame DEF schedVars
  <2>2. pc[d] # "none"
    BY <1>0, <1>5, <2>1 DEF Thread, Open, GoOn, TakeCommand, Await, Send, Close,
                   SendUnsubscribe, WgDone, At
  <2>3. Untouched(d)
    BY <1>0, <2>1, <2>2 DEF Serial
  <2>4. CASE e # d
    BY <1>0, <1>5, <2>3, <2>4, ThreadFrame DEF Untouched
  <2>5. CASE e = d
    <3>1. line[d].count > 0 /\ line[d].count \in Nat
      BY <1>0, <2>2 DEF Numbered
    <3>2. Open(d)
      <4>1. sent[d] # line[d].count
        BY <2>3, <3>1 DEF Untouched
      <4> QED
        BY <1>5, <2>3, <2>5, <4>1 DEF Untouched, Thread, GoOn, TakeCommand, Await, Send,
                   Close, SendUnsubscribe, WgDone, At
    <3> QED
      BY <1>0, <2>3, <3>2 DEF Open, Untouched, Goto
  <2> QED
    BY <2>4, <2>5
<1>6. CASE SendPause \/ SendRun
  <2>1. UNCHANGED <<pc, active, line, sent, threads>>
    BY <1>6 DEF SendPause, SendRun, callVars
  <2>2. Untouched(d) /\ pc[d] # "none"
    BY <1>2, <2>1
  <2>3. ~Effective(d)
    BY <2>2 DEF Effective, Untouched
  <2>4. CASE SendPause
    <3>1. running_id # d
      BY <2>3, <2>4, Commanded DEF SendPause
    <3>2. state'[d] = state[d]
      BY <1>0, <2>4, <3>1 DEF SendPause
    <3> QED
      BY <2>1, <2>2, <3>2 DEF Untouched
  <2>5. CASE SendRun
    <3>1. max_id # d
      <4>1. line[c].priority \in Int /\ line[d].priority \in Int
        BY <1>0
      <4> QED
        BY <1>0, <1>1, <2>1, <4>1 DEF Chosen, IsMaxPriority
    <3>2. state'[d] = state[d]
      BY <1>0, <2>5, <3>1 DEF SendRun
    <3> QED
      BY <2>1, <2>2, <3>2 DEF Untouched
  <2> QED
    BY <1>6, <2>4, <2>5
<1>7. CASE Unsubscribe
  <2>1. UNCHANGED <<pc, line, active, state, sent>> /\ threads' \subseteq threads
    BY <1>7 DEF Unsubscribe, callVars
  <2> QED
    BY <1>2, <2>1 DEF Untouched
<1> QED
  BY <1>3, <1>4, <1>5, <1>6, <1>7, Steps

\* A number is paid for by a command that is taken off the channel, or by the
\* Send that was under way.
LEMMA DrainingStep ==
  ASSUME Inv, [Next]_vars
  PROVE  Draining'
<1>0. /\ TypeOK /\ Draining /\ Numbered /\ Alternating /\ StateCap \in Nat \ {0}
      /\ pc \in [Call -> {"none", "open", "loop", "send", "unsubscribe", "wgdone", "done"}]
      /\ active \in [Call -> BOOLEAN] /\ state \in [Call -> Seq(BOOLEAN)]
      /\ overrun \in [Call -> Nat] /\ id \in Int
  <2>1. TypeOK
    BY DEF Inv
  <2>2. id \in Int
    BY <2>1 DEF TypeOK
  <2> QED
    BY <2>1, <2>2, GoClientAssumption DEF Inv, TypeOK
<1>1. CASE UNCHANGED core
  BY <1>0, <1>1 DEF core, Draining, Effective, Sending
<1>2. ASSUME NEW c \in Call, Subscribe(c) PROVE Draining'
  <2>1. c = id /\ pc'[c] = "open" /\ UNCHANGED <<state, overrun>>
    BY <1>0, <1>2, SubscribeFrame
  <2>2. state[c] = <<>> /\ Len(state[c]) <= StateCap /\ overrun[c] <= StateCap
    BY <1>0, <2>1 DEF Numbered, Draining
  <2>3. \A d \in Call \ {c} : pc'[d] = pc[d] /\ Effective(d)' = Effective(d)
    BY <1>0, <1>2, SubscribeFrame
  <2> QED
    BY <1>0, <2>1, <2>2, <2>3 DEF Draining, Sending
<1>3. ASSUME NEW c \in Call, Thread(c) PROVE Draining'
  <2> SUFFICES /\ Len(state'[c]) <= StateCap
               /\ overrun'[c] <= StateCap
               /\ ~Effective(c) /\ state'[c] # <<>> =>
                    overrun'[c] + Len(state'[c]) - 1 + Sending(c)' <= StateCap
    <3>1. /\ Effective(c)' = Effective(c)
          /\ \A d \in Call \ {c} : /\ state'[d] = state[d] /\ overrun'[d] = overrun[d]
                                   /\ pc'[d] = pc[d] /\ Effective(d)' = Effective(d)
      BY <1>0, <1>3, ThreadFrame
    <3> QED
      BY <1>0, <3>1 DEF Draining, Sending
  <2>1. /\ Len(state[c]) <= StateCap /\ Len(state[c]) \in Nat
        /\ overrun[c] <= StateCap /\ overrun[c] \in Nat
        /\ ~Effective(c) /\ state[c] # <<>> =>
             overrun[c] + Len(state[c]) - 1 + Sending(c) <= StateCap
    BY <1>0 DEF Draining
  <2>2. CASE TakeCommand(c) \/ Await(c)
    <3>1. /\ state[c] # <<>> /\ state'[c] = Tail(state[c])
          /\ overrun'[c] = overrun[c] /\ pc[c] = "loop"
      BY <1>0, <2>2 DEF TakeCommand, Await, At
    <3>2. Len(state'[c]) = Len(state[c]) - 1
      BY <1>0, <3>1, TakenCommand
    <3>3. Sending(c) = 0 /\ Sending(c)' \in {0, 1}
      BY <3>1 DEF Sending
    <3> QED
      BY <1>0, <2>1, <3>1, <3>2, <3>3
  <2>3. CASE Send(c)
    <3>1. /\ pc[c] = "send" /\ pc'[c] = "loop" /\ state'[c] = state[c]
          /\ overrun'[c] = IF Effective(c) THEN 0 ELSE overrun[c] + 1
      BY <1>0, <2>3 DEF Send, At, Goto
    <3>2. ~Effective(c) => state[c] # <<>>
      BY <1>0, <3>1 DEF Alternating, Effective
    <3>3. Sending(c) = 1 /\ Sending(c)' = 0
      BY <3>1 DEF Sending
    <3>4. state[c] # <<>> => Len(state[c]) >= 1
      BY <1>0, EmptySeq
    <3> QED
      BY <1>0, <2>1, <3>1, <3>2, <3>3, <3>4
  <2>4. CASE GoOn(c)
    <3>1. /\ state[c] = <<>> /\ state'[c] = state[c] /\ overrun'[c] = overrun[c]
      BY <1>0, <2>4 DEF GoOn
    <3> QED
      BY <2>1, <3>1
  <2>5. CASE Open(c) \/ Close(c) \/ SendUnsubscribe(c) \/ WgDone(c)
    <3>1. /\ state'[c] = state[c] /\ overrun'[c] = overrun[c]
          /\ pc[c] # "send" /\ pc'[c] # "send"
      BY <1>0, <2>5 DEF Open, Close, SendUnsubscribe, WgDone, At, Goto
    <3> QED
      BY <2>1, <3>1 DEF Sending
  <2> QED
    BY <1>3, <2>2, <2>3, <2>4, <2>5 DEF Thread
<1>4. CASE SendPause
  <2>1. PICK m \in Call : m = running_id
    BY <1>4, Commanded DEF SendPause
  <2>2. /\ state' = [state EXCEPT ![m] = Append(@, FALSE)] /\ Len(state[m]) < StateCap
        /\ overrun' = [overrun EXCEPT ![m] = 0] /\ UNCHANGED <<pc, active>>
    BY <1>4, <2>1 DEF SendPause, callVars
  <2>3. \A d \in Call \ {m} : /\ state'[d] = state[d] /\ overrun'[d] = overrun[d]
                              /\ Effective(d)' = Effective(d)
    BY <1>0, <2>2, CommandFrame
  <2>4. Len(state'[m]) = Len(state[m]) + 1 /\ Len(state[m]) \in Nat
    BY <1>0, <2>2, AppendedCommand
  <2>5. overrun'[m] = 0 /\ Sending(m)' \in {0, 1}
    BY <1>0, <2>2 DEF Sending
  <2>6. \A d \in Call : Sending(d)' = Sending(d)
    BY <2>2 DEF Sending
  <2>7. /\ Len(state'[m]) <= StateCap /\ overrun'[m] <= StateCap
        /\ overrun'[m] + Len(state'[m]) - 1 + Sending(m)' <= StateCap
    BY <1>0, <2>2, <2>4, <2>5
  <2> QED
    BY <1>0, <2>3, <2>6, <2>7 DEF Draining
<1>5. CASE SendRun
  <2>1. PICK m \in Call : m = max_id
    BY <1>5, Commanded DEF SendRun
  <2>2. /\ state' = [state EXCEPT ![m] = Append(@, TRUE)] /\ Len(state[m]) < StateCap
        /\ UNCHANGED <<pc, active, overrun>>
    BY <1>5, <2>1 DEF SendRun, callVars
  <2>3. /\ Effective(m)' = TRUE
        /\ \A d \in Call \ {m} : state'[d] = state[d] /\ Effective(d)' = Effective(d)
    BY <1>0, <2>2, CommandFrame
  <2>4. Len(state'[m]) <= StateCap
    <3>1. Len(state'[m]) = Len(state[m]) + 1 /\ Len(state[m]) \in Nat
      BY <1>0, <2>2, AppendedCommand
    <3> QED
      BY <1>0, <2>2, <3>1
  <2>5. \A d \in Call : Sending(d)' = Sending(d) /\ overrun'[d] = overrun[d]
    BY <2>2 DEF Sending
  <2> QED
    BY <1>0, <2>3, <2>4, <2>5 DEF Draining
<1>6. CASE Unsubscribe
  BY <1>0, <1>6 DEF Unsubscribe, callVars, Draining, Effective, Sending
<1> QED
  BY <1>1, <1>2, <1>3, <1>4, <1>5, <1>6, Steps

-----------------------------------------------------------------------------
(* Theorems about the scheduler *)

\* The inductive invariant holds in every reachable state.
THEOREM Invariance == Spec => []Inv
<1>1. Init => Inv
  <2> SUFFICES ASSUME Init PROVE Inv
    OBVIOUS
  <2>1. TypeOK
    BY GoClientAssumption DEF Init, TypeOK, NoLine, Line, none, Call
  <2>2. Numbered
    BY DEF Init, Numbered, Call
  <2>3. Unscheduled /\ Tabled /\ Chosen /\ Told
    BY DEF Init, Unscheduled, Tabled, Chosen, Told, IsMaxPriority, none
  <2>4. Alternating /\ Serial /\ Draining
    BY GoClientAssumption DEF Init, Alternating, NoTwoPauses, Serial, Draining, Effective
  <2> QED
    BY <2>1, <2>2, <2>3, <2>4 DEF Inv
<1>2. TypeOK' /\ Inv /\ [Next]_vars => Inv'
  BY NumberedStep, UnscheduledStep, TabledStep, ChosenStep, ToldStep,
     AlternatingStep, SerialStep, DrainingStep DEF Inv
<1> QED
  BY <1>1, <1>2, TypeCorrect, PTL DEF Spec

\* Whatever the input and however the goroutines are scheduled, exactly the
\* call that get_max_priority would choose has been told to run.
THEOREM BestIsTold == Spec => []OnlyTheBestIsTold
<1>1. Inv => OnlyTheBestIsTold
  <2> SUFFICES ASSUME Inv, use_scheduler, sched = "select"
               PROVE  /\ running_id = max_id /\ IsMaxPriority(max_id, threads)
                      /\ \A c \in threads : Effective(c) <=> c = max_id
    BY DEF OnlyTheBestIsTold
  <2>1. threads \subseteq Call /\ none \notin Call
    BY DEF Inv, TypeOK, Call, none
  <2>2. /\ \A c \in threads : Effective(c) => c = max_id
        /\ max_id # none => Effective(max_id)
    BY DEF Inv, Told
  <2> QED
    BY <2>1, <2>2 DEF Inv, Chosen
<1> QED
  BY <1>1, Invariance, PTL

\* No goroutine sends while its own flag says paused, although the code sends
\* after any command a paused goroutine receives.
THEOREM PausedIsSilent == Spec => []NoSendWhilePaused
<1>1. Inv => NoSendWhilePaused
  BY DEF Inv, Alternating, NoSendWhilePaused
<1> QED
  BY <1>1, Invariance, PTL

\* Calls of one priority are served one after the other, in input order.
THEOREM Serialised == Spec => []SerialWithinPriority
<1>1. Inv => SerialWithinPriority
  <2> SUFFICES ASSUME Inv, use_scheduler, NEW c \in Call, NEW d \in Call,
                      c < d, line[c].priority = line[d].priority,
                      Unfinished(c), pc[d] # "none"
               PROVE  ~Started(d)
    BY DEF SerialWithinPriority
  <2>1. c \in threads
    BY DEF Inv, Tabled, Unfinished
  <2>2. Untouched(d)
    BY <2>1 DEF Inv, Serial
  <2> QED
    BY <2>2 DEF Untouched, Started
<1> QED
  BY <1>1, Invariance, PTL

\* A pause takes effect after at most StateCap more numbers.
THEOREM OverrunIsBounded == Spec => []BoundedOverrun
<1>1. Inv => BoundedOverrun
  BY DEF Inv, Draining, BoundedOverrun
<1> QED
  BY <1>1, Invariance, PTL

-----------------------------------------------------------------------------
(* The WaitGroup *)

Done == {c \in Call : pc[c] = "done"}

\* The counter, the goroutines that have called Done, and the results.
Counted ==
  /\ exit # "panic" => wg = CountedLines - Cardinality(Done)
  /\ exit = "panic" => \/ subscribe # <<>> /\ Head(subscribe).count = 0
                       \/ Cardinality(Done) > CountedLines
  /\ exit = "returned" => wg = 0
  /\ \A c \in Call : pc[c] \in {"unsubscribe", "wgdone", "done"} => c \in written

\* There are at most NumCalls goroutines to wait for.
LEMMA DoneIsFinite ==
  /\ IsFiniteSet(Call) /\ Cardinality(Call) = NumCalls
  /\ IsFiniteSet(Done) /\ Cardinality(Done) \in Nat
<1>1. IsFiniteSet(Call) /\ Cardinality(Call) = NumCalls
  BY FS_Interval, GoClientAssumption DEF Call
<1>2. Done \subseteq Call
  BY DEF Done
<1> QED
  BY <1>1, <1>2, FS_Subset, FS_CardinalityType

\* wg.Done() takes one off the counter for every goroutine that ends, and a
\* goroutine calls it after it has written its result.
LEMMA CountedStep ==
  ASSUME Inv, Counted, [Next]_vars
  PROVE  Counted'
<1>0. /\ TypeOK /\ Numbered /\ wg \in Nat
      /\ pc \in [Call -> {"none", "open", "loop", "send", "unsubscribe", "wgdone", "done"}]
  BY DEF Inv, TypeOK
<1>1. CASE exit # "running" \/ UNCHANGED vars
  <2>1. UNCHANGED vars
    BY <1>1 DEF Next, Main, MainFails, Scheduler, Thread, Failure, Exited
  <2>2. UNCHANGED <<exit, pc, written, wg, subscribe>>
    BY <2>1 DEF vars
  <2> QED
    BY <2>2 DEF Counted, Done
<1>2. CASE exit = "running" /\ Main
  <2>1. UNCHANGED <<pc, written, wg>> /\ (exit' = "running" \/ (exit' = "returned" /\ wg = 0))
    <3>1. CASE ReadLine
      BY <1>2, <3>1 DEF ReadLine, callVars
    <3>2. CASE EndOfFile
      BY <1>2, <3>2 DEF EndOfFile, callVars
    <3>3. CASE Return
      BY <1>2, <3>3 DEF Return, callVars, mainVars
    <3> QED
      BY <1>2, <3>1, <3>2, <3>3 DEF Main
  <2> QED
    BY <1>2, <2>1 DEF Counted, Done
<1>3. CASE exit = "running" /\ Scheduler
  <2>1. UNCHANGED <<written, wg>>
    BY <1>3 DEF Scheduler, Subscribe, ParsePanic, SendPause, Unsubscribe, SendRun,
                mainVars, callVars
  <2>2. CASE ParsePanic
    BY <1>3, <2>1, <2>2 DEF ParsePanic, Counted, Done, callVars
  <2>3. CASE SendPause \/ Unsubscribe \/ SendRun
    BY <1>3, <2>1, <2>3 DEF SendPause, Unsubscribe, SendRun, Counted, Done, callVars
  <2>4. ASSUME NEW c \in Call, Subscribe(c) PROVE Counted'
    <3>1. exit' = "running" /\ c = id /\ pc'[c] = "open"
      BY <1>0, <1>3, <2>4, SubscribeFrame DEF Subscribe
    <3>2. pc[c] = "none"
      <4>1. id \in Int
        BY <1>0 DEF TypeOK
      <4> QED
        BY <1>0, <3>1, <4>1 DEF Numbered
    <3>3. \A d \in Call : pc'[d] = pc[d] \/ (pc'[d] = "open" /\ pc[d] = "none")
      BY <1>0, <2>4, <3>1, <3>2, SubscribeFrame
    <3>4. Done' = Done
      BY <3>3 DEF Done
    <3> QED
      BY <1>3, <2>1, <3>1, <3>3, <3>4 DEF Counted
  <2> QED
    BY <1>3, <2>2, <2>3, <2>4 DEF Scheduler
<1>4. CASE exit = "running" /\ (MainFails \/ \E c \in Call : Failure(c))
  <2>1. exit' = "failed" /\ UNCHANGED <<pc, written, wg>>
    BY <1>4 DEF MainFails, Failure, Fatal, mainVars, callVars
  <2> QED
    BY <1>4, <2>1 DEF Counted, Done
<1>5. ASSUME exit = "running", NEW c \in Call, Thread(c) PROVE Counted'
  <2>1. \A d \in Call \ {c} : pc'[d] = pc[d]
    BY <1>0, <1>5, ThreadFrame
  <2>2. CASE WgDone(c)
    <3>1. pc[c] = "wgdone" /\ pc'[c] = "done" /\ UNCHANGED written
      BY <1>0, <2>2 DEF WgDone, At, Goto
    <3>2. Done' = Done \cup {c} /\ c \notin Done
      BY <2>1, <3>1 DEF Done
    <3>3. Cardinality(Done') = Cardinality(Done) + 1 /\ Cardinality(Done) \in Nat
      BY <3>2, DoneIsFinite, FS_AddElement
    <3>4. wg = CountedLines - Cardinality(Done)
      BY <1>5 DEF Counted
    <3>5. \A d \in Call : pc'[d] \in {"unsubscribe", "wgdone", "done"} => d \in written'
      BY <2>1, <3>1 DEF Counted
    <3>6. CASE wg > 0 /\ wg' = wg - 1 /\ exit' = exit
      BY <1>0, <1>5, <3>3, <3>4, <3>5, <3>6, GoClientAssumption DEF Counted
    <3>7. CASE wg = 0 /\ exit' = "panic"
      BY <3>3, <3>4, <3>5, <3>7, GoClientAssumption DEF Counted
    <3> QED
      BY <2>2, <3>6, <3>7 DEF WgDone
  <2>3. CASE Close(c)
    <3>1. /\ pc[c] = "loop" /\ pc'[c] # "done" /\ written' = written \cup {c}
          /\ UNCHANGED <<exit, wg>>
      BY <1>0, <2>3 DEF Close, At, Goto
    <3>2. Done' = Done
      BY <2>1, <3>1 DEF Done
    <3>3. \A d \in Call : pc'[d] \in {"unsubscribe", "wgdone", "done"} => d \in written'
      BY <2>1, <3>1 DEF Counted
    <3> QED
      BY <1>5, <3>1, <3>2, <3>3 DEF Counted
  <2>4. CASE ~WgDone(c) /\ ~Close(c)
    <3>1. /\ pc[c] # "done" /\ pc'[c] # "done" /\ UNCHANGED <<exit, wg, written>>
          /\ pc'[c] \in {"unsubscribe", "wgdone"} => pc[c] \in {"unsubscribe", "wgdone"}
      BY <1>0, <1>5, <2>4 DEF Thread, Open, GoOn, TakeCommand, Await, Send, SendUnsubscribe,
                              At, Goto
    <3>2. Done' = Done
      BY <2>1, <3>1 DEF Done
    <3>3. \A d \in Call : pc'[d] \in {"unsubscribe", "wgdone", "done"} => d \in written'
      BY <2>1, <3>1 DEF Counted
    <3> QED
      BY <1>5, <3>1, <3>2, <3>3 DEF Counted
  <2> QED
    BY <2>2, <2>3, <2>4
<1>6. exit = "running" \/ exit # "running"
  OBVIOUS
<1> QED
  BY <1>1, <1>2, <1>3, <1>4, <1>5, <1>6 DEF Next, Exited

\* The counter accounts for the goroutines in every reachable state.
LEMMA AlwaysCounted == Spec => []Counted
<1>1. Init => Counted
  <2> SUFFICES ASSUME Init PROVE Counted
    OBVIOUS
  <2>1. Done = {}
    BY DEF Init, Done
  <2>2. Cardinality(Done) = 0
    BY <2>1, FS_EmptySet
  <2> QED
    BY <2>2, GoClientAssumption DEF Init, Counted
<1>2. Inv /\ Counted /\ [Next]_vars => Counted'
  BY CountedStep
<1> QED
  BY <1>1, <1>2, Invariance, PTL DEF Spec

\* The goroutines that have called Done have their results in the file, and
\* when main returns there are CountedLines of them.
LEMMA DoneAreWritten ==
  ASSUME TypeOK, Counted
  PROVE  /\ Cardinality(Done) \in Nat /\ Cardinality(written) \in Nat
         /\ Cardinality(Done) <= Cardinality(written) /\ Cardinality(Done) <= NumCalls
         /\ exit = "returned" => Cardinality(Done) = CountedLines
<1>1. Done \subseteq written /\ written \subseteq Call /\ Done \subseteq Call
  BY DEF TypeOK, Counted, Done
<1>2. IsFiniteSet(written)
  BY <1>1, DoneIsFinite, FS_Subset
<1>3. Cardinality(written) \in Nat /\ Cardinality(Done) <= Cardinality(written)
  BY <1>1, <1>2, FS_Subset, FS_CardinalityType
<1>4. Cardinality(Done) <= NumCalls
  BY <1>1, DoneIsFinite, FS_Subset
<1>5. exit = "returned" => Cardinality(Done) = CountedLines
  BY DoneIsFinite, GoClientAssumption DEF Counted
<1> QED
  BY <1>3, <1>4, <1>5, DoneIsFinite

\* When main returns, as many results as count_lines found lines are in the
\* output file, even if that is not the number of lines of the input file.
THEOREM CountedAreWritten == Spec => []WaitsForCounted
<1>1. TypeOK /\ Counted => WaitsForCounted
  BY DoneAreWritten DEF WaitsForCounted
<1> QED
  BY <1>1, TypeCorrect, AlwaysCounted, PTL

\* When count_lines is right, main returns with every result written, and only
\* a malformed line makes the process panic.
THEOREM AllAreWritten ==
  ASSUME CountedLines = NumCalls
  PROVE  Spec => []WaitsForAll
<1>1. TypeOK /\ Counted => WaitsForAll
  <2> SUFFICES ASSUME TypeOK, Counted PROVE WaitsForAll
    OBVIOUS
  <2>1. ASSUME exit = "returned" PROVE written = Call
    <3>1. Done = Call
      <4>1. Done \subseteq Call /\ Cardinality(Done) = Cardinality(Call)
        BY <2>1, DoneAreWritten, DoneIsFinite DEF Done
      <4> QED
        BY <4>1, DoneIsFinite, FS_Subset
    <3> QED
      BY <3>1 DEF TypeOK, Counted, Done
  <2>2. ~(Cardinality(Done) > CountedLines)
    BY DoneAreWritten, GoClientAssumption
  <2> QED
    BY <2>1, <2>2 DEF Counted, WaitsForAll
<1> QED
  BY <1>1, TypeCorrect, AlwaysCounted, PTL

-----------------------------------------------------------------------------
(* Refinement *)

\* With --scheduler, the table and max_id behave as PriorityGrant promises:
\* the grant moves only to a call of strictly higher priority, or from a call
\* that leaves to one of the highest priority that are left.
THEOREM Refinement ==
  ASSUME SchedulerFlag = {TRUE}
  PROVE  Spec => Implements
<1> USE DEF Abstract!vars
<1>1. Init => Abstract!Init
  <2> SUFFICES ASSUME Init PROVE Abstract!Init
    OBVIOUS
  <2>1. \A c \in Call : line[c].priority \in Int
    BY DEF Init, NoLine
  <2> QED
    BY <2>1 DEF Init, Abstract!Init
<1>2. Inv /\ [Next]_vars => [Abstract!Next]_Abstract!vars
  <2> SUFFICES ASSUME Inv, [Next]_vars PROVE [Abstract!Next]_Abstract!vars
    OBVIOUS
  <2>0. /\ TypeOK /\ Numbered /\ Tabled /\ Chosen /\ use_scheduler
        /\ line \in [Call -> Line] /\ threads \subseteq Call /\ none \notin Call
        /\ unsubscribe \in Seq(Call)
    <3>1. TypeOK /\ Numbered /\ Tabled /\ Chosen /\ none \notin Call
      BY DEF Inv, Call, none
    <3> QED
      BY <3>1 DEF TypeOK
  <2>1. ASSUME UNCHANGED <<threads, line, max_id>> PROVE UNCHANGED Abstract!vars
    BY <2>1
  <2>2. CASE UNCHANGED core
    BY <2>1, <2>2 DEF core, schedVars
  <2>3. CASE SendPause \/ SendRun
    BY <2>1, <2>3 DEF SendPause, SendRun, callVars
  <2>4. ASSUME NEW c \in Call, Thread(c) PROVE UNCHANGED Abstract!vars
    BY <2>0, <2>1, <2>4, ThreadFrame DEF schedVars
  <2>5. ASSUME NEW c \in Call, Subscribe(c) PROVE Abstract!Next
    <3>1. /\ c = id /\ threads' = threads \cup {c} /\ line'[c] = Head(subscribe)
          /\ \A d \in Call \ {c} : line'[d] = line[d]
      BY <2>0, <2>5, SubscribeFrame
    <3>2. c \notin threads
      <4>1. id \in Int
        BY <2>0 DEF TypeOK
      <4> QED
        BY <2>0, <3>1, <4>1 DEF Numbered, Tabled
    <3>3. [d \in Call |-> line'[d].priority] =
            [[d \in Call |-> line[d].priority] EXCEPT ![c] = line'[c].priority]
      BY <3>1
    <3>4. max_id' = IF max_id = none \/ line'[c].priority > line[max_id].priority
                    THEN c ELSE max_id
      BY <2>0, <2>5, <3>1 DEF Subscribe, Outranks
    <3>5. max_id \in Call \/ max_id = none
      BY <2>0 DEF Chosen, IsMaxPriority
    <3>6. line'[c].priority \in Int
      BY <2>0, <2>5, SubscribeFrame DEF Line
    <3>7. Abstract!Register(c)
      BY <3>1, <3>2, <3>3, <3>4, <3>5, <3>6 DEF Abstract!Register
    <3> QED
      BY <3>7 DEF Abstract!Next
  <2>6. CASE Unsubscribe
    <3>1. PICK c \in Call : c = Head(unsubscribe)
      BY <2>0, <2>6, HeadTailProperties DEF Unsubscribe
    <3>2. /\ threads' = threads \ {c} /\ UNCHANGED line
          /\ IsMaxPriority(max_id', threads')
      BY <2>6, <3>1 DEF Unsubscribe, callVars
    <3>3. c \in threads
      <4>1. unsubscribe # <<>> /\ Head(unsubscribe) = unsubscribe[1] /\ 1 \in 1 .. Len(unsubscribe)
        BY <2>0, <2>6, HeadTailProperties, EmptySeq DEF Unsubscribe
      <4> QED
        BY <2>0, <3>1, <4>1 DEF Tabled
    <3>4. \A d \in threads : /\ d \in Call /\ d \in Int /\ d # none
                             /\ line[d].priority \in Int
      BY <2>0 DEF Line, Call
    <3>5. max_id \in threads /\ IsMaxPriority(max_id, threads)
      BY <2>0, <3>3 DEF Chosen, IsMaxPriority
    <3>6. Abstract!Leave(c)
      <4>1. CASE c # max_id
        <5>1. /\ max_id' \in threads' /\ max_id' \in threads
              /\ max_id \in threads' /\ max_id \in threads /\ max_id # none
          BY <3>2, <3>4, <3>5, <4>1 DEF IsMaxPriority
        <5>2. max_id' = max_id
          BY <2>0, <3>2, <3>4, <3>5, <5>1 DEF IsMaxPriority
        <5> QED
          BY <3>2, <3>3, <4>1, <5>2 DEF Abstract!Leave
      <4>2. CASE c = max_id /\ threads' = {}
        <5>1. max_id' = none
          BY <3>2, <4>2 DEF IsMaxPriority
        <5> QED
          BY <3>2, <3>3, <4>2, <5>1 DEF Abstract!Leave
      <4>3. CASE c = max_id /\ threads' # {}
        <5>1. /\ max_id' \in threads'
              /\ \A d \in threads' : line[d].priority <= line[max_id'].priority
          BY <2>0, <3>2, <3>4, <4>3 DEF IsMaxPriority
        <5> QED
          BY <2>0, <3>2, <3>3, <4>3, <5>1 DEF Abstract!Leave, Abstract!Highest
      <4> QED
        BY <4>1, <4>2, <4>3
    <3> QED
      BY <3>6 DEF Abstract!Next
  <2> QED
    BY <2>2, <2>3, <2>4, <2>5, <2>6, Steps
<1> QED
  BY <1>1, <1>2, Invariance, PTL DEF Spec, Implements, Abstract!Spec

=============================================================================
