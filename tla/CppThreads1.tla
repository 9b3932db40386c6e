---------------------------- MODULE CppThreads1 ----------------------------
(***************************************************************************)
(* The C++ client of client/cpp_client/threads_1/greeter_client.cc.  main  *)
(* starts one thread per line of the input file and a scheduler thread.    *)
(* A call subscribes itself, marks itself asleep in sleep_map and spins on *)
(* that entry before every number it writes; the scheduler takes the two   *)
(* queues in turn, puts the running call to sleep and wakes the best one.  *)
(* With --timeout a call stops sleeping when it has waited long enough.    *)
(*                                                                         *)
(* Both sides write sleep_map.  The vector priorities, max_id, running_id  *)
(* and max_priority belong to the scheduler alone, so an action covers the *)
(* code from one access to shared state to the next.  A thread id is the   *)
(* position of its line in the file: ids are not reused, because main      *)
(* joins the threads last.                                                 *)
(*                                                                         *)
(* Every call makes a channel of its own, but gRPC gives the channels to   *)
(* one address one connection, and a server may limit the streams open at  *)
(* a time on a connection: server/go_server/main.go limits them to one.    *)
(***************************************************************************)
EXTENDS Integers, SequencesExt

CONSTANTS
  NumCalls,       \* the most lines an input file has
  Inputs          \* the inputs and environments considered, see Input

Call == 1 .. NumCalls

\* A priority, drawn from 1..priority_range by generate_input_file.py, and
\* how many numbers there are to average: parse_line yields at least one.
Line == [priority : Nat \ {0}, count : Nat \ {0}]
none == -1

\* The flags --scheduler and --timeout and the lines of the input file; may the
\* scheduler pop an id that is still being pushed?  How many streams does the
\* server allow at a time?
Input == [scheduler : BOOLEAN, timeout : BOOLEAN, line : Seq(Line),
          torn : BOOLEAN, limit : Nat \ {0}]

ASSUME CppThreads1Assumption ==
  /\ NumCalls \in Nat
  /\ \A i \in Inputs : i \in Input /\ Len(i.line) <= NumCalls

VARIABLES
  input,        \* the flags, the input file and the environment
  main,         \* "start" (threads), "join" (them), "stop" (the scheduler), "returned"
  started,      \* threads started
  stop_scheduler,
  sched,        \* where the scheduler's loop is
  priorities,   \* the vector: ids in the order of subscription
  max_id, running_id, max_priority,
  subscribe, unsubscribe,  \* the queues
  sleep_map,    \* sleep_map[c]: may c write?  No entry is as good as 0.
  pc,           \* where the thread of c is, "none" before it is started
  sent,         \* numbers written by c
  expired,      \* has c slept longer than time_out_times allows?
  overrun       \* history: numbers written by c since it was put to sleep

use_scheduler == input.scheduler
timeout == input.timeout
line == input.line

mainVars == <<input, main, started, stop_scheduler>>
choiceVars == <<priorities, max_id, max_priority>>
queueVars == <<subscribe, unsubscribe>>
callVars == <<sent, expired, overrun>>
vars == <<mainVars, sched, choiceVars, running_id, queueVars, sleep_map, pc,
          callVars>>

Init ==
  /\ input \in Inputs
  /\ main = "start" /\ started = 0 /\ stop_scheduler = FALSE
  /\ sched = IF use_scheduler THEN "unsubscribe" ELSE "none"
  /\ priorities = <<>>
  /\ max_id = none /\ running_id = none /\ max_priority = -1
  /\ subscribe = <<>> /\ unsubscribe = <<>>
  /\ sleep_map = [c \in Call |-> FALSE]
  /\ pc = [c \in Call |-> "none"]
  /\ sent = [c \in Call |-> 0]
  /\ expired = [c \in Call |-> FALSE]
  /\ overrun = [c \in Call |-> 0]

-----------------------------------------------------------------------------
(* main() *)

\* One line is read and its thread started.
Start(c) ==
  /\ main = "start" /\ c = started + 1 /\ c <= Len(line)
  /\ started' = c
  /\ pc' = [pc EXCEPT ![c] = IF use_scheduler THEN "subscribe" ELSE "open"]
  /\ UNCHANGED <<input, main, stop_scheduler>>

EndOfFile ==
  /\ main = "start" /\ started = Len(line)
  /\ main' = "join"
  /\ UNCHANGED <<input, started, stop_scheduler, pc>>

\* Every thread has been joined: stop the scheduler, if there is one.
Joined ==
  /\ main = "join" /\ \A c \in DOMAIN line : pc[c] = "exited"
  /\ stop_scheduler' = use_scheduler
  /\ main' = IF use_scheduler THEN "stop" ELSE "returned"
  /\ UNCHANGED <<input, started, pc>>

\* The scheduler has been joined too.
Return ==
  /\ main = "stop" /\ sched = "exited"
  /\ main' = "returned"
  /\ UNCHANGED <<input, started, stop_scheduler, pc>>

Main ==
  /\ (\E c \in Call : Start(c)) \/ EndOfFile \/ Joined \/ Return
  /\ UNCHANGED <<sched, choiceVars, running_id, queueVars, sleep_map, callVars>>

-----------------------------------------------------------------------------
(* scheduler() *)

Priority(m) == IF m = none THEN -1 ELSE line[m].priority

\* Mutant: >= instead of >, the latest of the best.
MaximumLatest(table) ==
  IF table = <<>> THEN none
  ELSE table[CHOOSE i \in DOMAIN table :
               \A j \in DOMAIN table : \/ Priority(table[j]) < Priority(table[i])
                                       \/ Priority(table[j]) = Priority(table[i]) /\ j <= i]

\* get_maximum_priority(): the first of the highest priority in the vector.
Maximum(table) ==
  IF table = <<>> THEN none
  ELSE table[CHOOSE i \in DOMAIN table :
               \A j \in DOMAIN table : \/ Priority(table[j]) < Priority(table[i])
                                       \/ Priority(table[j]) = Priority(table[i]) /\ i <= j]

\* A turn of the loop that finds nothing to do at this place.
Pass(from, to) ==
  /\ sched = from /\ sched' = to
  /\ UNCHANGED <<choiceVars, running_id, queueVars, sleep_map, overrun>>

Stop == stop_scheduler /\ Pass("unsubscribe", "exited")

NoUnsubscribe ==
  ~stop_scheduler /\ unsubscribe = <<>> /\ Pass("unsubscribe", "subscribe")

\* unsubscribe_thread(): the first entry of the id, if there is one, is erased.
UnsubscribeThread ==
  /\ sched = "unsubscribe" /\ ~stop_scheduler /\ unsubscribe # <<>>
  /\ LET id == Head(unsubscribe) IN
       /\ priorities' = RemoveFirst(priorities, id)
       /\ sleep_map' = [c \in Call |-> c # id /\ sleep_map[c]]
       /\ running_id' = IF running_id = id THEN none ELSE running_id
  /\ unsubscribe' = Tail(unsubscribe)
  /\ max_id' = Maximum(priorities')
  /\ max_priority' = Priority(max_id')
  /\ sched' = "subscribe"
  /\ UNCHANGED <<subscribe, overrun>>

NoSubscribe == subscribe = <<>> /\ Pass("subscribe", "decide")

\* Mutant: a tie preempts.
OutranksOrTies(id) == max_id = none \/ Priority(id) >= max_priority

Outranks(id) == max_id = none \/ Priority(id) > max_priority

\* subscribe_thread(): a newcomer that outranks becomes max_id.
SubscribeThread ==
  /\ sched = "subscribe" /\ subscribe # <<>>
  /\ LET id == Head(subscribe) IN
       /\ priorities' = Append(priorities, id)
       /\ sleep_map' = [sleep_map EXCEPT ![id] = FALSE]
       /\ IF Outranks(id)
          THEN max_id' = id /\ max_priority' = Priority(id)
          ELSE UNCHANGED <<max_id, max_priority>>
  /\ subscribe' = Tail(subscribe)
  /\ sched' = "decide"
  /\ UNCHANGED <<running_id, unsubscribe, overrun>>

Keep == max_id = none \/ max_id = running_id

\* Mutant: the running call is left awake.
SendToNoSleep(id) == UNCHANGED sleep_map

SendToSleep(id) == sleep_map' = [c \in Call |-> c # id /\ sleep_map[c]]

\* If the best call is not the one that runs, put that one to sleep first ...
Decide ==
  /\ sched = "decide" /\ ~Keep
  /\ sched' = "wake"
  /\ SendToSleep(running_id)
  /\ overrun' = [c \in Call |-> IF c = running_id THEN 0 ELSE overrun[c]]
  /\ UNCHANGED <<choiceVars, running_id, queueVars>>

NothingToDecide == Keep /\ Pass("decide", "unsubscribe")

\* ... and wake the best.
WakeUp ==
  /\ sched = "wake"
  /\ sleep_map' = [sleep_map EXCEPT ![max_id] = TRUE]
  /\ running_id' = max_id
  /\ sched' = "unsubscribe"
  /\ UNCHANGED <<choiceVars, queueVars, overrun>>

Scheduler ==
  /\ \/ Stop \/ NoUnsubscribe \/ UnsubscribeThread
     \/ NoSubscribe \/ SubscribeThread \/ Decide \/ NothingToDecide \/ WakeUp
  /\ UNCHANGED <<mainVars, pc, sent, expired>>

-----------------------------------------------------------------------------
(* run_rpc() of call c *)

Goto(c, to) == pc' = [pc EXCEPT ![c] = to]

\* Mutant: ids count from zero on this side of the queue.
SubscribeZeroBased(c) ==
  /\ pc[c] = "subscribe" /\ Goto(c, "clear")
  /\ subscribe' = Append(subscribe, c - 1)
  /\ UNCHANGED <<unsubscribe, sleep_map, callVars>>

Subscribe(c) ==
  /\ pc[c] = "subscribe" /\ Goto(c, "clear")
  /\ subscribe' = Append(subscribe, c)
  /\ UNCHANGED <<unsubscribe, sleep_map, callVars>>

\* The call marks itself asleep, whatever the scheduler has written since the
\* call subscribed.
Clear(c) ==
  /\ pc[c] = "clear" /\ Goto(c, "sleep")
  /\ sleep_map' = [sleep_map EXCEPT ![c] = FALSE]
  /\ UNCHANGED <<queueVars, callVars>>

\* sleep_thread() returns: before the channel is created, before the stub is
\* used, and before every number.
Awake(c) == sleep_map[c] \/ expired[c]

\* A step of c that changes nothing but its place.
Move(c, from, to) ==
  /\ pc[c] = from /\ Goto(c, to)
  /\ UNCHANGED <<queueVars, sleep_map, callVars>>

Channel(c) == Awake(c) /\ Move(c, "sleep", "stub")

Stub(c) == Awake(c) /\ Move(c, "stub", "open")

\* The calls that have a stream on the connection: one that sleeps keeps its.
Open == {c \in Call : pc[c] \in {"check", "write", "finish"}}

\* stub_->ComputeMean opens the stream, which waits for one of the others to
\* end when the server allows no more.
OpenStream(c) ==
  /\ Cardinality(Open) < input.limit
  /\ Move(c, "open", IF use_scheduler THEN "check" ELSE "write")

Check(c) == Awake(c) /\ Move(c, "check", "write")

\* Mutant: no look at sleep_map between two numbers.
AfterWriteOn(c) == IF sent'[c] = line[c].count THEN "finish" ELSE "write"

AfterWrite(c) ==
  IF sent'[c] = line[c].count THEN "finish"
  ELSE IF use_scheduler THEN "check" ELSE "write"

Write(c) ==
  /\ pc[c] = "write"
  /\ sent' = [sent EXCEPT ![c] = @ + 1]
  /\ overrun' = [overrun EXCEPT ![c] = IF sleep_map[c] THEN 0 ELSE @ + 1]
  /\ Goto(c, AfterWrite(c))
  /\ UNCHANGED <<queueVars, sleep_map, expired>>

\* A Write that fails breaks the stream off.
Broken(c) == Move(c, "write", "finish")

\* Mutant: a broken stream returns at once.
FinishWhole(c) ==
  Move(c, "finish", IF use_scheduler /\ sent[c] = line[c].count
                    THEN "unsubscribe" ELSE "exited")

\* The reply, or the error, is there and goes to the output file.
Finish(c) == Move(c, "finish", IF use_scheduler THEN "unsubscribe" ELSE "exited")

\* unsubscribe.push(id) is made under subscribe_mutex, the scheduler pops
\* under unsubscribe_mutex: nothing orders the two, and the scheduler may find
\* the new length and not yet the id.
Unsubscribe(c) ==
  /\ pc[c] = "unsubscribe" /\ Goto(c, "exited")
  /\ \/ unsubscribe' = Append(unsubscribe, c)
     \/ input.torn /\ unsubscribe' = Append(unsubscribe, none)
  /\ UNCHANGED <<subscribe, sleep_map, callVars>>

RunRpc(c) ==
  \/ Subscribe(c) \/ Clear(c) \/ Channel(c) \/ Stub(c) \/ OpenStream(c)
  \/ Check(c) \/ Write(c) \/ Finish(c) \/ Unsubscribe(c)

\* Time passes for a sleeping call.
Expire(c) ==
  /\ timeout /\ pc[c] \in {"sleep", "stub", "check"} /\ ~expired[c]
  /\ expired' = [expired EXCEPT ![c] = TRUE]
  /\ UNCHANGED <<queueVars, sleep_map, pc, sent, overrun>>

Step(c) == RunRpc(c) /\ UNCHANGED <<mainVars, sched, choiceVars, running_id>>

Timer(c) == Expire(c) /\ UNCHANGED <<mainVars, sched, choiceVars, running_id>>

Failure(c) == Broken(c) /\ UNCHANGED <<mainVars, sched, choiceVars, running_id>>

-----------------------------------------------------------------------------
Returned == main = "returned" /\ UNCHANGED vars

Next ==
  \/ Main
  \/ Scheduler
  \/ \E c \in Call : Step(c) \/ Timer(c) \/ Failure(c)
  \/ Returned

Spec == Init /\ [][Next]_vars

\* The kernel runs every thread, spinning or not, a gRPC operation returns,
\* and time passes.
FairSpec ==
  /\ Spec
  /\ WF_vars(Main)
  /\ WF_vars(Scheduler)
  /\ \A c \in Call : WF_vars(Step(c)) /\ WF_vars(Timer(c))

-----------------------------------------------------------------------------
(* Properties *)

TypeOK ==
  /\ input \in Input
  /\ main \in {"start", "join", "stop", "returned"}
  /\ started \in 0 .. NumCalls
  /\ stop_scheduler \in BOOLEAN
  /\ sched \in {"none", "unsubscribe", "subscribe", "decide", "wake", "exited"}
  /\ priorities \in Seq(Call)
  /\ {max_id, running_id} \subseteq Call \cup {none}
  /\ max_priority \in Nat \cup {-1}
  /\ subscribe \in Seq(Call)
  /\ unsubscribe \in Seq(Call \cup {none})
  /\ sleep_map \in [Call -> BOOLEAN]
  /\ pc \in [Call -> {"none", "subscribe", "clear", "sleep", "stub", "open",
                      "check", "write", "finish", "unsubscribe", "exited"}]
  /\ sent \in [Call -> Nat]
  /\ expired \in [Call -> BOOLEAN]
  /\ overrun \in [Call -> Nat]

\* The cached max_id and max_priority are those of the first call of the
\* highest priority in the vector, through every order of subscriptions and
\* departures.
MaxIsFirstOfHighest ==
  IF priorities = <<>>
  THEN max_id = none /\ max_priority = -1
  ELSE \E i \in DOMAIN priorities :
         /\ max_id = priorities[i] /\ max_priority = line[max_id].priority
         /\ \A j \in DOMAIN priorities :
              /\ line[priorities[j]].priority <= max_priority
              /\ j < i => line[priorities[j]].priority < max_priority

\* Both sides write sleep_map, but at most one call is ever awake in it: the
\* one the scheduler takes to be running.
AtMostOneAwake == \A c \in Call : sleep_map[c] => c = running_id

\* A call that has not timed out writes at most one more number after it has
\* been put to sleep: the one whose look at sleep_map came before.
OneMoreWrite ==
  use_scheduler => \A c \in Call : overrun[c] <= 1 \/ expired[c]

\* Calls of one priority run serially, in the order of subscription: while an
\* earlier one is in the vector, a later one that has not timed out writes
\* nothing.
SerialWithinPriority ==
  \A i, j \in DOMAIN priorities :
    LET c == priorities[i]  d == priorities[j] IN
      /\ i < j /\ line[c].priority = line[d].priority /\ ~expired[d]
      => sent[d] = 0 /\ pc[d] # "write"

\* A thread that has ended leaves the vector: the scheduler sees its
\* subscription before its departure, although it takes the departures first.
\* A call that times out can be faster than its own subscription, and an id
\* that is popped before it is there is lost.
NoGhost ==
  ~timeout /\ ~input.torn =>
  \A i \in DOMAIN priorities :
    pc[priorities[i]] = "exited" =>
      \E j \in DOMAIN unsubscribe : unsubscribe[j] = priorities[i]

\* The client ends.
Terminates == <>(main = "returned")

\* The scheduler has woken a call, and the call has then marked itself
\* asleep: each waits for the other.
LostWakeUp ==
  /\ running_id # none /\ max_id = running_id
  /\ pc[running_id] = "sleep" /\ ~sleep_map[running_id]

\* The call that is to run waits for a stream, and those that have one sleep.
StreamHeld ==
  /\ use_scheduler /\ max_id # none /\ pc[max_id] = "open"
  /\ Cardinality(Open) = input.limit
  /\ \A c \in Open : pc[c] = "check" /\ ~Awake(c)

\* A call that has ended is still the best: its departure was popped before it
\* was there.
Ghost == input.torn /\ max_id # none /\ pc[max_id] = "exited" /\ unsubscribe = <<>>

\* Without --timeout there are three ways not to end; with it there is none.
EndsUnlessStuck ==
  \/ <>(main = "returned")
  \/ ~timeout /\ <>[](LostWakeUp \/ StreamHeld \/ Ghost)

\* What the scheduler promises (module PriorityGrant).
Abstract == INSTANCE PriorityGrant WITH
  Id <- Call, None <- none,
  registered <- {priorities[i] : i \in DOMAIN priorities},
  priority <- [c \in Call |-> IF c \in DOMAIN line THEN line[c].priority ELSE 0],
  granted <- max_id

Implements == Abstract!Spec

=============================================================================
