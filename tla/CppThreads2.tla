---------------------------- MODULE CppThreads2 ----------------------------
(***************************************************************************)
(* The C++ client of client/cpp_client/threads_2/greeter_client.cc.  One   *)
(* scheduler thread reads the input file and starts one thread per line.   *)
(* A call spins on its entry of sleep_map before every number it writes;   *)
(* only the scheduler changes sleep_map, under sleep_mutex.  A call that   *)
(* has its reply puts its id on the unsubscribe queue, and the scheduler   *)
(* joins it and wakes the best of the calls that are left.                 *)
(*                                                                         *)
(* priorities, max_id and max_priority belong to the scheduler alone, so   *)
(* an action covers the code from one access to sleep_map or to the queue  *)
(* to the next.  A call is named by its id, its position in the file.      *)
(*                                                                         *)
(* Every call makes a channel of its own, but gRPC gives the channels to   *)
(* one address one connection, and a server may limit the streams open at  *)
(* a time on a connection: server/go_server/main.go limits them to one.    *)
(***************************************************************************)
EXTENDS Integers, Sequences, FiniteSets

CONSTANTS
  NumCalls,       \* number of lines of the input file
  InputFile,      \* InputFile[i]: the lines that may stand at position i
  StreamLimits    \* streams the server allows a connection: the cases considered

Call == 1 .. NumCalls

\* A priority, drawn from 1..priority_range by generate_input_file.py, and
\* how many numbers there are to average: parse_line yields at least one.
Line == [priority : Nat \ {0}, count : Nat \ {0}]
none == -1
Total_time == 0   \* the last line of the output; a result is a call's id

ASSUME CppThreads2Assumption ==
  /\ NumCalls \in Nat
  /\ InputFile \in [Call -> SUBSET Line]
  /\ StreamLimits \subseteq Nat \ {0}

VARIABLES
  use_scheduler,  \* the --scheduler flag, and
  line,         \* the input file: line[c] is the line call c serves, and
  limit,        \* the number of streams the server allows at a time
  sched,        \* where the scheduler is
  next,         \* id of the next line
  leaving,      \* the id the scheduler has taken off the unsubscribe queue
  priorities,   \* the ids in the priorities map (the priority is line[c].priority)
  max_id, max_priority,
  sleep_map,    \* sleep_map[c]: may c write?
  unsubscribe,  \* the queue
  pc,           \* where the thread of c is, "none" before it is started
  sent,         \* numbers written by c
  output,       \* the output file
  overrun       \* history: numbers written by c since it was put to sleep

config == <<use_scheduler, line, limit>>
schedVars == <<config, sched, next, leaving, priorities, max_id, max_priority>>
callVars == <<sent, output, overrun>>
vars == <<schedVars, sleep_map, unsubscribe, pc, callVars>>

Init ==
  /\ use_scheduler \in BOOLEAN
  /\ line \in {file \in [Call -> UNION {InputFile[c] : c \in Call}] :
                \A c \in Call : file[c] \in InputFile[c]}
  /\ limit \in StreamLimits
  /\ sched = IF NumCalls = 0 THEN "drain" ELSE "read"
  /\ next = 1
  /\ leaving = none
  /\ priorities = {}
  /\ max_id = none
  /\ max_priority = -1
  /\ sleep_map = [c \in Call |-> FALSE]
  /\ unsubscribe = <<>>
  /\ pc = [c \in Call |-> "none"]
  /\ sent = [c \in Call |-> 0]
  /\ output = <<>>
  /\ overrun = [c \in Call |-> 0]

\* Mutant: the id comparison of a tie dropped.
IsMaximumAny(m, table) ==
  \/ table = {} /\ m = none
  \/ /\ m \in table
     /\ \A c \in table : line[m].priority >= line[c].priority

\* get_maximum_priority(): the smallest id of the highest priority.
IsMaximum(m, table) ==
  \/ table = {} /\ m = none
  \/ /\ m \in table
     /\ \A c \in table : \/ line[m].priority > line[c].priority
                         \/ line[m].priority = line[c].priority /\ m <= c

-----------------------------------------------------------------------------
(* scheduler() *)

\* Mutant: a tie preempts.
PreemptsTies(priority) == priority >= max_priority

Preempts(priority) == priority > max_priority

\* subscribe_thread, up to the first change of sleep_map: the line enters
\* priorities, and if it preempts, the call that was best is put to sleep.
Subscribe(c) ==
  /\ sched = "read" /\ c = next
  /\ priorities' = priorities \cup {c}
  /\ \/ /\ use_scheduler /\ Preempts(line[c].priority)
        /\ IF max_id = none
           THEN UNCHANGED <<sleep_map, overrun>>
           ELSE /\ sleep_map' = [sleep_map EXCEPT ![max_id] = FALSE]
                /\ overrun' = [overrun EXCEPT ![max_id] = 0]
        /\ max_id' = c
        /\ max_priority' = line[c].priority
        /\ sched' = "wake"
        /\ UNCHANGED pc
     \/ /\ ~(use_scheduler /\ Preempts(line[c].priority))
        /\ pc' = [pc EXCEPT ![c] = IF use_scheduler THEN "asleep" ELSE "connect"]
        /\ sched' = "poll"
        /\ UNCHANGED <<max_id, max_priority, sleep_map, overrun>>
  /\ UNCHANGED <<config, next, leaving, unsubscribe, sent, output>>

\* The newcomer that preempts is woken, then its thread is started.
Wake ==
  /\ sched = "wake"
  /\ sleep_map' = [sleep_map EXCEPT ![max_id] = TRUE]
  /\ pc' = [pc EXCEPT ![max_id] = "connect"]
  /\ sched' = "poll"
  /\ UNCHANGED <<next, leaving, priorities, max_id, max_priority, unsubscribe,
                 config, callVars>>

\* unsubscribe_thread: after every line, and then for as long as there are
\* calls, look at the queue and take at most one id.
NextLine == IF next < NumCalls THEN "read" ELSE "drain"
AfterPoll ==
  /\ sched' = IF sched = "poll" THEN NextLine ELSE "drain"
  /\ next' = IF sched = "poll" THEN next + 1 ELSE next

PollEmpty ==
  /\ sched = "poll" /\ leaving = none /\ unsubscribe = <<>>
  /\ AfterPoll
  /\ UNCHANGED <<leaving, priorities, max_id, max_priority, sleep_map,
                 unsubscribe, config, pc, callVars>>

Pop ==
  /\ sched = "poll" \/ (sched = "drain" /\ priorities # {})
  /\ leaving = none /\ unsubscribe # <<>>
  /\ leaving' = Head(unsubscribe)
  /\ unsubscribe' = Tail(unsubscribe)
  /\ UNCHANGED <<sched, next, priorities, max_id, max_priority, sleep_map, config,
                 pc, callVars>>

\* Mutant: max_priority is not brought up to date.
ChooseStale(m) ==
  /\ max_id' = m
  /\ max_priority' = IF m = none THEN -1 ELSE max_priority
  /\ sleep_map' = [c \in Call |-> c = m \/ sleep_map[c]]

\* Mutant: the next call is not woken.
ChooseSilently(m) ==
  /\ max_id' = m
  /\ max_priority' = IF m = none THEN -1 ELSE line[m].priority
  /\ UNCHANGED sleep_map

\* The best of the calls that are left is chosen and woken.
Choose(m) ==
  /\ max_id' = m
  /\ max_priority' = IF m = none THEN -1 ELSE line[m].priority
  /\ sleep_map' = [c \in Call |-> c = m \/ sleep_map[c]]

\* Mutant: the thread is detached, not joined.
JoinableAtOnce(c) == c # none

Joinable(c) == c # none /\ pc[c] = "exited"

\* Join the thread, take it out of priorities, wake the best that is left.
Join ==
  /\ Joinable(leaving)
  /\ leaving' = none
  /\ priorities' = priorities \ {leaving}
  /\ \/ /\ use_scheduler
        /\ \E m \in Call \cup {none} : IsMaximum(m, priorities') /\ Choose(m)
     \/ /\ ~use_scheduler
        /\ UNCHANGED <<max_id, max_priority, sleep_map>>
  /\ AfterPoll
  /\ UNCHANGED <<unsubscribe, config, pc, callVars>>

\* No call is left: the total is written and main returns.
Finish ==
  /\ sched = "drain" /\ priorities = {} /\ leaving = none
  /\ output' = Append(output, Total_time)
  /\ sched' = "returned"
  /\ UNCHANGED <<next, leaving, priorities, max_id, max_priority, sleep_map,
                 unsubscribe, config, pc, sent, overrun>>

Scheduler ==
  \/ \E c \in Call : Subscribe(c)
  \/ Wake \/ PollEmpty \/ Pop \/ Join \/ Finish

-----------------------------------------------------------------------------
(* run_rpc() of call c *)

Goto(c, to) == pc' = [pc EXCEPT ![c] = to]

\* should_sleep: one look at sleep_map.
MayRun(c) == use_scheduler => sleep_map[c]

\* A call that starts asleep waits before it opens its channel.
Awaken(c) ==
  /\ pc[c] = "asleep" /\ MayRun(c) /\ Goto(c, "connect")
  /\ UNCHANGED <<sleep_map, unsubscribe, callVars>>

\* sleep_thread in ComputeMean, before the first number.
Connect(c) ==
  /\ pc[c] = "connect" /\ MayRun(c) /\ Goto(c, "open")
  /\ UNCHANGED <<sleep_map, unsubscribe, callVars>>

\* The calls that have a stream on the connection: one that sleeps keeps its.
Open == {c \in Call : pc[c] \in {"write", "wait", "finish"}}

\* stub_->ComputeMean opens the stream, which waits for one of the others to
\* end when the server allows no more.
Stub(c) ==
  /\ pc[c] = "open" /\ Cardinality(Open) < limit /\ Goto(c, "write")
  /\ UNCHANGED <<sleep_map, unsubscribe, callVars>>

\* Mutant: no look at sleep_map between two numbers.
AfterWriteOn(c) == IF sent'[c] < line[c].count THEN "write" ELSE "finish"

\* There is no wait after the last number.
AfterWrite(c) == IF sent'[c] < line[c].count THEN "wait" ELSE "finish"

\* One Write.
Write(c) ==
  /\ pc[c] = "write"
  /\ sent' = [sent EXCEPT ![c] = @ + 1]
  /\ overrun' = [overrun EXCEPT ![c] = IF sleep_map[c] THEN 0 ELSE @ + 1]
  /\ Goto(c, AfterWrite(c))
  /\ UNCHANGED <<sleep_map, unsubscribe, output>>

\* A Write that fails breaks the stream off.
Broken(c) ==
  /\ pc[c] = "write" /\ Goto(c, "finish")
  /\ UNCHANGED <<sleep_map, unsubscribe, callVars>>

\* sleep_thread between two numbers.
Wait(c) ==
  /\ pc[c] = "wait" /\ MayRun(c) /\ Goto(c, "write")
  /\ UNCHANGED <<sleep_map, unsubscribe, callVars>>

\* Mutant: ids count from zero on this side of the queue.
UnsubscribeZeroBased(c) ==
  /\ pc[c] = "finish" /\ Goto(c, "report")
  /\ unsubscribe' = Append(unsubscribe, c - 1)
  /\ UNCHANGED <<sleep_map, callVars>>

\* The reply, or the error, is there: unsubscribe.
Unsubscribe(c) ==
  /\ pc[c] = "finish" /\ Goto(c, "report")
  /\ unsubscribe' = Append(unsubscribe, c)
  /\ UNCHANGED <<sleep_map, callVars>>

\* The result goes to the output file and the thread ends.
Report(c) ==
  /\ pc[c] = "report" /\ Goto(c, "exited")
  /\ output' = Append(output, c)
  /\ UNCHANGED <<sleep_map, unsubscribe, sent, overrun>>

RunRpc(c) ==
  /\ \/ Awaken(c) \/ Connect(c) \/ Stub(c) \/ Write(c) \/ Wait(c)
     \/ Unsubscribe(c) \/ Report(c)
  /\ UNCHANGED schedVars

Failure(c) == Broken(c) /\ UNCHANGED schedVars

-----------------------------------------------------------------------------
Returned == sched = "returned" /\ UNCHANGED vars

Next ==
  \/ Scheduler
  \/ \E c \in Call : RunRpc(c) \/ Failure(c)
  \/ Returned

Spec == Init /\ [][Next]_vars

\* The kernel runs every thread, spinning or not, and a gRPC operation
\* returns.
FairSpec ==
  /\ Spec
  /\ WF_vars(Scheduler)
  /\ \A c \in Call : WF_vars(RunRpc(c))

-----------------------------------------------------------------------------
(* Properties *)

TypeOK ==
  /\ use_scheduler \in BOOLEAN
  /\ limit \in Nat \ {0}
  /\ sched \in {"read", "wake", "poll", "drain", "returned"}
  /\ next \in 1 .. NumCalls + 1
  /\ leaving \in Call \cup {none}
  /\ priorities \in SUBSET Call
  /\ max_id \in Call \cup {none}
  /\ max_priority \in Nat \cup {-1}
  /\ sleep_map \in [Call -> BOOLEAN]
  /\ unsubscribe \in Seq(Call)
  /\ line \in [Call -> Line]
  /\ pc \in [Call -> {"none", "asleep", "connect", "open", "write", "wait",
                      "finish", "report", "exited"}]
  /\ sent \in [Call -> Nat]
  /\ output \in Seq(Call \cup {Total_time})
  /\ overrun \in [Call -> Nat]

\* Between two decisions of the scheduler, the two cached values and
\* sleep_map agree with the table: the best call, and no other call of the
\* table, is awake.
OnlyTheBestIsAwake ==
  use_scheduler /\ sched # "wake" =>
    /\ IsMaximum(max_id, priorities)
    /\ max_priority = IF max_id = none THEN -1 ELSE line[max_id].priority
    /\ \A c \in priorities : sleep_map[c] <=> c = max_id

\* A call writes at most one more number after it has been put to sleep: the
\* one whose look at sleep_map came before.
OneMoreWrite == use_scheduler => \A c \in Call : overrun[c] <= 1

\* Calls of one priority run serially, in the order of the file: the next
\* writes nothing before the earlier one has its result in the output file.
SerialWithinPriority ==
  use_scheduler =>
    \A c, d \in Call :
      /\ c < d /\ line[c].priority = line[d].priority
      /\ pc[c] # "exited" /\ pc[d] # "none"
      => sent[d] = 0 /\ pc[d] # "write"

\* The total is the last thing in the output file, after one result per line:
\* the thread reports after it has unsubscribed, but it is joined first.
TotalIsLast ==
  sched = "returned" =>
    /\ Len(output) = NumCalls + 1
    /\ output[NumCalls + 1] = Total_time
    /\ \A c \in Call : \E i \in 1 .. NumCalls : output[i] = c

\* The call that is to run waits for a stream, and one that has been put to
\* sleep has it.
StreamHeld ==
  /\ use_scheduler /\ max_id # none /\ pc[max_id] = "open"
  /\ Cardinality(Open) = limit
  /\ \A c \in Open : pc[c] = "wait" /\ ~sleep_map[c]

\* The client ends: with the scheduler as the only writer of sleep_map no
\* wake-up is lost, and a broken stream still unsubscribes; unless sleeping
\* calls hold every stream the server allows.
EndsUnlessStreamHeld == <>(sched = "returned") \/ <>[]StreamHeld

\* What the scheduler promises (module PriorityGrant); without --scheduler
\* no call registers with it.
Abstract == INSTANCE PriorityGrant WITH
  Id <- Call, None <- none,
  registered <- IF use_scheduler THEN priorities ELSE {},
  priority <- [c \in Call |-> line[c].priority],
  granted <- max_id

Implements == Abstract!Spec

=============================================================================
