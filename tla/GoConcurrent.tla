---------------------------- MODULE GoConcurrent ----------------------------
(***************************************************************************)
(* The Go client of client/go_client/go_concurrent/main.go, in which all   *)
(* calls of the highest priority run at the same time.  As in GoClient,    *)
(* main, the scheduler and one goroutine per call share bounded channels;  *)
(* the scheduler keeps the calls in groups by priority and tells whole     *)
(* groups to run (TRUE) or to pause (FALSE), one member after the other.   *)
(* The result of a call is written by a goroutine of its own, for which    *)
(* nobody waits.                                                           *)
(***************************************************************************)
EXTENDS Integers, Sequences, FiniteSets

CONSTANTS
  NumCalls,       \* number of lines of the input file
  InputFile,      \* InputFile[i]: the lines that may stand at position i
  SubscribeCap,   \* capacity of the subscribe channel (100 in the code)
  UnsubscribeCap, \* capacity of the unsubscribe channel (100 in the code)
  StateCap,       \* capacity of a state channel (2 in the code)
  SchedulerFlag   \* the values of --scheduler to be considered

Call == 1 .. NumCalls

\* A priority (1..priority_range in generate_input_file.py) and how many
\* numbers there are to average; 0 stands for a list that does not parse.
Line == [priority : Nat \ {0}, count : Nat]

ASSUME GoConcurrentAssumption ==
  /\ NumCalls \in Nat
  /\ InputFile \in [Call -> SUBSET Line]
  /\ {SubscribeCap, UnsubscribeCap, StateCap} \subseteq Nat \ {0}
  /\ SchedulerFlag \subseteq BOOLEAN

VARIABLES
  use_scheduler, \* the --scheduler flag, and
  line,        \* the input file: line[c] is the line of call c
  main,        \* where main() is: reading lines, or in wg.Wait()
  scanned,     \* lines read so far
  wg,          \* the WaitGroup counter
  exit,        \* "running", or how the process ended: "returned", "panic" (of
               \* a bad line) or "failed" (the server or a file)
  subscribe, unsubscribe,  \* channels of ids (a line's id is its position)
  state,       \* state[c]: the state channel of c
  sched,       \* "select", or which command set_channels is sending
  todo,        \* the members of the group set_channels has still to tell
  id,          \* the id of the next line
  table,       \* the calls in priorities_and_threads
  max_priority,
  pc,          \* pc[c]: where goroutine c is, "none" before it exists
  active,      \* active[c]: the goroutine's own flag
  sent,        \* sent[c]: numbers sent so far
  writing,     \* calls whose write_to_file goroutine has not run yet
  written,     \* calls whose result is in the output file
  overrun      \* history: sends of c since it was last told to pause

config == <<use_scheduler, line>>
mainVars == <<main, scanned>>
schedVars == <<sched, todo, id, table, max_priority>>
callVars == <<pc, active, sent, writing>>
vars == <<use_scheduler, line, main, scanned, wg, exit, subscribe, unsubscribe,
          state, sched, todo, id, table, max_priority, pc, active, sent, writing,
          written, overrun>>

Init ==
  /\ use_scheduler \in SchedulerFlag
  /\ line \in {file \in [Call -> UNION {InputFile[c] : c \in Call}] :
                \A c \in Call : file[c] \in InputFile[c]}
  /\ main = "scan" /\ scanned = 0 /\ wg = NumCalls /\ exit = "running"
  /\ subscribe = <<>> /\ unsubscribe = <<>>
  /\ state = [c \in Call |-> <<>>]
  /\ sched = "select" /\ todo = {} /\ id = 1 /\ table = {} /\ max_priority = 0
  /\ pc = [c \in Call |-> "none"]
  /\ active = [c \in Call |-> FALSE]
  /\ sent = [c \in Call |-> 0]
  /\ writing = {} /\ written = {}
  /\ overrun = [c \in Call |-> 0]

\* The flag goroutine c will hold once it has read its state channel.
Effective(c) ==
  IF state[c] = <<>> THEN active[c] ELSE state[c][Len(state[c])]

Group(p, calls) == {c \in calls : line[c].priority = p}

\* Mutant: the comparison reversed.
GetMinPriority(calls) ==
  IF calls = {} THEN 0
  ELSE CHOOSE p \in {line[c].priority : c \in calls} :
         \A c \in calls : line[c].priority >= p

\* get_max_priority(): 0 for no group.
GetMaxPriority(calls) ==
  IF calls = {} THEN 0
  ELSE CHOOSE p \in {line[c].priority : c \in calls} :
         \A c \in calls : line[c].priority <= p

-----------------------------------------------------------------------------
(* main() *)

\* One turn of the reading loop: parse_line, then the send, which blocks
\* while the subscribe channel is full.
ReadLine ==
  /\ main = "scan" /\ scanned < NumCalls
  /\ line[scanned + 1].count > 0
  /\ Len(subscribe) < SubscribeCap
  /\ subscribe' = Append(subscribe, scanned + 1)
  /\ scanned' = scanned + 1
  /\ UNCHANGED <<config, main, wg, exit, unsubscribe, state, schedVars, callVars,
                 written, overrun>>

\* parse_line panics on a number list that does not parse.
ParsePanic ==
  /\ main = "scan" /\ scanned < NumCalls
  /\ line[scanned + 1].count = 0
  /\ exit' = "panic"
  /\ UNCHANGED <<config, mainVars, wg, subscribe, unsubscribe, state, schedVars,
                 callVars, written, overrun>>

EndOfFile ==
  /\ main = "scan" /\ scanned = NumCalls
  /\ main' = "wait"
  /\ UNCHANGED <<config, scanned, wg, exit, subscribe, unsubscribe, state,
                 schedVars, callVars, written, overrun>>

\* wg.Wait() returns, the total is written (or see MainFails) and the process
\* ends, whatever the other goroutines are doing.
Return ==
  /\ main = "wait" /\ wg = 0
  /\ exit' = "returned"
  /\ UNCHANGED <<config, mainVars, wg, subscribe, unsubscribe, state, schedVars,
                 callVars, written, overrun>>

\* A panic: the input file cannot be opened, or read on (an error leaves an
\* empty line, which parse_line cannot index), or the output file cannot be
\* opened or written for the total.
MainFails ==
  /\ exit = "running"
  /\ main = "scan" \/ wg = 0
  /\ exit' = "failed"
  /\ UNCHANGED <<config, mainVars, wg, subscribe, unsubscribe, state, schedVars,
                 callVars, written, overrun>>

Main == exit = "running" /\ (ReadLine \/ ParsePanic \/ EndOfFile \/ Return)

-----------------------------------------------------------------------------
(* scheduler() *)

\* The newcomer's goroutine is started, active or not.
Start(c, a) ==
  /\ pc' = [pc EXCEPT ![c] = "open"]
  /\ active' = [active EXCEPT ![c] = a]
  /\ id' = c + 1

\* case subscribe_elem: the newcomer joins its group.  If it outranks the
\* current group, that group is told to pause first.
Subscribe ==
  /\ sched = "select" /\ subscribe # <<>>
  /\ subscribe' = Tail(subscribe)
  /\ LET c == Head(subscribe)  priority == line[c].priority IN
       \/ /\ ~use_scheduler
          /\ Start(c, TRUE)
          /\ UNCHANGED <<sched, todo, table, max_priority>>
       \/ /\ use_scheduler /\ max_priority \in {0, priority}
          /\ table' = table \cup {c} /\ max_priority' = priority
          /\ Start(c, TRUE)
          /\ UNCHANGED <<sched, todo>>
       \/ /\ use_scheduler /\ 0 < max_priority /\ max_priority < priority
          /\ table' = table \cup {c}
          /\ sched' = "pause" /\ todo' = Group(max_priority, table)
          /\ UNCHANGED <<id, max_priority, pc, active>>
       \/ /\ use_scheduler /\ priority < max_priority
          /\ table' = table \cup {c}
          /\ Start(c, FALSE)
          /\ UNCHANGED <<sched, todo, max_priority>>
  /\ UNCHANGED <<config, mainVars, wg, exit, unsubscribe, state, sent, writing,
                 written, overrun>>

\* set_channels(): one command to one member, in the order the map yields;
\* blocks while that member's channel is full.
SetChannel(c) ==
  /\ c \in todo /\ todo' = todo \ {c}
  /\ Len(state[c]) < StateCap
  /\ state' = [state EXCEPT ![c] = Append(@, sched = "run")]
  /\ overrun' = [overrun EXCEPT ![c] = 0]
  /\ UNCHANGED <<config, mainVars, wg, exit, subscribe, unsubscribe, sched, id,
                 table, max_priority, callVars, written>>

\* Mutant: max_priority = priority is forgotten.
PausedStale ==
  /\ sched = "pause" /\ todo = {}
  /\ Start(id, TRUE)
  /\ sched' = "select"
  /\ UNCHANGED <<config, mainVars, wg, exit, subscribe, unsubscribe, state, todo,
                 table, max_priority, sent, writing, written, overrun>>

\* set_channels(max_priority, false) returns: start the newcomer.
Paused ==
  /\ sched = "pause" /\ todo = {}
  /\ Start(id, TRUE)
  /\ max_priority' = line[id].priority
  /\ sched' = "select"
  /\ UNCHANGED <<config, mainVars, wg, exit, subscribe, unsubscribe, state, todo,
                 table, sent, writing, written, overrun>>

\* set_channels(max_priority, true) returns.
Resumed ==
  /\ sched = "run" /\ todo = {}
  /\ sched' = "select"
  /\ UNCHANGED <<config, mainVars, wg, exit, subscribe, unsubscribe, state, todo,
                 id, table, max_priority, callVars, written, overrun>>

\* Mutant: the group that is chosen is not told.
UnsubscribeSilently ==
  /\ sched = "select" /\ unsubscribe # <<>>
  /\ unsubscribe' = Tail(unsubscribe)
  /\ LET c == Head(unsubscribe) IN
       /\ table' = table \ {c}
       /\ \/ /\ Group(line[c].priority, table') # {}
             /\ UNCHANGED <<sched, todo, max_priority>>
          \/ /\ Group(line[c].priority, table') = {}
             /\ max_priority' = GetMaxPriority(table')
             /\ sched' = "run" /\ todo' = {}
  /\ UNCHANGED <<config, mainVars, wg, exit, subscribe, state, id, callVars,
                 written, overrun>>

\* case unsubscribe_id: if a group is empty now, whichever it is, choose the
\* highest and tell all of it to run.
Unsubscribe ==
  /\ sched = "select" /\ unsubscribe # <<>>
  /\ unsubscribe' = Tail(unsubscribe)
  /\ LET c == Head(unsubscribe) IN
       /\ table' = table \ {c}
       /\ \/ /\ Group(line[c].priority, table') # {}
             /\ UNCHANGED <<sched, todo, max_priority>>
          \/ /\ Group(line[c].priority, table') = {}
             /\ max_priority' = GetMaxPriority(table')
             /\ sched' = "run" /\ todo' = Group(max_priority', table')
  /\ UNCHANGED <<config, mainVars, wg, exit, subscribe, state, id, callVars,
                 written, overrun>>

Scheduler ==
  /\ exit = "running"
  /\ \/ Subscribe \/ Paused \/ Resumed \/ Unsubscribe
     \/ \E c \in Call : SetChannel(c)

-----------------------------------------------------------------------------
(* thread(): the goroutine of call c *)

Goto(c, to) == pc' = [pc EXCEPT ![c] = to]
Looping(c) == pc[c] = "loop" /\ sent[c] < line[c].count

\* Dial and open the stream.
Open(c) ==
  /\ pc[c] = "open" /\ Goto(c, "loop")
  /\ UNCHANGED <<active, sent, writing, state, unsubscribe, wg, overrun>>

\* An active goroutine takes a command if there is one, and goes on.
GoOn(c) ==
  /\ Looping(c) /\ active[c] /\ state[c] = <<>>
  /\ Goto(c, "send")
  /\ UNCHANGED <<active, sent, writing, state, unsubscribe, wg, overrun>>

\* Mutant: a goroutine told to pause sends its number first.
TakeCommandSending(c) ==
  /\ Looping(c) /\ active[c] /\ state[c] # <<>>
  /\ active' = [active EXCEPT ![c] = Head(state[c])]
  /\ state' = [state EXCEPT ![c] = Tail(@)]
  /\ Goto(c, "send")
  /\ UNCHANGED <<sent, writing, unsubscribe, wg, overrun>>

TakeCommand(c) ==
  /\ Looping(c) /\ active[c] /\ state[c] # <<>>
  /\ active' = [active EXCEPT ![c] = Head(state[c])]
  /\ state' = [state EXCEPT ![c] = Tail(@)]
  /\ Goto(c, IF Head(state[c]) THEN "send" ELSE "loop")
  /\ UNCHANGED <<sent, writing, unsubscribe, wg, overrun>>

\* A paused goroutine waits for a command and then sends, whatever it was.
Await(c) ==
  /\ Looping(c) /\ ~active[c] /\ state[c] # <<>>
  /\ active' = [active EXCEPT ![c] = Head(state[c])]
  /\ state' = [state EXCEPT ![c] = Tail(@)]
  /\ Goto(c, "send")
  /\ UNCHANGED <<sent, writing, unsubscribe, wg, overrun>>

Send(c) ==
  /\ pc[c] = "send" /\ Goto(c, "loop")
  /\ sent' = [sent EXCEPT ![c] = @ + 1]
  /\ overrun' = [overrun EXCEPT ![c] = IF Effective(c) THEN 0 ELSE @ + 1]
  /\ UNCHANGED <<active, writing, state, unsubscribe, wg>>

\* CloseAndRecv.
Close(c) ==
  /\ pc[c] = "loop" /\ sent[c] = line[c].count
  /\ Goto(c, IF use_scheduler THEN "unsubscribe" ELSE "report")
  /\ UNCHANGED <<active, sent, writing, state, unsubscribe, wg, overrun>>

\* Mutant: ids count from zero on this side of the channel.
SendUnsubscribeZeroBased(c) ==
  /\ pc[c] = "unsubscribe" /\ Goto(c, "report")
  /\ Len(unsubscribe) < UnsubscribeCap
  /\ unsubscribe' = Append(unsubscribe, c - 1)
  /\ UNCHANGED <<active, sent, writing, state, wg, overrun>>

\* unsubscribe <- id; blocks while the channel is full.
SendUnsubscribe(c) ==
  /\ pc[c] = "unsubscribe" /\ Goto(c, "report")
  /\ Len(unsubscribe) < UnsubscribeCap
  /\ unsubscribe' = Append(unsubscribe, c)
  /\ UNCHANGED <<active, sent, writing, state, wg, overrun>>

\* go write_to_file(...), then wg.Done().
Report(c) ==
  /\ pc[c] = "report" /\ Goto(c, "done")
  /\ writing' = writing \cup {c}
  /\ wg' = wg - 1
  /\ UNCHANGED <<active, sent, state, unsubscribe, overrun>>

Thread(c) ==
  /\ exit = "running"
  /\ \/ Open(c) \/ GoOn(c) \/ TakeCommand(c) \/ Await(c) \/ Send(c)
     \/ Close(c) \/ SendUnsubscribe(c) \/ Report(c)
  /\ UNCHANGED <<config, mainVars, exit, subscribe, schedVars, written>>

\* The goroutine that writes the result of c runs at last (or see Failure).
WriteToFile(c) ==
  /\ exit = "running" /\ c \in writing
  /\ writing' = writing \ {c} /\ written' = written \cup {c}
  /\ UNCHANGED <<config, mainVars, wg, exit, subscribe, unsubscribe, state,
                 schedVars, pc, active, sent, overrun>>

\* A gRPC call fails, by the 10 s deadline or otherwise, and log.Fatalf ends the
\* process with every other call in it; or the output file cannot be opened or
\* written, and the panic of write_to_file, in its own goroutine, ends it too.
Failure(c) ==
  /\ exit = "running"
  /\ \/ pc[c] \in {"open", "send"}
     \/ pc[c] = "loop" /\ sent[c] = line[c].count
     \/ c \in writing
  /\ exit' = "failed"
  /\ UNCHANGED <<config, mainVars, wg, subscribe, unsubscribe, state, schedVars,
                 callVars, written, overrun>>

-----------------------------------------------------------------------------
\* The process has ended: not a deadlock.
Exited == exit # "running" /\ UNCHANGED vars

Next ==
  \/ Main \/ MainFails
  \/ Scheduler
  \/ \E c \in Call : Thread(c) \/ WriteToFile(c) \/ Failure(c)
  \/ Exited

Spec == Init /\ [][Next]_vars

\* The Go runtime runs every goroutine that can run; a gRPC call returns, if
\* only with the deadline's error.
FairSpec ==
  /\ Spec
  /\ WF_vars(Main)
  /\ WF_vars(Scheduler)
  /\ \A c \in Call : WF_vars(Thread(c)) /\ WF_vars(WriteToFile(c))

-----------------------------------------------------------------------------
(* Properties *)

TypeOK ==
  /\ use_scheduler \in BOOLEAN
  /\ line \in [Call -> Line]
  /\ main \in {"scan", "wait"}
  /\ scanned \in 0 .. NumCalls
  /\ wg \in Nat
  /\ exit \in {"running", "returned", "failed", "panic"}
  /\ subscribe \in Seq(Call)
  /\ unsubscribe \in Seq(Call)
  /\ state \in [Call -> Seq(BOOLEAN)]
  /\ sched \in {"select", "pause", "run"}
  /\ todo \in SUBSET Call
  /\ id \in 1 .. NumCalls + 1
  /\ table \in SUBSET Call
  /\ max_priority \in Nat
  /\ pc \in [Call -> {"none", "open", "loop", "send", "unsubscribe", "report", "done"}]
  /\ active \in [Call -> BOOLEAN]
  /\ sent \in [Call -> Nat]
  /\ writing \in SUBSET Call
  /\ written \in SUBSET Call
  /\ overrun \in [Call -> Nat]

\* The commands on their way agree with the groups: once every goroutine has
\* read its channel, all calls of the highest priority are active, and no
\* other call is.
TheBestGroupIsTold ==
  use_scheduler /\ sched = "select" =>
    /\ max_priority = GetMaxPriority(table)
    /\ \A c \in table : Effective(c) <=> line[c].priority = max_priority

\* A goroutine never sends while its own flag says paused: no group is told
\* to pause twice without being told to run in between.
NoSendWhilePaused == \A c \in Call : pc[c] = "send" => active[c]

\* A preempted goroutine sends at most StateCap more numbers after FALSE has
\* been put on its channel.
BoundedOverrun == \A c \in Call : overrun[c] <= StateCap

\* When main returns, every line has its result in the output file.
WaitsForAll == exit = "returned" => written = Call

\* The scheduler is blocked for good on the full state channel of a goroutine
\* that has left its loop and reads it no more.
Wedged ==
  \E c \in todo :
    Len(state[c]) = StateCap /\ pc[c] \in {"unsubscribe", "report", "done"}

\* The process ends, or the scheduler is wedged: a full state channel is the
\* only way to hang.
EndsUnlessWedged == <>(exit # "running" \/ Wedged)

\* What the scheduler promises (module PriorityLevel).  A newcomer registers
\* when set_channels has paused the group it outranks.
Abstract == INSTANCE PriorityLevel WITH
  Id <- Call, None <- 0,
  registered <- IF sched = "pause" THEN table \ {id} ELSE table,
  priority <- [c \in Call |-> line[c].priority],
  level <- max_priority

Implements == Abstract!Spec

=============================================================================
