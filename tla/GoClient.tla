------------------------------ MODULE GoClient ------------------------------
(***************************************************************************)
(* The Go client of client/go_client/go/main.go: main reads the input file *)
(* line by line, the scheduler goroutine starts one goroutine per line and *)
(* decides which of them may send, and each goroutine streams its numbers  *)
(* to the server, one Send at a time.                                      *)
(*                                                                         *)
(* They share only channels: subscribe (main to scheduler), unsubscribe    *)
(* (goroutines to scheduler) and one state channel per goroutine, on which *)
(* the scheduler sends TRUE (run) or FALSE (pause).  All are bounded, and  *)
(* a send to a full channel blocks.  A call is named by its id, its        *)
(* position in the input file: the scheduler numbers the lines in order.   *)
(***************************************************************************)
EXTENDS Integers, Sequences, FiniteSets

CONSTANTS
  NumCalls,       \* number of lines of the input file
  InputFile,      \* InputFile[i]: the lines that may stand at position i
  CountedLines,   \* what count_lines returned, the initial WaitGroup counter
  SubscribeCap,   \* capacity of the subscribe channel (20 in the code)
  UnsubscribeCap, \* capacity of the unsubscribe channel (20 in the code)
  StateCap,       \* capacity of a state channel (2 in the code)
  SchedulerFlag   \* the values the --scheduler flag may have

Call == 1 .. NumCalls

(***************************************************************************)
(* A line of the input file: a priority (generate_input_file.py draws them *)
(* from 1..priority_range) and how many numbers are to be averaged.  A     *)
(* count of 0 is a list parse_line cannot parse: the empty string is one.  *)
(***************************************************************************)
Line == [priority : Nat \ {0}, count : Nat]
NoLine == [priority |-> 1, count |-> 0]
none == -1

ASSUME GoClientAssumption ==
  /\ NumCalls \in Nat
  /\ InputFile \in [Call -> SUBSET Line]
  /\ CountedLines \in Nat
  /\ SubscribeCap \in Nat \ {0}
  /\ UnsubscribeCap \in Nat \ {0}
  /\ StateCap \in Nat \ {0}
  /\ SchedulerFlag \subseteq BOOLEAN

VARIABLES
  use_scheduler, \* the --scheduler flag
  main,        \* where main() is: reading lines, or in wg.Wait()
  scanned,     \* lines read so far
  wg,          \* the WaitGroup counter
  exit,        \* "running", or how the process ended: "returned", "panic" (of
               \* a bad line or counter) or "failed" (the server or a file)
  subscribe, unsubscribe,
  state,       \* state[c]: the state channel of c
  sched,       \* "select", or the send the scheduler is about to make
  id,          \* the id of the next line
  threads,     \* the ids in the threads map (priority is line[c].priority)
  max_id, running_id,
  pc,          \* pc[c]: where goroutine c is, "none" before it exists
  active,      \* active[c]: the goroutine's own flag
  line,        \* line[c]: the line goroutine c serves
  sent,        \* sent[c]: numbers sent so far
  written,     \* calls whose result is in the output file
  overrun      \* history: sends of c since it was last told to pause

mainVars == <<use_scheduler, main, scanned, wg>>
schedVars == <<sched, id, threads, max_id, running_id>>
callVars == <<pc, active, line, sent, written>>
vars == <<use_scheduler, main, scanned, wg, exit, subscribe, unsubscribe, state,
          sched, id, threads, max_id, running_id, pc, active, line, sent, written,
          overrun>>

Init ==
  /\ use_scheduler \in SchedulerFlag
  /\ main = "scan"
  /\ scanned = 0
  /\ wg = CountedLines
  /\ exit = "running"
  /\ subscribe = <<>>
  /\ unsubscribe = <<>>
  /\ state = [c \in Call |-> <<>>]
  /\ sched = "select"
  /\ id = 1
  /\ threads = {}
  /\ max_id = none
  /\ running_id = none
  /\ pc = [c \in Call |-> "none"]
  /\ active = [c \in Call |-> FALSE]
  /\ line = [c \in Call |-> NoLine]
  /\ sent = [c \in Call |-> 0]
  /\ written = {}
  /\ overrun = [c \in Call |-> 0]

(***************************************************************************)
(* The flag goroutine c will hold once it has read its state channel.      *)
(***************************************************************************)
Effective(c) ==
  IF state[c] = <<>> THEN active[c] ELSE state[c][Len(state[c])]

\* Mutant: the id comparison of a tie reversed.
IsMaxPriorityLatest(m, table) ==
  \/ table = {} /\ m = none
  \/ /\ m \in table
     /\ \A c \in table : \/ line[m].priority > line[c].priority
                         \/ line[m].priority = line[c].priority /\ m >= c

(***************************************************************************)
(* What get_max_priority returns for a table: the smallest id among the    *)
(* threads of highest priority, -1 for an empty table.  The loop starts    *)
(* from priority 0, so it would also be -1 if no priority were positive;   *)
(* Line rules that out.                                                    *)
(***************************************************************************)
IsMaxPriority(m, table) ==
  \/ table = {} /\ m = none
  \/ /\ m \in table
     /\ \A c \in table : \/ line[m].priority > line[c].priority
                         \/ line[m].priority = line[c].priority /\ m <= c

-----------------------------------------------------------------------------
(* main() *)

\* One turn of the scanner loop; blocks while the subscribe channel is full.
ReadLine ==
  /\ main = "scan" /\ scanned < NumCalls
  /\ Len(subscribe) < SubscribeCap
  /\ \E l \in InputFile[scanned + 1] : subscribe' = Append(subscribe, l)
  /\ scanned' = scanned + 1
  /\ UNCHANGED <<use_scheduler, main, wg, exit, unsubscribe, state, schedVars, callVars,
                 overrun>>

EndOfFile ==
  /\ main = "scan" /\ scanned = NumCalls
  /\ main' = "wait"
  /\ UNCHANGED <<use_scheduler, scanned, wg, exit, subscribe, unsubscribe, state,
                 schedVars, callVars, overrun>>

\* Mutant: main does not wait.
ReturnEarly ==
  /\ main = "wait"
  /\ exit' = "returned"
  /\ UNCHANGED <<mainVars, subscribe, unsubscribe, state, schedVars, callVars, overrun>>

\* wg.Wait() returns, the total is written (or see MainFails) and the process
\* ends, whatever the other goroutines are doing.
Return ==
  /\ main = "wait" /\ wg = 0
  /\ exit' = "returned"
  /\ UNCHANGED <<mainVars, subscribe, unsubscribe, state, schedVars, callVars, overrun>>

\* log.Fatal, when the input file cannot be opened or read on, or a panic, when
\* the output file cannot be opened or written for the total.
MainFails ==
  /\ exit = "running"
  /\ main = "scan" \/ wg = 0
  /\ exit' = "failed"
  /\ UNCHANGED <<mainVars, subscribe, unsubscribe, state, schedVars, callVars, overrun>>

Main == exit = "running" /\ (ReadLine \/ EndOfFile \/ Return)

-----------------------------------------------------------------------------
(* scheduler() *)

\* Mutant: a tie preempts.
OutranksOrTies(priority) ==
  IF max_id = none THEN TRUE ELSE priority >= line[max_id].priority

\* Does a newcomer of this priority preempt?
Outranks(priority) ==
  IF max_id = none THEN TRUE ELSE priority > line[max_id].priority

\* case subscribe_str: parse the line, enter the table, start the goroutine.
\* A newcomer of strictly higher priority starts active and the scheduler
\* goes on to pause the running one ("preempt").
Subscribe(c) ==
  /\ sched = "select" /\ subscribe # <<>>
  /\ c = id
  /\ Head(subscribe).count > 0
  /\ subscribe' = Tail(subscribe)
  /\ id' = id + 1
  /\ threads' = threads \cup {c}
  /\ line' = [line EXCEPT ![c] = Head(subscribe)]
  /\ pc' = [pc EXCEPT ![c] = "open"]
  /\ \/ /\ ~use_scheduler
        /\ active' = [active EXCEPT ![c] = TRUE]
        /\ UNCHANGED <<sched, max_id, running_id>>
     \/ /\ use_scheduler
        /\ Outranks(Head(subscribe).priority)
        /\ active' = [active EXCEPT ![c] = TRUE]
        /\ max_id' = c
        /\ \/ running_id # none /\ sched' = "preempt" /\ UNCHANGED running_id
           \/ running_id = none /\ running_id' = c /\ UNCHANGED sched
     \/ /\ use_scheduler
        /\ ~Outranks(Head(subscribe).priority)
        /\ UNCHANGED <<sched, max_id, running_id, active>>
  /\ UNCHANGED <<mainVars, exit, unsubscribe, state, sent, written, overrun>>

\* parse_line panics on a number list that does not parse.
ParsePanic ==
  /\ sched = "select" /\ subscribe # <<>>
  /\ Head(subscribe).count = 0
  /\ exit' = "panic"
  /\ UNCHANGED <<mainVars, subscribe, unsubscribe, state, schedVars, callVars, overrun>>

\* Mutant: running_id = max_id is forgotten.
SendPauseAgain ==
  /\ sched = "preempt"
  /\ Len(state[running_id]) < StateCap
  /\ state' = [state EXCEPT ![running_id] = Append(@, FALSE)]
  /\ overrun' = [overrun EXCEPT ![running_id] = 0]
  /\ sched' = "select"
  /\ UNCHANGED <<mainVars, exit, subscribe, unsubscribe, id, threads, max_id,
                 running_id, callVars>>

\* threads[running_id].channel <- false, then running_id = max_id; blocks
\* while that channel is full.
SendPause ==
  /\ sched = "preempt"
  /\ Len(state[running_id]) < StateCap
  /\ state' = [state EXCEPT ![running_id] = Append(@, FALSE)]
  /\ overrun' = [overrun EXCEPT ![running_id] = 0]
  /\ running_id' = max_id
  /\ sched' = "select"
  /\ UNCHANGED <<mainVars, exit, subscribe, unsubscribe, id, threads, max_id, callVars>>

\* case unsubscribe_id: leave the table and choose again, even when the one
\* that left was not the running one.
Unsubscribe ==
  /\ sched = "select" /\ unsubscribe # <<>>
  /\ unsubscribe' = Tail(unsubscribe)
  /\ threads' = threads \ {Head(unsubscribe)}
  /\ \E m \in Call \cup {none} :
       /\ IsMaxPriority(m, threads')
       /\ max_id' = m
       /\ running_id' = m
       /\ sched' = IF m = none THEN "select" ELSE "wake"
  /\ UNCHANGED <<mainVars, exit, subscribe, state, id, callVars, overrun>>

\* Mutant: the chosen goroutine is not told.
SendRunNever ==
  /\ sched = "wake"
  /\ sched' = "select"
  /\ UNCHANGED <<mainVars, exit, subscribe, unsubscribe, state, id, threads, max_id,
                 running_id, callVars, overrun>>

\* threads[max_id].channel <- true; blocks while that channel is full.
SendRun ==
  /\ sched = "wake"
  /\ Len(state[max_id]) < StateCap
  /\ state' = [state EXCEPT ![max_id] = Append(@, TRUE)]
  /\ sched' = "select"
  /\ UNCHANGED <<mainVars, exit, subscribe, unsubscribe, id, threads, max_id,
                 running_id, callVars, overrun>>

Scheduler ==
  /\ exit = "running"
  /\ \/ \E c \in Call : Subscribe(c)
     \/ ParsePanic \/ SendPause \/ Unsubscribe \/ SendRun

-----------------------------------------------------------------------------
(* thread(): the goroutine of call c *)

At(c, from) == pc[c] = from
Goto(c, to) == pc' = [pc EXCEPT ![c] = to]

\* Dial and open the stream.
Open(c) ==
  /\ At(c, "open") /\ Goto(c, "loop")
  /\ UNCHANGED <<active, line, sent, written, state, unsubscribe, wg, exit, overrun>>

\* Top of the loop: an active goroutine looks at its channel without
\* blocking and takes at most one command.
GoOn(c) ==
  /\ At(c, "loop") /\ sent[c] < line[c].count
  /\ active[c] /\ state[c] = <<>>
  /\ Goto(c, "send")
  /\ UNCHANGED <<active, line, sent, written, state, unsubscribe, wg, exit, overrun>>

\* Mutant: a goroutine told to pause sends its number first.
TakeCommandSending(c) ==
  /\ At(c, "loop") /\ sent[c] < line[c].count
  /\ active[c] /\ state[c] # <<>>
  /\ active' = [active EXCEPT ![c] = Head(state[c])]
  /\ state' = [state EXCEPT ![c] = Tail(@)]
  /\ Goto(c, "send")
  /\ UNCHANGED <<line, sent, written, unsubscribe, wg, exit, overrun>>

TakeCommand(c) ==
  /\ At(c, "loop") /\ sent[c] < line[c].count
  /\ active[c] /\ state[c] # <<>>
  /\ active' = [active EXCEPT ![c] = Head(state[c])]
  /\ state' = [state EXCEPT ![c] = Tail(@)]
  /\ Goto(c, IF Head(state[c]) THEN "send" ELSE "loop")
  /\ UNCHANGED <<line, sent, written, unsubscribe, wg, exit, overrun>>

\* A paused goroutine blocks until a command comes and then sends one
\* number, whatever the command was.
Await(c) ==
  /\ At(c, "loop") /\ sent[c] < line[c].count
  /\ ~active[c] /\ state[c] # <<>>
  /\ active' = [active EXCEPT ![c] = Head(state[c])]
  /\ state' = [state EXCEPT ![c] = Tail(@)]
  /\ Goto(c, "send")
  /\ UNCHANGED <<line, sent, written, unsubscribe, wg, exit, overrun>>

Send(c) ==
  /\ At(c, "send") /\ Goto(c, "loop")
  /\ sent' = [sent EXCEPT ![c] = @ + 1]
  /\ overrun' = [overrun EXCEPT ![c] = IF Effective(c) THEN 0 ELSE @ + 1]
  /\ UNCHANGED <<active, line, written, state, unsubscribe, wg, exit>>

\* Mutant: the result is not written.
CloseUnwritten(c) ==
  /\ At(c, "loop") /\ sent[c] = line[c].count
  /\ Goto(c, IF use_scheduler THEN "unsubscribe" ELSE "wgdone")
  /\ UNCHANGED <<active, line, sent, written, state, unsubscribe, wg, exit, overrun>>

\* CloseAndRecv, then write_to_file; Fatal is how either ends the process.
Close(c) ==
  /\ At(c, "loop") /\ sent[c] = line[c].count
  /\ written' = written \cup {c}
  /\ Goto(c, IF use_scheduler THEN "unsubscribe" ELSE "wgdone")
  /\ UNCHANGED <<active, line, sent, state, unsubscribe, wg, exit, overrun>>

\* Mutant: ids count from zero on this side of the channel.
SendUnsubscribeZeroBased(c) ==
  /\ At(c, "unsubscribe") /\ Goto(c, "wgdone")
  /\ Len(unsubscribe) < UnsubscribeCap
  /\ unsubscribe' = Append(unsubscribe, c - 1)
  /\ UNCHANGED <<active, line, sent, written, state, wg, exit, overrun>>

\* unsubscribe <- id; blocks while the channel is full.
SendUnsubscribe(c) ==
  /\ At(c, "unsubscribe") /\ Goto(c, "wgdone")
  /\ Len(unsubscribe) < UnsubscribeCap
  /\ unsubscribe' = Append(unsubscribe, c)
  /\ UNCHANGED <<active, line, sent, written, state, wg, exit, overrun>>

\* wg.Done(), which panics on a counter that would become negative.
WgDone(c) ==
  /\ At(c, "wgdone") /\ Goto(c, "done")
  /\ \/ wg > 0 /\ wg' = wg - 1 /\ UNCHANGED exit
     \/ wg = 0 /\ exit' = "panic" /\ UNCHANGED wg
  /\ UNCHANGED <<active, line, sent, written, state, unsubscribe, overrun>>

\* A gRPC call fails, by the 10 s deadline or otherwise, and log.Fatalf ends the
\* process with every other call in it; or, after the reply, the output file
\* cannot be opened or written, and write_to_file panics, which ends it too.
Fatal(c) ==
  /\ At(c, "open") \/ At(c, "send") \/ (At(c, "loop") /\ sent[c] = line[c].count)
  /\ exit' = "failed"
  /\ UNCHANGED <<pc, active, line, sent, written, state, unsubscribe, wg, overrun>>

Thread(c) ==
  /\ exit = "running"
  /\ \/ Open(c) \/ GoOn(c) \/ TakeCommand(c) \/ Await(c) \/ Send(c)
     \/ Close(c) \/ SendUnsubscribe(c) \/ WgDone(c)
  /\ UNCHANGED <<use_scheduler, main, scanned, subscribe, schedVars>>

Failure(c) ==
  /\ exit = "running"
  /\ Fatal(c)
  /\ UNCHANGED <<use_scheduler, main, scanned, subscribe, schedVars>>

-----------------------------------------------------------------------------
\* The process has ended: not a deadlock.
Exited == exit # "running" /\ UNCHANGED vars

Next ==
  \/ Main \/ MainFails
  \/ Scheduler
  \/ \E c \in Call : Thread(c) \/ Failure(c)
  \/ Exited

Spec == Init /\ [][Next]_vars

\* The Go runtime runs every goroutine that can run; a gRPC call returns, if
\* only with the deadline's error.  Failures are possible, never promised.
Fairness ==
  /\ WF_vars(Main)
  /\ WF_vars(Scheduler)
  /\ \A c \in Call : WF_vars(Thread(c))

FairSpec == Spec /\ Fairness

-----------------------------------------------------------------------------
(* Properties *)

TypeOK ==
  /\ use_scheduler \in SchedulerFlag
  /\ main \in {"scan", "wait"}
  /\ scanned \in 0 .. NumCalls
  /\ wg \in Nat
  /\ exit \in {"running", "returned", "failed", "panic"}
  /\ subscribe \in Seq(Line)
  /\ unsubscribe \in Seq(Call)
  /\ state \in [Call -> Seq(BOOLEAN)]
  /\ sched \in {"select", "preempt", "wake"}
  /\ id \in 1 .. NumCalls + 1
  /\ threads \in SUBSET Call
  /\ max_id \in Call \cup {none}
  /\ running_id \in Call \cup {none}
  /\ pc \in [Call -> {"none", "open", "loop", "send", "unsubscribe", "wgdone", "done"}]
  /\ active \in [Call -> BOOLEAN]
  /\ line \in [Call -> Line]
  /\ sent \in [Call -> Nat]
  /\ written \in SUBSET Call
  /\ overrun \in [Call -> Nat]

\* The commands on their way agree with the table: once every goroutine has
\* read its channel, exactly the call get_max_priority would choose is
\* active.  Subscribe, Unsubscribe and the two sends keep three pieces of
\* state in step for this: the table, the cached max_id and running_id, and
\* what every goroutine was last told.
OnlyTheBestIsTold ==
  use_scheduler /\ sched = "select" =>
    /\ running_id = max_id
    /\ IsMaxPriority(max_id, threads)
    /\ \A c \in threads : Effective(c) <=> c = max_id

\* A goroutine never sends while its own flag says paused.  Await sends after
\* any command, so this rests on the scheduler never pausing a goroutine
\* that it has already paused.
NoSendWhilePaused == \A c \in Call : pc[c] = "send" => active[c]

\* Calls of one priority run serially, in the order of the input file: a
\* later one sends nothing before an earlier one has its reply.
Unfinished(c) == pc[c] \in {"open", "loop", "send"}
Started(c) == pc[c] = "send" \/ sent[c] > 0
SerialWithinPriority ==
  use_scheduler =>
    \A c, d \in Call :
      /\ c < d /\ line[c].priority = line[d].priority
      /\ Unfinished(c) /\ pc[d] # "none"
      => ~Started(d)

\* A preempted goroutine stops soon: after FALSE is put on its channel it
\* sends at most StateCap more numbers (one it was about to send, and one for
\* every older command in front of the FALSE).
BoundedOverrun == \A c \in Call : overrun[c] <= StateCap

\* wg.Wait() in main: when main returns, every line has its result in the
\* output file, and the WaitGroup counter never goes negative.
WaitsForAll ==
  /\ exit = "returned" => written = Call
  /\ exit = "panic" => subscribe # <<>> /\ Head(subscribe).count = 0

\* The same whatever count_lines returned: main returns after CountedLines
\* results, the lines that were not counted may be lost.
WaitsForCounted == exit = "returned" => Cardinality(written) >= CountedLines

\* The scheduler is blocked for good on the full state channel of a goroutine
\* that has left its loop and reads it no more.
Target == IF sched = "preempt" THEN running_id ELSE max_id
Wedged ==
  /\ sched # "select"
  /\ Len(state[Target]) = StateCap
  /\ pc[Target] \in {"unsubscribe", "wgdone", "done"}

\* The process ends, or the scheduler is wedged: a full state channel is the
\* only way to hang.
EndsUnlessWedged == <>(exit # "running" \/ Wedged)

\* Every run of the client ends: the calls of the input file are made.
Terminates == <>(exit # "running")

\* What the scheduler promises (module PriorityGrant): the call granted the
\* right to send is max_id.
Abstract == INSTANCE PriorityGrant WITH
  Id <- Call, None <- none,
  registered <- threads,
  priority <- [c \in Call |-> line[c].priority],
  granted <- max_id

Implements == Abstract!Spec

=============================================================================
