---------------------------- MODULE CppProcesses ----------------------------
(***************************************************************************)
(* The C++ client with processes, client/cpp_client/processes: the parent  *)
(* in greeter_client.cc forks one child per line, which stops itself; the  *)
(* scheduler of scheduler.cc, a process of its own, learns of calls and    *)
(* departures from messages on one socket, each followed by a SIGUSR1, and *)
(* switches between the children with SIGSTOP and SIGCONT.                 *)
(*                                                                         *)
(* The scheduler's loop is interrupted by its SIGUSR1 handler wherever it  *)
(* does not block the signal.  A signal is pending or not: two that arrive *)
(* before the handler runs are one.  Until the handler is installed the    *)
(* signal ends the scheduler; so does, at any time, the user's SIGINT.  A  *)
(* message is the 100 bytes of one write and is read whole; pids are not   *)
(* reused.  A child is named by the position of its line.                  *)
(***************************************************************************)
EXTENDS Integers, SequencesExt

CONSTANTS
  NumCalls,       \* number of lines of the input file
  InputFiles,     \* the input files considered: file[i] is the priority of line i
  SchedulerFlag,  \* is there a scheduler_pid argument?  The cases considered
  Builds,         \* is the scheduler compiled with optimisation?  Likewise
  UserInterrupts  \* may the user send a SIGINT?

Call == 1 .. NumCalls
none == -1        \* max_pid, running_pid: no process; also kill()'s "every process"

ASSUME CppProcessesAssumption ==
  /\ NumCalls \in Nat
  /\ InputFiles \subseteq [Call -> Nat \ {0}]
  /\ SchedulerFlag \subseteq BOOLEAN
  /\ Builds \subseteq BOOLEAN
  /\ UserInterrupts \in BOOLEAN

VARIABLES
  scheduler,    \* is there a scheduler process?
  optimised,    \* is it compiled with optimisation?
  priority,     \* the input file: priority[c] is that of line c
  main,         \* where the parent is
  forked,       \* children forked
  pc,           \* where child c is, "none" before it is forked
  stopped,      \* stopped[c]: is c stopped by a SIGSTOP?
  socket,       \* messages written and not yet read
  usr1,         \* is a SIGUSR1 pending for the scheduler?
  sched,        \* where the scheduler is
  handler,      \* is the loop interrupted by the SIGUSR1 handler?
  sigusr1,      \* has the iteration counter reached 10000000?
  pids,         \* the vector: subscribed children in order of arrival
  max_pid, max_priority, running_pid,
  broadcast     \* history: has SIGCONT been sent to every process?

config == <<scheduler, optimised, priority>>
parentVars == <<main, forked>>
childVars == <<pc, stopped>>
choiceVars == <<pids, max_pid, max_priority>>
loopVars == <<sched, handler, sigusr1, running_pid, broadcast>>
vars == <<config, parentVars, childVars, socket, usr1, choiceVars, loopVars>>

Init ==
  /\ scheduler \in SchedulerFlag
  /\ optimised \in Builds
  /\ priority \in InputFiles
  /\ main = "start" /\ forked = 0
  /\ pc = [c \in Call |-> "none"]
  /\ stopped = [c \in Call |-> FALSE]
  /\ socket = <<>> /\ usr1 = FALSE
  /\ sched = "start" /\ handler = FALSE /\ sigusr1 = FALSE
  /\ pids = <<>> /\ max_pid = none /\ max_priority = -1 /\ running_pid = none
  /\ broadcast = FALSE

-----------------------------------------------------------------------------
(* Messages and signals to the scheduler, which may be gone *)

\* A write to the socket; when there is no reader it is lost.
WriteToSocket(message) ==
  socket' = IF sched = "dead" THEN socket ELSE Append(socket, message)

\* ... or its SIGPIPE ends the writer, which goes on at "to" otherwise.
AfterWrite(to, end) == IF sched = "dead" THEN {to, end} ELSE {to}

\* kill(scheduler_pid, SIGUSR1)
KillUsr1 == usr1' = (sched # "dead")

-----------------------------------------------------------------------------
(* main() and parse_line() in the parent *)

\* connect_to_socket(), which may fail, and does unless the scheduler listens;
\* then the files, which may not open.
Connect ==
  /\ main = "start"
  /\ \/ scheduler /\ main' = "exited"
     \/ (scheduler => sched \notin {"start", "dead"}) /\ main' \in {"fork", "wait"}
  /\ UNCHANGED <<config, forked, childVars, socket, usr1, choiceVars, loopVars>>

Fork ==
  /\ main = "fork" /\ forked < NumCalls
  /\ forked' = forked + 1
  /\ pc' = [pc EXCEPT ![forked'] = "start"]
  /\ main' = IF scheduler THEN "waitpid" ELSE "fork"
  /\ UNCHANGED <<config, stopped, socket, usr1, choiceVars, loopVars>>

\* waitpid(C1, NULL, WUNTRACED): the child has stopped, or ended.
Waitpid ==
  /\ main = "waitpid"
  /\ stopped[forked] \/ pc[forked] = "dead"
  /\ main' = "subscribe"
  /\ UNCHANGED <<config, forked, childVars, socket, usr1, choiceVars, loopVars>>

\* Mutant: the child's position is counted from 0.
SubscribeZeroBased(c) == [kind |-> "subscribe", pid |-> c - 1]

SubscribeMessage(c) == [kind |-> "subscribe", pid |-> c]

Subscribe ==
  /\ main = "subscribe"
  /\ WriteToSocket(SubscribeMessage(forked))
  /\ main' \in AfterWrite("kill", "exited")
  /\ UNCHANGED <<config, forked, childVars, usr1, choiceVars, loopVars>>

Kill ==
  /\ main = "kill"
  /\ KillUsr1
  /\ main' = "fork"
  /\ UNCHANGED <<config, forked, childVars, socket, choiceVars, loopVars>>

\* wait() until there is no child left, then the total is written.
Return ==
  /\ main = "wait" \/ (main = "fork" /\ forked = NumCalls)
  /\ \A c \in Call : pc[c] \in {"none", "dead"}
  /\ main' = "returned"
  /\ UNCHANGED <<config, forked, childVars, socket, usr1, choiceVars, loopVars>>

Parent == Connect \/ Fork \/ Waitpid \/ Subscribe \/ Kill \/ Return

\* The user's SIGINT, which goes to the parent and its children; one that is
\* stopped exits as soon as it is continued.
Sigint ==
  /\ UserInterrupts /\ main \notin {"returned", "exited"}
  /\ main' = "exited"
  /\ pc' = [c \in Call |-> IF pc[c] = "none" THEN "none" ELSE "dead"]
  /\ UNCHANGED <<config, forked, stopped, socket, usr1, choiceVars, loopVars>>

-----------------------------------------------------------------------------
(* run_rpc() in child c *)

Goto(c, to) == pc' = [pc EXCEPT ![c] = to]

\* raise(SIGSTOP), if there is a scheduler to wait for.
Stop(c) ==
  /\ pc[c] = "start" /\ Goto(c, "rpc")
  /\ stopped' = [stopped EXCEPT ![c] = scheduler]
  /\ UNCHANGED <<socket, usr1>>

\* ComputeMean() returns, with the mean or with an error, and the result is
\* written.
Rpc(c) ==
  /\ pc[c] = "rpc" /\ Goto(c, IF scheduler THEN "remove" ELSE "term")
  /\ UNCHANGED <<stopped, socket, usr1>>

\* Mutant: a child that ends does not say so.
RemoveUnsent(c) ==
  /\ pc[c] = "remove" /\ Goto(c, "kill")
  /\ UNCHANGED <<socket, stopped, usr1>>

WriteRemove(c) ==
  /\ pc[c] = "remove"
  /\ WriteToSocket([kind |-> "remove", pid |-> c])
  /\ \E to \in AfterWrite("kill", "dead") : Goto(c, to)
  /\ UNCHANGED <<stopped, usr1>>

KillScheduler(c) ==
  /\ pc[c] = "kill" /\ Goto(c, "term")
  /\ KillUsr1
  /\ UNCHANGED <<stopped, socket>>

\* raise(SIGTERM).
Term(c) ==
  /\ pc[c] = "term" /\ Goto(c, "dead")
  /\ UNCHANGED <<stopped, socket, usr1>>

Child(c) ==
  /\ ~stopped[c]
  /\ Stop(c) \/ Rpc(c) \/ WriteRemove(c) \/ KillScheduler(c) \/ Term(c)
  /\ UNCHANGED <<config, parentVars, choiceVars, loopVars>>

-----------------------------------------------------------------------------
(* scheduler.cc *)

\* A step of the loop from one place to another that changes nothing else.
Step(from, to) ==
  /\ sched = from /\ ~handler
  /\ sched' = to
  /\ UNCHANGED <<config, parentVars, childVars, socket, usr1, choiceVars,
                 handler, sigusr1, running_pid, broadcast>>

\* create_sockets(): the scheduler listens, unless the port is taken ...
Listen == Step("start", "accept") \/ Step("start", "dead")

\* ... and waits for the client to connect.
Accept == main \notin {"start", "exited"} /\ Step("accept", "install")

\* sigaction(), after which SIGUSR1 no longer ends the process.
Install == Step("install", "look")

\* A SIGUSR1 before that, or the user's SIGINT.
Die ==
  /\ \/ sched \in {"accept", "install"} /\ usr1
     \/ sched # "dead" /\ UserInterrupts
  /\ sched' = "dead" /\ handler' = FALSE /\ usr1' = FALSE /\ socket' = <<>>
  /\ UNCHANGED <<config, parentVars, childVars, choiceVars, sigusr1, running_pid,
                 broadcast>>

\* get_maximum_priority(): the first of the highest priority in the vector.
Maximum(table) ==
  IF table = <<>> THEN none
  ELSE table[CHOOSE i \in DOMAIN table :
               \A j \in DOMAIN table :
                 \/ priority[table[j]] < priority[table[i]]
                 \/ (priority[table[j]] = priority[table[i]] /\ i <= j)]

\* Mutant: a tie preempts.
OutranksOrTies(pid) == max_pid = none \/ priority[pid] >= max_priority

\* subscribe_process()
Outranks(pid) == max_pid = none \/ priority[pid] > max_priority
SubscribeProcess(pid) ==
  /\ pids' = Append(pids, pid)
  /\ IF Outranks(pid)
     THEN max_pid' = pid /\ max_priority' = priority[pid]
     ELSE UNCHANGED <<max_pid, max_priority>>

\* Mutant: the departure of the best child is not followed by a new choice.
RemovePriorityOnly(pid) ==
  /\ pids' = RemoveFirst(pids, pid)
  /\ max_pid' = IF pid = max_pid THEN none ELSE max_pid
  /\ max_priority' = IF max_pid' = none THEN -1 ELSE priority[max_pid']

\* remove_priority(): the first entry of the pid, if there is one, is erased;
\* running_pid is left as it is.
RemovePriority(pid) ==
  /\ pids' = RemoveFirst(pids, pid)
  /\ max_pid' = Maximum(pids')
  /\ max_priority' = IF max_pid' = none THEN -1 ELSE priority[max_pid']

\* The other end of the socket is closed: the parent and every child that it
\* has been handed down to are gone, those that are stopped included.
Closed ==
  /\ main \in {"returned", "exited"}
  /\ \A c \in Call : pc[c] \in {"none", "dead"} /\ ~stopped[c]

\* read_from_socket(): blocks until there is a message, or nobody left to
\* send one.
Read ==
  \/ /\ socket # <<>>
     /\ socket' = Tail(socket)
     /\ IF Head(socket).kind = "subscribe"
        THEN SubscribeProcess(Head(socket).pid)
        ELSE RemovePriority(Head(socket).pid)
  \/ /\ socket = <<>> /\ Closed
     /\ UNCHANGED <<socket, choiceVars>>

\* A pending SIGUSR1 is delivered as soon as it is no longer blocked: when
\* sigprocmask unblocks it and when the handler returns.
Unblock == handler' = usr1 /\ usr1' = FALSE

\* SIGUSR1 arrives while the loop runs.
Interrupt ==
  /\ usr1 /\ ~handler
  /\ sched \notin {"start", "accept", "install", "read", "wake", "dead"}
  /\ Unblock
  /\ UNCHANGED <<config, parentVars, childVars, socket, choiceVars, sched, sigusr1,
                 running_pid, broadcast>>

\* The counter it resets is kept in a register by an optimised loop.
Handle ==
  /\ handler
  /\ Read
  /\ sigusr1' = (optimised /\ sigusr1)
  /\ Unblock
  /\ UNCHANGED <<config, parentVars, childVars, sched, running_pid, broadcast>>

\* So many iterations have passed without a message.
Count ==
  /\ sched = "loop" /\ ~handler /\ ~sigusr1
  /\ sigusr1' = TRUE
  /\ UNCHANGED <<config, parentVars, childVars, socket, usr1, choiceVars, sched,
                 handler, running_pid, broadcast>>

\* Top of the loop: is it time to read without a signal?  Then the first of
\* the two looks at max_pid, which an optimised loop, that calls nothing, does
\* not repeat.
Loop ==
  \/ sigusr1 /\ Step("loop", "block")
  \/ ~sigusr1 /\ max_pid # none /\ ~optimised /\ Step("loop", "compare")

\* sigprocmask(SIG_BLOCK, ...) in read_from_socket(-1).
Block == Step("block", "read")

\* The read in read_from_socket(-1), and the unblocking after it.
ReadAnyway ==
  /\ sched = "read"
  /\ Read
  /\ sigusr1' = FALSE
  /\ Unblock
  /\ sched' = "look"
  /\ UNCHANGED <<config, parentVars, childVars, running_pid, broadcast>>

\* The first look at max_pid after that read.
Look == Step("look", IF max_pid # none THEN "compare" ELSE "loop")

\* The second look at max_pid.
Compare == Step("compare", IF max_pid # running_pid THEN "switch" ELSE "loop")

\* Mutant: the running child is not stopped.
SleepsNever(c) == c = none

\* Who is sent SIGSTOP: the running process, if there is one.
Sleeps(c) == c = running_pid /\ pc[c] # "dead"

\* With SIGUSR1 blocked, SIGSTOP for the running process ...
Sleep ==
  /\ sched = "switch" /\ ~handler
  /\ stopped' = [c \in Call |-> stopped[c] \/ Sleeps(c)]
  /\ running_pid' = max_pid
  /\ sched' = "wake"
  /\ UNCHANGED <<config, parentVars, pc, socket, usr1, choiceVars, handler, sigusr1,
                 broadcast>>

\* ... and SIGCONT for the best one; for every process, if max_pid had become -1.
Wake ==
  /\ sched = "wake"
  /\ stopped' = [c \in Call |-> max_pid \notin {c, none} /\ stopped[c]]
  /\ broadcast' = (broadcast \/ max_pid = none)
  /\ Unblock
  /\ sched' = IF optimised THEN "look" ELSE "loop"
  /\ UNCHANGED <<config, parentVars, pc, socket, choiceVars, sigusr1, running_pid>>

Scheduler ==
  /\ scheduler
  /\ \/ Listen \/ Accept \/ Install
     \/ Handle \/ Loop \/ Block \/ ReadAnyway \/ Look \/ Compare \/ Sleep \/ Wake

Deliver == scheduler /\ (Interrupt \/ Die)

Idle == scheduler /\ Count

-----------------------------------------------------------------------------
Ended == main \in {"returned", "exited"} /\ UNCHANGED vars

Next ==
  \/ Parent
  \/ \E c \in Call : Child(c)
  \/ Scheduler
  \/ Deliver
  \/ Idle
  \/ Sigint
  \/ Ended

Spec == Init /\ [][Next]_vars

\* The kernel runs every process that is not stopped and delivers a signal
\* that is not blocked; a gRPC call returns; a loop that is returned to again
\* and again counts its iterations.
FairSpec ==
  /\ Spec
  /\ WF_vars(Parent)
  /\ \A c \in Call : WF_vars(Child(c))
  /\ WF_vars(Scheduler)
  /\ WF_vars(scheduler /\ Interrupt)
  /\ SF_vars(Idle)

-----------------------------------------------------------------------------
(* Properties *)

TypeOK ==
  /\ {scheduler, optimised, usr1, handler, sigusr1, broadcast} \subseteq BOOLEAN
  /\ priority \in [Call -> Nat \ {0}]
  /\ main \in {"start", "fork", "waitpid", "subscribe", "kill", "wait", "returned",
               "exited"}
  /\ forked \in 0 .. NumCalls
  /\ pc \in [Call -> {"none", "start", "rpc", "remove", "kill", "term", "dead"}]
  /\ stopped \in [Call -> BOOLEAN]
  /\ socket \in Seq([kind : {"subscribe", "remove"}, pid : Call])
  /\ sched \in {"start", "accept", "install", "loop", "block", "read", "look",
                "compare", "switch", "wake", "dead"}
  /\ pids \in Seq(Call)
  /\ {max_pid, running_pid} \subseteq Call \cup {none}
  /\ max_priority \in Nat \cup {-1}

\* At most one of the children that have stopped themselves for the scheduler
\* is running: the one it takes to be running; unless SIGCONT has been sent to
\* every process.
AtMostOneRuns ==
  scheduler /\ ~broadcast =>
    \A c \in Call : pc[c] \in {"rpc", "remove"} /\ ~stopped[c] => c = running_pid

\* A broadcast reaches only children the scheduler does not know yet: those it
\* knows have all left.
BroadcastOnlyWhenEmpty == [][broadcast' # broadcast => pids = <<>>]_vars

\* Calls of one priority run serially, in the order of subscription: while an
\* earlier one is in the vector, a later one has not been continued; even if
\* the scheduler has died since.
SerialWithinPriority ==
  ~broadcast /\ main # "exited" =>
    \A i, j \in DOMAIN pids :
      i < j /\ priority[pids[i]] = priority[pids[j]]
      => stopped[pids[j]] /\ pc[pids[j]] = "rpc"

\* A child that has announced its end leaves the vector: its message is on
\* the socket for as long as it is in there.
NoGhost ==
  ~broadcast /\ main # "exited" /\ sched # "dead" =>
    \A i \in DOMAIN pids :
      pc[pids[i]] \in {"kill", "term", "dead"} =>
        \E j \in DOMAIN socket :
          socket[j] = [kind |-> "remove", pid |-> pids[i]]

\* The four ways not to end.  The scheduler waits for a message when there is
\* none and does not get to the child it has chosen ...
BlockedInRead ==
  /\ socket = <<>> /\ (handler \/ sched = "read")
  /\ max_pid \notin {none, running_pid}

\* ... or it has stopped a child that has announced its end but not reached
\* it ...
StoppedAtTheEnd == \E c \in Call : stopped[c] /\ pc[c] \in {"kill", "term"}

\* ... or, after a broadcast, the best child is one that has ended before it
\* was subscribed ...
Ghost == broadcast /\ max_pid # none /\ pc[max_pid] = "dead"

\* ... or the scheduler has died and nobody continues a child that is stopped.
Abandoned == sched = "dead" /\ \E c \in Call : stopped[c]

\* The client ends, or it is stuck in one of these ways.
EndsUnlessStuck ==
  \/ <>(main \in {"returned", "exited"})
  \/ <>[](BlockedInRead \/ StoppedAtTheEnd \/ Ghost \/ Abandoned)

\* The read that does not wait for a signal keeps the client going: the
\* scheduler itself, as long as it lives, is not what the client waits for.
FallbackKeepsGoing ==
  \/ <>(main \in {"returned", "exited"})
  \/ <>[](StoppedAtTheEnd \/ Ghost \/ Abandoned)

\* What the scheduler promises (module PriorityGrant), message by message.
Abstract == INSTANCE PriorityGrant WITH
  Id <- Call, None <- none,
  registered <- {pids[i] : i \in DOMAIN pids},
  granted <- max_pid

Implements == Abstract!Spec

=============================================================================
