# gRPC_scheduler: specifications, model checking and proofs

The repository holds several clients that make streaming gRPC calls (one call of
`ComputeMean` per line of an input file, each line with a priority) and, in each of them,
a scheduler that decides which call may send. The schedulers are written five times, with
goroutines and channels, threads and condition flags, processes and signals. This directory
specifies the five of them and the streaming calls of the two servers in TLA+, checks them
with TLC and proves their safety with TLAPS.

Paths of the source below are relative to `src/`.

## The system

| Component | Source | State it keeps | Operations |
|---|---|---|---|
| Go client, serial | `client/go_client/go/main.go` | `threads` table, `max_id`, `running_id`; channels `subscribe` (20), `unsubscribe` (20), one `state` channel (2) per call; a WaitGroup; each goroutine's `active` flag | `main` reads lines and waits; `scheduler` takes a newcomer or a departure and sends pause/run commands; `thread` takes commands, sends numbers, writes its result, unsubscribes |
| Go client, concurrent | `client/go_client/go_concurrent/main.go` | `priorities_and_threads` (groups), `max_priority`, the same channels (100, 100, 2) | as above, but commands go to all members of a priority group, and results are written by separate goroutines |
| C++ client, threads 1 | `client/cpp_client/threads_1/greeter_client.cc` | vectors of ids and priorities, `max_id`, `running_id`, `max_priority`; queues `subscribe`, `unsubscribe`; `sleep_map` (written by both sides); `stop_scheduler` | `main` starts and joins; `scheduler` polls both queues, puts to sleep, wakes; `run_rpc` subscribes, marks itself asleep, spins on its entry before every number (perhaps with a time-out), unsubscribes |
| C++ client, threads 2 | `client/cpp_client/threads_2/greeter_client.cc` | map of priorities, `max_id`, `max_priority`, `sleep_map` (written by the scheduler only), the `unsubscribe` queue | `scheduler` reads the file, starts threads, preempts, joins departing threads, wakes the next; `run_rpc` |
| C++ client, processes | `client/cpp_client/processes/greeter_client.cc`, `scheduler.cc` | one child per line; in the scheduler process the vectors `pids` and `priorities`, `max_pid`, `running_pid`, `max_priority`, the counter `sigusr1`; a socket and a pending SIGUSR1 | the parent forks, waits until the child stops, writes `subscribe...` and signals; a child writes `remove...` and signals; the scheduler accepts one connection and installs its handler, which reads one message; its loop sends SIGSTOP and SIGCONT; SIGINT ends it |
| Go server | `server/go_server/main.go` | none across calls; a limit of one stream per connection | `ComputeMean`, `ComputeMeanStream` and `ComputeMeanOrSendLongString` add up a stream of messages; four methods answer one message with one |
| Node.js server | `server/node_server/server.js` | module globals `sum`, `total_numbers` | `computeMean` (sums of its own), `computeMeanStream` (those of the module), `sayHello` |
| Python client | `client/python_client/` | none | starts threads that each make one call |
| Scripts | `python_scripts/` | files | generate the input, run ghz, plot |
| Protocol | `helloworld.proto` | none | declarations |

How they interact: a client reads a file made by `generate_input_file.py` (priorities from 1
to `priority_range`, at least one number per line), opens one stream per line to a server,
and appends one result per call and a total to its output file, which
`read_execution_times.py` reads. Inside a client the scheduler and the calls interact only
through the channels, queues, flags, messages and signals of the table: that is where the
hard behaviour is, and what the modules are about.

What is hard here:

* *Preemption is asynchronous.* A command to pause reaches a call that may be about to
  send, may have older commands unread, may be waiting for its reply or may have ended.
* *The choice is cached.* Every scheduler keeps the best call (and what it believes to be
  running) beside the table and updates both on several paths. "Calls of the same priority
  run serially" (README.md:14) depends on each of these paths breaking ties alike.
* *Channels are bounded*, and the scheduler blocks on them.
* *Both sides write the same flag* (threads 1), and a queue is pushed and popped under two
  different mutexes.
* *Signals coalesce* and interrupt the loop anywhere (processes); before the handler is
  installed they end the scheduler.
* *A process may be gone.* The scheduler process can be interrupted by hand; what is then
  written to it is lost, or ends the writer.
* *Streams are few.* The Go server allows one stream per connection, and gRPC gives the
  channels of a C++ client one connection: a call that sleeps with its stream open is in
  the way of the call that preempted it.
* *Ending.* A WaitGroup, two joins or a series of `wait`s decide when the client returns;
  results must be in the file by then.

`PROJECT.json` lists each of these at the line where it bites, with the property that
covers it. Some of them do happen: the 10 s deadline, a torn pop, a child stopped at its
end, a scheduler that has died, a held stream. The models reach them, and the properties
name them as outcomes (`Ghost`, `StoppedAtTheEnd`, `Abandoned`, `StreamHeld`, a process that
has failed) or exclude them by a premise. Such a hazard is described and not caught, and is
listed without a property.

## Modules

Every module is written to be instantiated with an arbitrary number of calls and an
arbitrary input file: `NumCalls`, and `InputFile[i]`, the set of lines that may stand at
position `i`, from which the initial state (or, in `GoClient`, the reading of a line)
chooses; or `Inputs`, a set of records that hold the input file together with the flags
and what is assumed of the environment. A line is its priority and how many numbers it has;
the numbers are not kept. A call, thread, process or pid is named by the position of its
line.

| Module | Models | Steps |
|---|---|---|
| `PriorityGrant` | what a serial scheduler promises: one registered call holds the grant; a strictly higher newcomer takes it; when the holder leaves it goes to a call of the highest priority | `Register`, `Leave` |
| `PriorityLevel` | what the concurrent scheduler promises: one priority level, raised by newcomers, lowered when its last call leaves | `Register`, `Leave` |
| `GoClient` | the serial Go client | one action per `select` case, channel operation and RPC |
| `GoConcurrent` | the concurrent Go client | as `GoClient`; `set_channels` is one step per member |
| `CppThreads1` | the C++ client with a time-out, and the streams of its connection | one action per access to a queue or to `sleep_map` |
| `CppThreads2` | the C++ client without, and the streams of its connection | one action per access to the queue or to `sleep_map` |
| `CppProcesses` | the C++ client with processes and its scheduler process, from start-up to the death of either | one action per system call or per look at `max_pid` |
| `Servers` | the streaming methods of both servers, and clients that open streams to them | one action per message, opening, closing and break of a stream |
| `GoClientProofs`, `GoConcurrentProofs`, `CppThreads1Proofs`, `CppThreads2Proofs`, `CppProcessesProofs`, `ServersProofs` | theorems about the module of that name | |
| `PriorityProofs` | theorems about `PriorityGrant` and `PriorityLevel` | |
| `SchedulerLemmas` | lemmas about queues of commands, vectors and choices that several of them need | |
| `MC*` | input files for TLC | |

The five detailed modules instantiate the abstract one they implement
(`Abstract == INSTANCE PriorityGrant WITH ...`) under a refinement mapping that names the
variables of the code: the vector or map for `registered`, `max_id` or `max_pid` for
`granted`, `max_priority` for `level`.

### How state and actions correspond to the code

*GoClient.* `state[c]` is the contents of the state channel, TRUE for run. `Subscribe` is
`case elem := <-subscribe` with everything up to the first blocking operation; if it has to
preempt, the scheduler is left in `"preempt"` and `SendPause` is the send that may block.
`Unsubscribe` and `SendRun` are the other case in the same way. A goroutine's loop is
`GoOn`/`TakeCommand`/`Await` (what it reads from its channel before it sends) and `Send`.
The ends of the process are `Return`, `Fatal` (the `log.Fatalf` of a call, the 10 s deadline
among their causes, and the panic of `write_to_file` after its reply), `MainFails` (`main`
cannot open or read the input file, or write the total) and the panics of `parse_line` and
of a negative WaitGroup; `exit` is "failed" after `Fatal` and `MainFails`. `overrun` counts
numbers sent after a pause was put on the channel; it is the only history variable.
`count_lines` reads a fixed path, so the WaitGroup starts from a constant, `CountedLines`,
that need not be `NumCalls`.

*GoConcurrent.* `table` is the set of all calls in `priorities_and_threads`; `todo` is what
is left of the group `set_channels` is telling, in any order, as a Go map gives it. The
newcomer's goroutine is started after `set_channels` (line 186). `writing` are the
`go write_to_file` goroutines that have not run. `MainFails` and `Failure` are as
`MainFails` and `Fatal` above; here the panic of `write_to_file` comes from a goroutine of
its own.

*CppThreads1.* `input` holds what a run starts from: the flags, the lines, the limit on
streams, and `torn`, whether the scheduler may pop an id that is not there yet. (The push
to `unsubscribe` is made under the wrong mutex; what such a pop yields is a choice of the
model, `Unsubscribe`.) `Subscribe` (push) and `Clear` (`sleep_map[id] = 0`) are two steps,
as in `run_rpc`. The scheduler's loop goes round `UnsubscribeThread`, `SubscribeThread` and
`Decide`/`WakeUp`, or past each of them if there is nothing to do. `expired[c]` may become
true at any time while `c` sleeps, when `--timeout` is given. `OpenStream` is
`stub_->ComputeMean`, which waits while `limit` calls have a stream.

*CppThreads2.* The scheduler reads a line (`Subscribe`), wakes it (`Wake`), polls the queue
and, for each id on it, joins the thread and wakes the next (`Join`, `Choose`). `output` is
the output file, in order. `Stub` is `stub_->ComputeMean`. In contrast to threads 1 a call
sleeps before it opens its stream, so that only a call that has been preempted holds one.

*CppProcesses.* The scheduler binds and listens (`Listen`, or ends if the port is taken),
accepts (`Accept`) and installs its handler (`Install`); the parent connects, or exits
without forking if it cannot, as when nobody listens (`Connect`). A SIGUSR1 that comes
before `Install`, or the user's SIGINT at any time, ends the scheduler (`Die`); from then on
a message is lost or its write ends the writer, which of the two being a choice
(`AfterWrite`). A signal is pending or not. The handler runs (`Handle`) when the loop is
interrupted (`Interrupt`) or unblocks the signal (`Unblock`); it reads one message and
blocks if there is none, or gets the end of file if nobody is left who holds the other end
of the socket (`Closed`; a stopped child does). `Count` is "10000000 iterations without a
message", which sends the loop to `Block` and `ReadAnyway`. The loop's two looks at
`max_pid` are two steps (`Look`, `Compare`). With the signal blocked it then sends SIGSTOP
(`Sleep`) and SIGCONT (`Wake`), for which it reads `max_pid` a third time; a SIGINT may come
between the two. `kill(-1, SIGCONT)` is what happens when it has become -1; `broadcast`
remembers it. `max_pid` is a plain global: in an optimised build (`optimised`) the loop sees
what the handler did to it only after it has called a function, and its own copy of
`sigusr1` undoes the handler's reset.

*Servers.* A stream has a client, an inbox and a handler. `Open` waits for the server's
limit of streams on its connection; `Receive` is one turn of the handler's `Recv()` loop, or
one 'data' or 'end' event. `account` holds `sum` and `total_numbers`, one pair per handler
and one, `Module`, for the globals of the Node.js server. `Plus` adds to both; `Held` wraps
what the Go server keeps in an int32, which is every `total_numbers` and every sum but the
float32 of `ComputeMeanOrSendLongString`. The int32 are `-Half .. Half - 1`, where `Half` is
2^31 in the code and a constant of the module. An answer is kept as the pair that is
divided.

What is abstracted: the numbers and the text of the output; the duration of anything; the
parsing of well-formed messages and lines; the `--debug` output. To a client, gRPC and the
server are calls that return, with a result or an error, where the client handles errors,
and, for the C++ clients with threads, a limit on streams.

## Runs

All runs use small instances; what makes them sufficient is said with each.

| Run | Question | Instance |
|---|---|---|
| `go_client` | Do the commands follow the table, do calls of one priority run serially, does a pause take effect within `StateCap` numbers, are all results written, is `PriorityGrant` implemented? | 3 lines, any of 3 priorities (all tie and preemption patterns of three calls), 1 or 3 numbers (a call that ends before its pause is read and one that overtakes it); `subscribe` of capacity 1, so that `main` blocks |
| `go_client_ends` | Does `main` return with the counted results, and does the process end unless the scheduler is wedged on a full channel? | 4 lines of 2 priorities, 3 of them counted, the last perhaps malformed, with and without `--scheduler`; a wedge takes three commands to one call; `unsubscribe` of capacity 1, so that goroutines block |
| `go_client_hang` | *violation:* it does hang | priorities 1, 2, 2, 1 |
| `go_concurrent` | The same questions for groups | 3 lines, 3 priorities, the last line perhaps malformed, both values of `--scheduler`, both channels of capacity 1 |
| `go_concurrent_loss` | *violation:* results can be missing when `main` returns | 2 lines |
| `cpp_threads_1` | Do the caches follow the vector, is at most one call awake, are calls of one priority serial, does a finished call leave, is `PriorityGrant` implemented, does the client end, without `--timeout` unless stuck in one of three ways? | 3 lines (a tie and a preemption in either order) without a time-out; 2 lines with every combination of `--scheduler`, `--timeout` and one of 2 streams, 1 stream, or 2 streams and torn pops; 2 numbers each, room for a write too many |
| `cpp_threads_1_hang` | *violation:* a lost wake-up hangs the client | 2 lines |
| `cpp_threads_2` | Do `sleep_map` and the caches follow the table, are calls serial, is the total the last line, does the client end unless sleeping calls hold all streams? | 3 lines, 3 priorities, 2 numbers, 1 stream or 3 |
| `cpp_processes` | Wherever the handler interrupts and whenever the scheduler dies: does at most one child run, are calls serial, does a child that ends leave, is `PriorityGrant` implemented, does a broadcast only happen when nobody is subscribed, does the client end unless stuck in one of four ways? | 3 lines, priorities 1, 1, 2 and 1, 2, 1; with and without a scheduler, compiled with and without optimisation, interrupted by the user or not |
| `cpp_processes_hang` | *violation:* the fallback read hangs the client | 2 lines, nobody interrupts |
| `servers` | Is an answer the mean of the numbers of its own call, whatever other calls do, and does every stream get its turn and end? | every pair of streaming methods of either server, on one connection or two (one stream each in the Go server), up to 3 numbers of 2 and -2 where an int32 is -3 .. 2: partial sums that overflow when the sum does not, a count that does, and sums of 0 |
| `servers_shared` | *violation:* calls of `computeMeanStream` are not isolated | 2 such calls |

Three calls are the least with a running, a waiting and an arriving call, so with a
preemption during a preemption, a tie behind a preempted call and a departure that is not
that of the best call; between the runs every channel is met full. What needs four (the
wedge of the serial Go client) has four. What a lost wake-up, a torn pop, a time-out or a
held stream does to a call needs one other call, so two are enough for these.

The five violations are disagreements between the code and what its documentation says,
listed in `PROJECT.json` under "findings":

1. *Serial Go client.* A departure re-sends TRUE to the best call even if it runs. A
   goroutine that has left its loop reads no command; two unread commands fill its channel
   and the next one blocks the scheduler for good (`main.go:166`, `main.go:188`).
2. *Concurrent Go client.* `go write_to_file(...)` is followed by `wg.Done()`
   (`main.go:133`); `main` may return first.
3. *Threads 1.* A call announces itself (line 251) before it marks itself asleep (line
   264); a wake-up in between is overwritten. Only `--timeout` gets it going again.
4. *Processes.* The read "in case a signal SIGUSR1 was not delivered" takes the message of
   a signal still under way; that signal's handler then blocks in `read()`.
5. *Node.js server.* `computeMeanStream` adds to `sum` and `total_numbers` of the module,
   which nothing resets: its means are those of all calls so far.

The ending properties of the passing runs say that there are no other ways to hang than
those they name:

* `EndsUnlessWedged` (Go clients): the scheduler is blocked on the full channel of a
  goroutine that reads it no more;
* `EndsUnlessStuck` (threads 1, without `--timeout`): a wake-up was overwritten
  (`LostWakeUp`), a departure was popped before it was there (`Ghost`), or the call to run
  waits for a stream that sleeping calls hold (`StreamHeld`); with `--timeout` none;
* `EndsUnlessStreamHeld` (threads 2): only the last of these. The server of this
  repository allows one stream per connection, so a preemption of a call that has begun to
  send is enough;
* `EndsUnlessStuck` (processes): `BlockedInRead`, a child stopped after it announced its end
  (`StoppedAtTheEnd`), a dead child subscribed after a broadcast (`Ghost`), or children left
  stopped by a scheduler that has died (`Abandoned`).

### Fairness

* Go: weak fairness of `Main`, of the scheduler and of every goroutine: the runtime runs
  each goroutine that can run, and is free to take either case of a `select` that has both.
  RPCs return, if only with the deadline's error. `Failure`
  and `MainFails` have no fairness.
* C++ threads: weak fairness of every thread; both spin loops yield to the kernel's
  scheduler. With `--timeout` a call that sleeps eventually times out. `Failure` has no
  fairness.
* Processes: weak fairness of the parent, of each child, of the scheduler and of the
  delivery of an unblocked signal, and strong fairness of `Idle`: a loop that is returned
  to again and again counts its iterations, and there are finitely many messages to reset
  the count. The death of the scheduler has no fairness.
* Servers: weak fairness of opening a stream, of each client and of each handler; a stream
  may break and need not.

`CHECK_DEADLOCK FALSE` is set where the client really may stop: in the runs that contain a
wedge of a Go client, a scheduler process blocked in `read()`, or calls that wait for each
other's stream.

## Proofs

The theorems hold for every number of calls, every input file and all values of the other
constants. Their only general assumptions are those each module makes on the types of its
constants (`GoClientAssumption`, `ServersAssumption`, ...), which TLC evaluates in every run
of the module; further assumptions are named below.

| Module | Theorem | States |
|---|---|---|
| `GoClientProofs` | `TypeCorrect` | `TypeOK` |
| | `BestIsTold` | `OnlyTheBestIsTold`: once the commands are read, exactly the call `get_max_priority` would choose is active |
| | `PausedIsSilent` | `NoSendWhilePaused` |
| | `Serialised` | `SerialWithinPriority` |
| | `OverrunIsBounded` | `BoundedOverrun` |
| | `CountedAreWritten` | `WaitsForCounted` |
| | `AllAreWritten` | `WaitsForAll`, assuming `CountedLines = NumCalls` |
| | `Refinement` | `Implements`, assuming `SchedulerFlag = {TRUE}` |
| `GoConcurrentProofs` | `TypeCorrect` | `TypeOK` |
| | `BestGroupIsTold` | `TheBestGroupIsTold` |
| | `PausedIsSilent` | `NoSendWhilePaused` |
| | `OverrunIsBounded` | `BoundedOverrun` |
| | `Refinement` | `Implements` (`PriorityLevel`) |
| `CppThreads1Proofs` | `TypeCorrect` | `TypeOK` |
| | `BestIsFirst` | `MaxIsFirstOfHighest` |
| | `OneIsAwake` | `AtMostOneAwake` |
| | `OverrunIsOne` | `OneMoreWrite` |
| | `Serialised` | `SerialWithinPriority` |
| | `EndedLeave` | `NoGhost` |
| | `Refinement` | `Implements` (`PriorityGrant`) |
| `CppThreads2Proofs` | `TypeCorrect` | `TypeOK` |
| | `BestIsAwake` | `OnlyTheBestIsAwake` |
| | `OverrunIsOne` | `OneMoreWrite` |
| | `Serialised` | `SerialWithinPriority` |
| | `TotalComesLast` | `TotalIsLast` |
| | `Refinement` | `Implements` (`PriorityGrant`) |
| `CppProcessesProofs` | `TypeCorrect` | `TypeOK` |
| | `OneRuns` | `AtMostOneRuns` |
| | `Serialised` | `SerialWithinPriority` |
| | `EndedLeave` | `NoGhost` |
| | `BroadcastsAreHarmless` | the action property `BroadcastOnlyWhenEmpty` |
| | `Refinement` | `Implements` (`PriorityGrant`) |
| `ServersProofs` | `TypeCorrect` | `TypeOK`, with the sums and counts of the Go server int32 |
| | `AnswersStayOwn` | `HandlersAreIsolated` |
| `PriorityProofs` | `HighestHoldsTheGrant` | the grant of `PriorityGrant` is with a registered call of the highest priority, assuming `None \notin Id` |
| | `LevelStaysHighest` | the level of `PriorityLevel` is the highest priority registered |

Where a property has a premise (no time-out, no torn pop, nothing broadcast, nobody has
interrupted), the premise is part of the property as stated in the module, and so of what
is proved. With `Refinement`, `HighestHoldsTheGrant` and `LevelStaysHighest` speak of the
schedulers themselves: `max_id`, `max_pid` or `max_priority` never lags behind the calls
registered, however many there are.

The proof modules share one layout: the inductive invariant `Inv` as a conjunction of named
parts; lemmas about what a step leaves alone (frames); one lemma for each part, that every
step preserves it, with one step for each action; `Invariance`, which puts them together;
and a short proof of each property from `Inv`. `Inv` was checked by TLC on the instances of
the runs before it was proved.

### Why the invariants are what they are

*GoClient.* None of the properties is inductive. `OnlyTheBestIsTold` says nothing while the
scheduler is in the middle of a switch, and `BoundedOverrun` nothing of how many commands
are unread. `Inv` is

* `TypeOK`;
* `Numbered`: a call has a goroutine exactly if its id is below `id`; until then its
  channel is empty and it has sent nothing;
* `Unscheduled`: without `--scheduler` nobody unsubscribes and the scheduler sends nothing;
* `Tabled`: a call that has not unsubscribed is in the table, and what is on the
  `unsubscribe` channel are distinct calls that have finished and are still in the table;
* `Chosen`: `max_id` is the choice of `get_max_priority` over the table whenever it is read,
  and `running_id` lags behind it only between the start of a newcomer and the pause of the
  call it preempts;
* `Told`: a call that will be active once it has read its channel (`Effective`) is `max_id`
  or the call about to be paused, and `max_id` will be, unless TRUE is about to be sent;
* `Alternating`: no two commands in a row are FALSE, and a paused call's next command is
  TRUE; it is this that makes `Await`, which sends after any command, harmless;
* `Serial`: a call behind another of its priority in the table has been told nothing and
  has sent nothing;
* `Draining`: the numbers sent since the last pause, the commands in front of it and a send
  under way are together at most `StateCap`.

`Counted` (the WaitGroup counter is the counted lines minus the finished goroutines, and a
call past its reply is written) is proved the same way on top of it.

*GoConcurrent.* The parts have the same names. What is new is `set_channels`, which tells a
group member by member: `Told` is stated relative to `todo`, and `Chosen` to the groups
that count already (`Registered`), which a newcomer's does only once the group it outranks
has been paused. That is also the refinement mapping, so the step that completes the pause
is the one that refines `Register`. That `get_max_priority` has a maximum to return
(`MaxPriority`) uses `HighestExists`.

*CppThreads2.* The scheduler is the only writer of `sleep_map`, so `Awake` (of the table
only the best is awake, unless it is about to be woken) needs no more than `Chosen`.
`Serial` says that a call with an earlier one of its priority in the table has not been
woken yet, which is stronger than the property and inductive. `Reported` counts the results
in the output against the threads that have ended; the scheduler can write the total only
when the table is empty, and `Tabled` keeps every thread that has not ended in it.

*CppThreads1.* Both sides write `sleep_map`, time-outs let calls write without being woken,
and a torn pop loses a departure. So `Awakened` does not say that the best is awake (it may
not be: the lost wake-up of finding 3), only that nobody else is; `Fresh` and `Serial` are
about calls that have been neither woken nor timed out (`Untouched`); `Leaving` keeps the
premise of `NoGhost` with it. The vector is ordered by arrival, which need not be the order
of the lines, and the choice is `First`: the first call of the highest priority. The lemmas
`Arrival` and `Departure` say once what subscribing and unsubscribing do to the vector.

*CppProcesses.* `AtMostOneRuns` is inductive only together with what makes a child stand
still before the scheduler knows it: `Ready` (one that has not stopped itself is unknown to
everybody), `Waiting` (one not yet in the vector stands still from then on) and `Tabled`,
which keeps the messages on the socket, the vector and the parent in step. `Chosen` holds at
every step although handler and loop interleave, because `max_pid` and the vectors are
written only together, by whoever reads a message; what the loop has read of `max_pid`
earlier needs no invariant, as `Wake` reads it again with the signal blocked. `Switching`
says that the handler does not run between `Sleep` and `Wake`. The lemma `Reading` says once
what reading a message does.

*Servers.* Sums and counts wrap around, and an answer is right nevertheless if what it is
made of fits. So the invariant cannot take the number of messages received from
`total_numbers`: it says that there is a number `r` of messages that the handler has
received (`Local`), and that its variables are what remains of the sum of these and of `r`
after wrapping around (`Summed`). That wrapping after every addition is as good as wrapping
once is `HeldMore`; that a number which fits is held as it is, `Exact`. Both rest on two
int32 being equal when they differ by a multiple of the number of int32 (`SameInt32`).
`Queued` says that the numbers a handler has not received are those in its
inbox, in order, with the end behind them; `Answered` keeps the answers in step.

### Lemmas

`SchedulerLemmas` has what the proofs need of sequences of commands (`TakenCommand`,
`AppendedAlternating`, ...), of vectors of distinct ids (`Erased`, `JoinedBehind`,
`FirstStays`, ...), and that a finite set has a highest element (`HighestExists`).
`ServersProofs` has what it needs of sums. These facts are about data of any size, where one
would use induction; they are proved from a smallest counterexample instead:
`HighestExists` from `FS_StrictSubsetOrderingWellFounded` and `WFMin`, the lemmas on partial
sums from it (`Least`). To make this possible `SumOf` in `Servers` is a recursive function
over positions, and a vector loses an id by `RemoveFirst`, which, as the code does, erases
the first entry only.

What is only model-checked: liveness (`EndsUnlessWedged`, `EndsUnlessStuck`,
`EndsUnlessStreamHeld`, `EveryStreamEnds`), since TLAPS does not reason about ENABLED and
hence not about fairness; and the five violations, which are counterexamples.

## Not modelled

* *The methods of the servers that answer one message with one* keep no state. The division
  of a mean and its rounding are left out; so is the rounding of float32 sums.
* *The Python client's commands and timings, the scripts and the protocol definition.* No
  shared state or no behaviour.
* *gRPC itself*, but for the limit on streams: that the channels a C++ client makes to one
  address share a connection is its documented behaviour and is assumed, with a limit of as
  many streams as calls as the other case. The clients are not composed with `Servers`
  beyond that limit: what a handler computes has no effect on a scheduler.
* *Parts of a message.* `read()` on a socket may return fewer than 100 bytes, and `atoi` is
  given a copy without a terminating 0; the model reads what was written.
* *Data the generator never produces:* priorities below 1 (for which `get_max_priority`
  returns -1 and the C++ versions index with -1), lines without numbers in the C++ clients,
  lines longer than the Go scanner's buffer. Priorities above ten, for which
  `time_out_times` has no entry, are covered as far as a time-out may come at any time.
* *Debug output* and the order in which it appears.

## Plan

Every safety property the runs check is a theorem. What is left:

1. Corollaries that state the promise of the abstract specification of each client
   directly (the call that `max_id` names has the highest priority in the table), through
   the refinement.
2. The safe half of the ending properties: that in a state in which nobody can take a step
   the client has ended or is stuck in one of the ways the properties name.
3. Liveness stays with TLC.
