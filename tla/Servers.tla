------------------------------ MODULE Servers ------------------------------
(***************************************************************************)
(* The two servers, server/go_server/main.go and                           *)
(* server/node_server/server.js, and streams of messages that clients open *)
(* to them.  Every stream has a handler, which takes the messages of the   *)
(* stream in order and adds them up: in variables of its own, or, in       *)
(* computeMeanStream of the Node.js server, in variables of the module.    *)
(*                                                                         *)
(* A handler runs by itself from one message to the next.  The division    *)
(* and its rounding are left out: an answer is the pair that is divided.   *)
(* The int32 are -Half .. Half - 1: the Go server counts the numbers in    *)
(* one and adds them up in one, but in ComputeMeanOrSendLongString in a    *)
(* float32.  Float32 and the numbers of JavaScript are exact.              *)
(***************************************************************************)
EXTENDS Integers, Sequences, FiniteSets

CONSTANTS
  Stream,       \* the streams
  Numbers,      \* the numbers a client may send
  MaxMessages,  \* the most messages of a stream
  Half,         \* half the number of int32, 2^31 in the code
  Inputs        \* the servers and clients considered, see Input

Module == 0     \* the account of the Node.js module

\* A server, how many streams it allows on a connection, and what each stream
\* calls: ComputeMean, ComputeMeanStream or ComputeMeanOrSendLongString, with
\* numbers or with a string.
Input == [server : {"go", "node"}, limit : Nat \ {0},
          method : [Stream -> {"mean", "stream", "numbers", "string"}],
          connection : [Stream -> Nat]]

ASSUME ServersAssumption ==
  /\ Module \notin Stream
  /\ Numbers \subseteq Int
  /\ MaxMessages \in Nat
  /\ Half \in Nat \ {0}
  /\ Inputs \subseteq Input

VARIABLES
  input,      \* the server and its clients
  phase,      \* phase[s]: "new", "open", "ended" (by the server) or "failed"
  inbox,      \* inbox[s]: messages on their way to the handler of s
  closed,     \* closed[s]: has the client of s sent all it will?
  account,    \* account[a]: sum and total_numbers, of a handler or the module
  answers,    \* answers[s]: what the client of s has been sent
  sent        \* history: the numbers the client of s has sent

vars == <<input, phase, inbox, closed, account, answers, sent>>

method == input.method
Either(s) == method[s] \in {"numbers", "string"}

Init ==
  /\ input \in Inputs
  /\ phase = [s \in Stream |-> "new"]
  /\ inbox = [s \in Stream |-> <<>>]
  /\ closed = [s \in Stream |-> FALSE]
  /\ account = [a \in Stream \cup {Module} |-> [sum |-> 0, total |-> 0]]
  /\ answers = [s \in Stream |-> <<>>]
  /\ sent = [s \in Stream |-> <<>>]

-----------------------------------------------------------------------------
(* The clients *)

\* Mutant: streams that have ended are counted.
OpenedOn(connection) ==
  {s \in Stream : phase[s] # "new" /\ input.connection[s] = connection}

OpenOn(connection) ==
  {s \in Stream : phase[s] = "open" /\ input.connection[s] = connection}

\* The Node.js server does not have ComputeMeanOrSendLongString.
Open(s) ==
  /\ phase[s] = "new"
  /\ Cardinality(OpenOn(input.connection[s])) < input.limit
  /\ phase' = [phase EXCEPT ![s] =
       IF input.server = "node" /\ Either(s) THEN "failed" ELSE "open"]
  /\ UNCHANGED <<input, inbox, closed, account, answers, sent>>

Sends(s, messages) ==
  /\ phase[s] = "open" /\ ~closed[s]
  /\ inbox' = [inbox EXCEPT ![s] = @ \o messages]
  /\ UNCHANGED <<input, phase, account, answers>>

EOF == [kind |-> "eof", value |-> 0]

SendNumber(s) ==
  /\ method[s] # "string" /\ Len(sent[s]) < MaxMessages
  /\ \E n \in Numbers :
       /\ Sends(s, <<[kind |-> "number", value |-> n]>>)
       /\ sent' = [sent EXCEPT ![s] = Append(@, n)]
  /\ UNCHANGED closed

\* The only message of its stream.
SendString(s) ==
  /\ method[s] = "string"
  /\ Sends(s, <<[kind |-> "string", value |-> 0], EOF>>)
  /\ closed' = [closed EXCEPT ![s] = TRUE]
  /\ UNCHANGED sent

CloseSend(s) ==
  /\ method[s] # "string"
  /\ Sends(s, <<EOF>>)
  /\ closed' = [closed EXCEPT ![s] = TRUE]
  /\ UNCHANGED sent

\* The client goes away, or its deadline passes: Recv() returns an error and
\* the handler returns it; in the Node.js server there is no 'end'.
Break(s) ==
  /\ phase[s] = "open"
  /\ phase' = [phase EXCEPT ![s] = "failed"]
  /\ UNCHANGED <<input, inbox, closed, account, answers, sent>>

-----------------------------------------------------------------------------
(* The handlers *)

\* The variables the handler of s adds to.
Account(s) ==
  IF input.server = "node" /\ method[s] = "stream" THEN Module ELSE s

\* Mutant: it does not.
WrapNever(n) == n

\* An int32 wraps around.
Wrap(n) == ((n + Half) % (2 * Half)) - Half

\* What a variable that is to hold n holds, if it is an int32 and if not.
Held(int32, n) == IF int32 THEN Wrap(n) ELSE n

\* Is total_numbers an int32?  And is the sum one?
Int32Total == input.server = "go"
Int32(s) == input.server = "go" /\ ~Either(s)

Plus(s, old, number) ==
  [sum |-> Held(Int32(s), old.sum + number), total |-> Held(Int32Total, old.total + 1)]

\* Mutant: every message counts as a number.
AddAll(s, message) ==
  account' = [account EXCEPT ![Account(s)] = Plus(s, @, message.value)]

Add(s, message) ==
  account' = [account EXCEPT ![Account(s)] =
    IF message.kind = "number" THEN Plus(s, @, message.value) ELSE @]

\* A handler that is asked for a mean or a string takes a sum of 0 for "there
\* was a string".
AnswersString(s) == Either(s) /\ account'[Account(s)].sum = 0

Answer(s) ==
  answers' = [answers EXCEPT ![s] =
    Append(@, [string |-> AnswersString(s), sum |-> account'[Account(s)].sum,
               total |-> account'[Account(s)].total])]

Receive(s) ==
  /\ phase[s] = "open" /\ inbox[s] # <<>>
  /\ LET message == Head(inbox[s])  last == message.kind = "eof" IN
       /\ Add(s, message)
       /\ IF last = (method[s] # "stream") THEN Answer(s) ELSE UNCHANGED answers
       /\ phase' = [phase EXCEPT ![s] = IF last THEN "ended" ELSE "open"]
  /\ inbox' = [inbox EXCEPT ![s] = Tail(@)]
  /\ UNCHANGED <<input, closed, sent>>

-----------------------------------------------------------------------------
Client(s) == SendNumber(s) \/ SendString(s) \/ CloseSend(s)

Next ==
  \/ \E s \in Stream : Open(s) \/ Client(s) \/ Receive(s) \/ Break(s)
  \/ (\A s \in Stream : phase[s] \in {"ended", "failed"}) /\ UNCHANGED vars

Spec == Init /\ [][Next]_vars

\* A client goes on until it has sent all it will, a message arrives, and a
\* stream that may be opened is.
FairSpec ==
  /\ Spec
  /\ \A s \in Stream : WF_vars(Open(s)) /\ WF_vars(Client(s)) /\ WF_vars(Receive(s))

-----------------------------------------------------------------------------
(* Properties *)

SumOf(numbers) ==
  LET partial[i \in 0 .. Len(numbers)] ==
        IF i = 0 THEN 0 ELSE partial[i - 1] + numbers[i]
  IN  partial[Len(numbers)]

Fits(n) == -Half <= n /\ n < Half

Message == [kind : {"number", "string", "eof"}, value : Numbers \cup {0}]

TypeOK ==
  /\ input \in Input
  /\ phase \in [Stream -> {"new", "open", "ended", "failed"}]
  /\ inbox \in [Stream -> Seq(Message)]
  /\ closed \in [Stream -> BOOLEAN]
  /\ account \in [Stream \cup {Module} -> [sum : Int, total : Int]]
  /\ \A s \in Stream : /\ Int32(s) => Fits(account[s].sum)
                       /\ Int32Total => Fits(account[s].total)
  /\ answers \in [Stream -> Seq([string : BOOLEAN, sum : Int, total : Int])]
  /\ sent \in [Stream -> Seq(Numbers)]

\* An answer is the mean of the numbers of its own call: of all of them, or, of
\* a stream of answers, the i-th is that of the first i; whatever other calls do
\* meanwhile and however a client breaks off, and although partial sums may
\* overflow: the sum is right if it fits in the variable that holds it, and the
\* count if it does.  A string comes for a string, or when the numbers add up
\* to 0.
AnswersAreOwn(s) ==
  \A i \in DOMAIN answers[s] :
    LET answer == answers[s][i]
        numbers == IF method[s] = "stream" THEN SubSeq(sent[s], 1, i) ELSE sent[s] IN
      /\ ~Int32Total \/ Fits(Len(numbers)) => answer.total = Len(numbers)
      /\ ~Int32(s) \/ Fits(SumOf(numbers)) => answer.sum = SumOf(numbers)
      /\ answer.string <=> method[s] = "string" \/ (Either(s) /\ SumOf(numbers) = 0)

\* So it is in the Go server and in computeMean of the Node.js server ...
HandlersAreIsolated ==
  \A s \in Stream : (input.server = "go" \/ method[s] # "stream") => AnswersAreOwn(s)

\* ... and in computeMeanStream, which "Implements the ComputeMeanStream RPC
\* method" of the other server.
StreamsAreIsolated == \A s \in Stream : AnswersAreOwn(s)

\* Every stream is opened, although the server allows one at a time, and ends.
EveryStreamEnds == \A s \in Stream : <>(phase[s] \in {"ended", "failed"})

=============================================================================
