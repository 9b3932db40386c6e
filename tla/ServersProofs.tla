---------------------------- MODULE ServersProofs ----------------------------
(***************************************************************************)
(* Proofs about Servers, for any streams, numbers, connections and width   *)
(* of an int32.                                                            *)
(***************************************************************************)
EXTENDS Servers, SchedulerLemmas

-----------------------------------------------------------------------------
(* Sums *)

\* p are partial sums of the first n numbers.
Adds(p, n, numbers) ==
  /\ p \in [0 .. n -> Int] /\ p[0] = 0
  /\ \A i \in 1 .. n : p[i] = p[i - 1] + numbers[i]

\* A set of positions that is not empty has a least one.
LEMMA Least ==
  ASSUME NEW n \in Nat, NEW B, B \subseteq 0 .. n, B # {}
  PROVE  \E i \in B : \A j \in B : i <= j
<1> DEFINE f == [i \in 0 .. n |-> -i]
<1>1. IsFiniteSet(B)
  <2>1. IsFiniteSet(0 .. n)
    BY FS_Interval
  <2> QED
    BY <2>1, FS_Subset
<1>2. \A i \in B : f[i] = -i
  OBVIOUS
<1> HIDE DEF f
<1>3. \A i \in B : f[i] \in Int
  BY <1>2
<1>4. PICK i \in B : \A j \in B : f[j] <= f[i]
  BY <1>1, <1>3, HighestExists
<1> QED
  BY <1>2, <1>4

\* Numbers have partial sums: otherwise take the fewest that have none, and add
\* the last of them to the sums of the others.
LEMMA PartialSumsExist ==
  ASSUME NEW numbers \in Seq(Int)
  PROVE  \E p : Adds(p, Len(numbers), numbers)
<1>l. Len(numbers) \in Nat /\ \A i \in 1 .. Len(numbers) : numbers[i] \in Int
  OBVIOUS
<1> DEFINE B == {n \in 0 .. Len(numbers) : ~\E p : Adds(p, n, numbers)}
<1>1. SUFFICES ASSUME B # {} PROVE FALSE
  BY <1>l
<1>2. PICK n \in B : \A m \in B : n <= m
  <2>1. B \subseteq 0 .. Len(numbers)
    OBVIOUS
  <2> HIDE DEF B
  <2> QED
    BY <1>l, <1>1, <2>1, Least
<1>3. n # 0
  <2>1. Adds([i \in 0 .. 0 |-> 0], 0, numbers)
    BY DEF Adds
  <2> QED
    BY <1>2, <2>1
<1>4. n - 1 \in 0 .. Len(numbers) /\ n - 1 \notin B
  BY <1>2, <1>3
<1>5. PICK p : Adds(p, n - 1, numbers)
  BY <1>4
<1> DEFINE q == [i \in 0 .. n |-> IF i = n THEN p[n - 1] + numbers[n] ELSE p[i]]
<1>6. Adds(q, n, numbers)
  <2>1. n \in Nat /\ numbers[n] \in Int /\ p[n - 1] \in Int
    BY <1>l, <1>2, <1>3, <1>5 DEF Adds
  <2>2. q \in [0 .. n -> Int] /\ q[0] = 0
    BY <1>3, <1>5, <2>1 DEF Adds
  <2>3. ASSUME NEW i \in 1 .. n PROVE q[i] = q[i - 1] + numbers[i]
    BY <1>5, <2>1, <2>3 DEF Adds
  <2> QED
    BY <2>2, <2>3 DEF Adds
<1> QED
  BY <1>2, <1>6

\* The partial sums of a list and of one that continues it are the same, as far
\* as the first goes: otherwise take the first place where they differ.
LEMMA PartialSumsAgree ==
  ASSUME NEW n \in Nat, NEW m \in n .. n + 1, NEW a \in Seq(Int), NEW b \in Seq(Int),
         \A i \in 1 .. n : a[i] = b[i],
         NEW p, Adds(p, n, a), NEW q, Adds(q, m, b)
  PROVE  p[n] = q[n]
<1> DEFINE B == {i \in 0 .. n : p[i] # q[i]}
<1>1. SUFFICES ASSUME B # {} PROVE FALSE
  OBVIOUS
<1>2. PICK i \in B : \A j \in B : i <= j
  BY <1>1, Least
<1>3. i # 0
  BY <1>2 DEF Adds
<1>4. i - 1 \in 0 .. n /\ p[i - 1] = q[i - 1]
  BY <1>2, <1>3
<1> QED
  BY <1>2, <1>3, <1>4 DEF Adds

\* SumOf is the last of the partial sums.
LEMMA SumIs ==
  ASSUME NEW numbers \in Seq(Int)
  PROVE  \E p : Adds(p, Len(numbers), numbers) /\ SumOf(numbers) = p[Len(numbers)]
<1> DEFINE F(p) == p = [i \in 0 .. Len(numbers) |-> IF i = 0 THEN 0 ELSE p[i - 1] + numbers[i]]
<1>0. Len(numbers) \in Nat /\ \A i \in 1 .. Len(numbers) : numbers[i] \in Int
  OBVIOUS
<1>1. PICK p : Adds(p, Len(numbers), numbers)
  BY PartialSumsExist
<1>2. F(p)
  BY <1>1 DEF Adds
<1> DEFINE c == CHOOSE q : F(q)
<1>3. F(c)
  <2> HIDE DEF F
  <2> QED
    BY <1>2
<1>4. SumOf(numbers) = c[Len(numbers)]
  BY DEF SumOf
<1>5. Adds(c, Len(numbers), numbers)
  <2>1. \A i \in 0 .. Len(numbers) : c[i] = p[i]
    <3>0. ASSUME NEW q, F(q) PROVE \A i \in 0 .. Len(numbers) : q[i] = p[i]
      <4> DEFINE B == {i \in 0 .. Len(numbers) : q[i] # p[i]}
      <4>1. SUFFICES ASSUME B # {} PROVE FALSE
        OBVIOUS
      <4>2. PICK i \in B : \A j \in B : i <= j
        BY <1>0, <4>1, Least
      <4>3. i # 0
        BY <1>2, <3>0, <4>2
      <4>4. i - 1 \in 0 .. Len(numbers) /\ p[i - 1] = q[i - 1]
        BY <1>0, <4>2, <4>3
      <4> QED
        BY <1>2, <3>0, <4>2, <4>3, <4>4
    <3> QED
      BY <1>3, <3>0
  <2>2. c = [i \in 0 .. Len(numbers) |-> c[i]] /\ p = [i \in 0 .. Len(numbers) |-> p[i]]
    BY <1>2, <1>3
  <2> HIDE DEF c
  <2> QED
    BY <1>1, <2>1, <2>2
<1> QED
  BY <1>4, <1>5

\* One more number adds itself to the sum.
LEMMA SumOfAppended ==
  ASSUME NEW numbers \in Seq(Int), NEW n \in Int
  PROVE  /\ SumOf(numbers) \in Int
         /\ SumOf(Append(numbers, n)) = SumOf(numbers) + n
<1> DEFINE l == Len(numbers)
           longer == Append(numbers, n)
<1>0. /\ l \in Nat /\ longer \in Seq(Int) /\ Len(longer) = l + 1
      /\ longer[l + 1] = n /\ \A i \in 1 .. l : numbers[i] = longer[i]
  OBVIOUS
<1>1. PICK p : Adds(p, l, numbers) /\ SumOf(numbers) = p[l]
  BY SumIs
<1>2. PICK q : Adds(q, l + 1, longer) /\ SumOf(longer) = q[l + 1]
  BY <1>0, SumIs
<1>3. p[l] = q[l]
  <2>1. l + 1 \in l .. l + 1
    BY <1>0
  <2> HIDE DEF l, longer
  <2> QED
    BY <1>0, <1>1, <1>2, <2>1, PartialSumsAgree
<1>4. q[l + 1] = q[l] + n /\ p[l] \in Int
  <2>1. l \in 0 .. l /\ l + 1 \in 1 .. l + 1 /\ (l + 1) - 1 = l
    BY <1>0
  <2> HIDE DEF l, longer
  <2>2. q[l + 1] = q[(l + 1) - 1] + longer[l + 1]
    BY <1>2, <2>1 DEF Adds
  <2> QED
    BY <1>0, <1>1, <2>1, <2>2 DEF Adds
<1> QED
  BY <1>1, <1>2, <1>3, <1>4

\* No numbers add up to 0.
LEMMA SumOfEmpty == SumOf(<<>>) = 0
<1>1. PICK p : Adds(p, Len(<<>>), <<>>) /\ SumOf(<<>>) = p[Len(<<>>)]
  <2>1. <<>> \in Seq(Int)
    OBVIOUS
  <2> QED
    BY <2>1, SumIs
<1> QED
  BY <1>1 DEF Adds

\* So it is for the numbers a handler has received and the next one.
LEMMA SumOfPrefix ==
  ASSUME NEW numbers \in Seq(Int), NEW n \in 0 .. Len(numbers) - 1
  PROVE  /\ SumOf(SubSeq(numbers, 1, n)) \in Int
         /\ SumOf(SubSeq(numbers, 1, n + 1)) = SumOf(SubSeq(numbers, 1, n)) + numbers[n + 1]
<1>1. SubSeq(numbers, 1, n) \in Seq(Int) /\ numbers[n + 1] \in Int
  OBVIOUS
<1>2. SubSeq(numbers, 1, n + 1) = Append(SubSeq(numbers, 1, n), numbers[n + 1])
  OBVIOUS
<1> QED
  BY <1>1, <1>2, SumOfAppended

-----------------------------------------------------------------------------
(* int32 *)

\* Wrapping around yields an int32 that differs by a multiple of the number of
\* int32.
LEMMA Wraps ==
  ASSUME NEW n \in Int
  PROVE  /\ Wrap(n) \in Int /\ Fits(Wrap(n))
         /\ \E k \in Int : Wrap(n) = n + k * (2 * Half)
<1>1. 2 * Half \in Nat /\ 2 * Half > 0 /\ n + Half \in Int
  BY ServersAssumption
<1>2. \A a \in Int, b \in Nat : b > 0 => a = b * (a \div b) + (a % b) /\ a % b \in 0 .. b - 1 /\ a \div b \in Int
  OBVIOUS
<1> DEFINE d == (n + Half) \div (2 * Half)
           r == (n + Half) % (2 * Half)
<1>3. d \in Int /\ r \in 0 .. 2 * Half - 1 /\ n + Half = (2 * Half) * d + r
  BY <1>1, <1>2
<1> HIDE DEF d
<1>4. Wrap(n) = r - Half
  BY DEF Wrap
<1> HIDE DEF r
<1>5. r - Half = n + (-d) * (2 * Half)
  BY <1>3, ServersAssumption
<1>6. Wrap(n) \in Int /\ Fits(Wrap(n))
  BY <1>3, <1>4, ServersAssumption DEF Fits
<1> QED
  BY <1>3, <1>4, <1>5, <1>6

\* Two int32 that differ by such a multiple are the same.
LEMMA SameInt32 ==
  ASSUME NEW a \in Int, NEW b \in Int, NEW k \in Int, a = b + k * (2 * Half), Fits(a), Fits(b)
  PROVE  a = b
<1>1. CASE k = 0
  <2>1. k * (2 * Half) = 0
    BY <1>1, ServersAssumption
  <2> QED
    BY <2>1
<1>2. CASE k >= 1
  <2>1. k * (2 * Half) >= 2 * Half
    BY <1>2, ServersAssumption
  <2> QED
    BY <2>1, ServersAssumption DEF Fits
<1>3. CASE k <= -1
  <2>1. k * (2 * Half) <= -(2 * Half)
    BY <1>3, ServersAssumption
  <2> QED
    BY <2>1, ServersAssumption DEF Fits
<1> QED
  BY <1>1, <1>2, <1>3

\* A variable holds a number that fits as it is, and any number if it is no int32.
LEMMA Exact ==
  ASSUME NEW int32 \in BOOLEAN, NEW n \in Int, ~int32 \/ Fits(n)
  PROVE  Held(int32, n) = n
<1>1. PICK k \in Int : Wrap(n) = n + k * (2 * Half)
  BY Wraps
<1>2. Wrap(n) \in Int /\ Fits(Wrap(n))
  BY Wraps
<1> QED
  BY <1>1, <1>2, SameInt32 DEF Held

\* Adding to a variable is adding to what it is to hold, though that has wrapped
\* around.
LEMMA HeldMore ==
  ASSUME NEW int32 \in BOOLEAN, NEW a \in Int, NEW n \in Int
  PROVE  /\ Held(int32, a) \in Int /\ (int32 => Fits(Held(int32, a)))
         /\ Held(int32, Held(int32, a) + n) = Held(int32, a + n)
<1>1. Wrap(a) \in Int /\ Fits(Wrap(a)) /\ a + n \in Int
  BY Wraps
<1>2. Wrap(a) + n \in Int
  BY <1>1
<1>3. PICK i \in Int : Wrap(a) = a + i * (2 * Half)
  BY Wraps
<1>4. PICK j \in Int : Wrap(Wrap(a) + n) = (Wrap(a) + n) + j * (2 * Half)
  BY <1>2, Wraps
<1>5. PICK k \in Int : Wrap(a + n) = (a + n) + k * (2 * Half)
  BY <1>1, Wraps
<1>6. /\ Wrap(Wrap(a) + n) \in Int /\ Fits(Wrap(Wrap(a) + n))
      /\ Wrap(a + n) \in Int /\ Fits(Wrap(a + n))
  BY <1>1, <1>2, Wraps
<1>7. Wrap(Wrap(a) + n) = Wrap(a + n) + (i + j - k) * (2 * Half)
  <2>1. 2 * Half \in Int
    BY ServersAssumption
  <2>2. \A w \in Int : (i + j - k) * w = i * w + j * w - k * w
    OBVIOUS
  <2>3. \A w \in Int : i * w \in Int /\ j * w \in Int /\ k * w \in Int
    OBVIOUS
  <2> HIDE DEF Wrap
  <2> QED
    BY <1>3, <1>4, <1>5, <2>1, <2>2, <2>3
<1>8. Wrap(Wrap(a) + n) = Wrap(a + n)
  <2>1. i + j - k \in Int
    OBVIOUS
  <2> QED
    BY <1>6, <1>7, <2>1, SameInt32
<1> QED
  BY <1>1, <1>8 DEF Held

-----------------------------------------------------------------------------
(* The inductive invariant *)

\* The handlers that add to variables of their own.
Own(s) == input.server = "go" \/ method[s] # "stream"

\* A handler has counted and added up the first r numbers its client has sent,
\* each in its variable ...
Summed(s, r) ==
  Own(s) =>
    account[s] = [sum |-> Held(Int32(s), SumOf(SubSeq(sent[s], 1, r))),
                  total |-> Held(Int32Total, r)]

\* ... the others are on their way to it, in order, with the end behind them ...
Left(s, r) == Len(sent[s]) - r
Queued(s, r) ==
  Own(s) /\ phase[s] \in {"new", "open"} =>
    /\ Left(s, r) <= Len(inbox[s])
    /\ ~closed[s] => Left(s, r) = Len(inbox[s])
    /\ \A i \in 1 .. Len(inbox[s]) :
         IF i <= Left(s, r)
         THEN inbox[s][i] = [kind |-> "number", value |-> sent[s][r + i]]
         ELSE inbox[s][i].kind # "number"
    /\ \A i \in 1 .. Len(inbox[s]) : inbox[s][i].kind = "string" => method[s] = "string"

\* ... and it has answered each of them, or answers at the end.
Answered(s, r) ==
  /\ method[s] = "string" => sent[s] = <<>>
  /\ Own(s) =>
       /\ AnswersAreOwn(s)
       /\ method[s] = "stream" => Len(answers[s]) = r
       /\ method[s] # "stream" /\ phase[s] \in {"new", "open"} => answers[s] = <<>>

\* The handler of s has received r numbers; total_numbers would tell how many if
\* it did not wrap around.
Local(s, r) == Summed(s, r) /\ Queued(s, r) /\ Answered(s, r)

Inv == TypeOK /\ \A s \in Stream : \E r \in 0 .. Len(sent[s]) : Local(s, r)


-----------------------------------------------------------------------------
(* Steps *)

\* A step of the stream s.
Of(s) == Open(s) \/ Client(s) \/ Receive(s) \/ Break(s)

\* What a message carries can be added.
LEMMA NumbersAreIntegers == \A n \in Numbers \cup {0} : n \in Int
<1>1. Numbers \subseteq Int
  BY ServersAssumption
<1> QED
  BY <1>1

\* The types the proofs need most.
LEMMA Types ==
  ASSUME TypeOK, NEW s \in Stream
  PROVE  /\ account[s].sum \in Int /\ account[s].total \in Int
         /\ inbox[s] \in Seq(Message)
         /\ sent[s] \in Seq(Numbers) /\ sent[s] \in Seq(Int)
         /\ answers[s] \in Seq([string : BOOLEAN, sum : Int, total : Int])
         /\ closed[s] \in BOOLEAN
         /\ phase[s] \in {"new", "open", "ended", "failed"}
<1>1. account[s] \in [sum : Int, total : Int]
  BY DEF TypeOK
<1>2. sent[s] \in Seq(Numbers)
  BY DEF TypeOK
<1>3. sent[s] \in Seq(Int)
  <2>1. \A n \in Numbers : n \in Int
    BY NumbersAreIntegers
  <2>3. /\ Len(sent[s]) \in Nat
        /\ sent[s] = [i \in 1 .. Len(sent[s]) |-> sent[s][i]]
        /\ \A i \in 1 .. Len(sent[s]) : sent[s][i] \in Numbers
    BY <1>2
  <2>4. sent[s] \in [1 .. Len(sent[s]) -> Int]
    BY <2>1, <2>3
  <2> QED
    BY <2>3, <2>4
<1> QED
  BY <1>1, <1>2, <1>3 DEF TypeOK

\* Streams have nothing in common but the account of the module.
LEMMA Frame ==
  ASSUME TypeOK, NEW t \in Stream, Of(t), NEW s \in Stream, s # t
  PROVE  /\ input' = input
         /\ phase'[s] = phase[s] /\ inbox'[s] = inbox[s] /\ closed'[s] = closed[s]
         /\ answers'[s] = answers[s] /\ sent'[s] = sent[s]
         /\ account'[s] = account[s]
<1>1. CASE Open(t)
  BY <1>1 DEF Open, TypeOK
<1>2. CASE Break(t)
  BY <1>2 DEF Break, TypeOK
<1>3. CASE SendNumber(t)
  <2>1. PICK n \in Numbers :
          /\ Sends(t, <<[kind |-> "number", value |-> n]>>)
          /\ sent' = [sent EXCEPT ![t] = Append(@, n)]
    BY <1>3 DEF SendNumber
  <2> QED
    BY <1>3, <2>1 DEF SendNumber, Sends, TypeOK
<1>4. CASE SendString(t)
  BY <1>4 DEF SendString, Sends, TypeOK
<1>5. CASE CloseSend(t)
  BY <1>5 DEF CloseSend, Sends, TypeOK
<1>6. CASE Receive(t)
  <2>1. /\ UNCHANGED <<input, closed, sent>>
        /\ inbox' = [inbox EXCEPT ![t] = Tail(@)]
        /\ Add(t, Head(inbox[t]))
        /\ Answer(t) \/ UNCHANGED answers
        /\ phase' = [phase EXCEPT ![t] = IF Head(inbox[t]).kind = "eof" THEN "ended" ELSE "open"]
    BY <1>6 DEF Receive
  <2>2. Account(t) # s
    BY ServersAssumption DEF Account
  <2>3. account'[s] = account[s]
    BY <2>1, <2>2 DEF Add, TypeOK
  <2>4. answers'[s] = answers[s]
    BY <2>1 DEF Answer, TypeOK
  <2> QED
    BY <2>1, <2>3, <2>4 DEF TypeOK
<1> QED
  BY <1>1, <1>2, <1>3, <1>4, <1>5, <1>6 DEF Of, Client

\* What is said of a stream depends on its own variables only.
LEMMA LocalFrame ==
  ASSUME NEW s \in Stream, NEW r, Local(s, r), input' = input, phase'[s] = phase[s],
         inbox'[s] = inbox[s], closed'[s] = closed[s], answers'[s] = answers[s],
         sent'[s] = sent[s], account'[s] = account[s]
  PROVE  Local(s, r)'
<1>1. /\ Own(s)' = Own(s) /\ Int32(s)' = Int32(s) /\ Int32Total' = Int32Total
      /\ Either(s)' = Either(s) /\ method'[s] = method[s]
  BY DEF Own, Int32, Int32Total, Either, method
<1>2. Summed(s, r)'
  BY <1>1 DEF Local, Summed
<1>3. Queued(s, r)'
  BY <1>1 DEF Local, Queued, Left
<1>4. Answered(s, r)'
  BY <1>1 DEF Local, Answered, AnswersAreOwn
<1> QED
  BY <1>2, <1>3, <1>4 DEF Local

\* A message of the right kind.
LEMMA Received ==
  ASSUME TypeOK, NEW s \in Stream, inbox[s] # <<>>
  PROVE  /\ Head(inbox[s]) = inbox[s][1] /\ 1 \in 1 .. Len(inbox[s])
         /\ Head(inbox[s]) \in Message
         /\ Head(inbox[s]).value \in Int
         /\ Tail(inbox[s]) \in Seq(Message)
         /\ Len(Tail(inbox[s])) = Len(inbox[s]) - 1
         /\ \A i \in 1 .. Len(Tail(inbox[s])) : Tail(inbox[s])[i] = inbox[s][i + 1]
<1>1. inbox[s] \in Seq(Message)
  BY Types
<1>2. Head(inbox[s]) \in Message /\ Head(inbox[s]) = inbox[s][1]
  BY <1>1
<1>3. Head(inbox[s]).value \in Int
  <2>1. Head(inbox[s]).value \in Numbers \cup {0}
    BY <1>2 DEF Message
  <2> QED
    BY <2>1, NumbersAreIntegers
<1> QED
  BY <1>1, <1>2, <1>3

-----------------------------------------------------------------------------
(* Types *)

\* A handler's variables stay int32 where the code declares them so.
LEMMA TypeStep == TypeOK /\ [Next]_vars => TypeOK'
<1> SUFFICES ASSUME TypeOK, [Next]_vars PROVE TypeOK'
  OBVIOUS
<1>1. CASE UNCHANGED vars
  BY <1>1 DEF vars, TypeOK, Int32, Int32Total, Either, method
<1>2. ASSUME NEW s \in Stream, Of(s) PROVE TypeOK'
  <2>t. /\ inbox[s] \in Seq(Message) /\ sent[s] \in Seq(Numbers)
        /\ answers[s] \in Seq([string : BOOLEAN, sum : Int, total : Int])
    BY Types
  <2>m. ASSUME NEW n \in Numbers PROVE [kind |-> "number", value |-> n] \in Message
    BY DEF Message
  <2>n. EOF \in Message /\ [kind |-> "string", value |-> 0] \in Message
    BY DEF EOF, Message
  <2>a. ASSUME account' = account, input' = input
        PROVE  /\ account' \in [Stream \cup {Module} -> [sum : Int, total : Int]]
               /\ \A t \in Stream : /\ Int32(t)' => Fits(account'[t].sum)
                                    /\ Int32Total' => Fits(account'[t].total)
    BY <2>a DEF TypeOK, Int32, Int32Total, Either, method
  <2>1. CASE Open(s)
    BY <2>1, <2>a DEF Open, TypeOK
  <2>2. CASE Break(s)
    BY <2>2, <2>a DEF Break, TypeOK
  <2>3. CASE SendNumber(s)
    <3>1. PICK n \in Numbers :
            /\ Sends(s, <<[kind |-> "number", value |-> n]>>)
            /\ sent' = [sent EXCEPT ![s] = Append(@, n)]
      BY <2>3 DEF SendNumber
    <3>2. inbox[s] \o <<[kind |-> "number", value |-> n]>> \in Seq(Message)
      BY <2>t, <2>m
    <3> QED
      BY <2>3, <2>a, <2>t, <3>1, <3>2 DEF SendNumber, Sends, TypeOK
  <2>4. CASE SendString(s)
    <3>1. inbox[s] \o <<[kind |-> "string", value |-> 0], EOF>> \in Seq(Message)
      BY <2>t, <2>n
    <3> QED
      BY <2>4, <2>a, <3>1 DEF SendString, Sends, TypeOK
  <2>5. CASE CloseSend(s)
    <3>1. inbox[s] \o <<EOF>> \in Seq(Message)
      BY <2>t, <2>n
    <3> QED
      BY <2>5, <2>a, <3>1 DEF CloseSend, Sends, TypeOK
  <2>6. CASE Receive(s)
    <3> DEFINE m == Head(inbox[s])  a == Account(s)
    <3>1. /\ UNCHANGED <<input, closed, sent>>
          /\ inbox' = [inbox EXCEPT ![s] = Tail(@)]
          /\ Add(s, m)
          /\ Answer(s) \/ UNCHANGED answers
          /\ phase' = [phase EXCEPT ![s] = IF m.kind = "eof" THEN "ended" ELSE "open"]
          /\ inbox[s] # <<>>
      BY <2>6 DEF Receive
    <3>2. m.value \in Int /\ Tail(inbox[s]) \in Seq(Message)
      BY <3>1, Received
    <3>3. a \in Stream \cup {Module} /\ account[a].sum \in Int /\ account[a].total \in Int
      BY DEF Account, TypeOK
    <3> DEFINE b == Plus(s, account[a], m.value)
    <3>4. /\ b \in [sum : Int, total : Int]
          /\ Int32(s) => Fits(b.sum)
          /\ Int32Total => Fits(b.total)
      <4>1. account[a].sum + m.value \in Int /\ account[a].total + 1 \in Int
        BY <3>2, <3>3
      <4>2. Int32(s) \in BOOLEAN /\ Int32Total \in BOOLEAN
        BY DEF Int32, Int32Total, Either
      <4>3. /\ Held(Int32(s), account[a].sum + m.value) \in Int
            /\ Int32(s) => Fits(Held(Int32(s), account[a].sum + m.value))
            /\ Held(Int32Total, account[a].total + 1) \in Int
            /\ Int32Total => Fits(Held(Int32Total, account[a].total + 1))
        BY <4>1, <4>2, HeldMore
      <4> QED
        BY <4>3 DEF Plus
    <3> HIDE DEF b
    <3>5. /\ account' \in [Stream \cup {Module} -> [sum : Int, total : Int]]
          /\ \A t \in Stream : /\ Int32(t) => Fits(account'[t].sum)
                               /\ Int32Total => Fits(account'[t].total)
      <4>1. CASE m.kind = "number"
        <5>1. account' = [account EXCEPT ![a] = b]
          BY <3>1, <4>1 DEF Add, b
        <5>2. account' \in [Stream \cup {Module} -> [sum : Int, total : Int]]
          BY <3>3, <3>4, <5>1 DEF TypeOK
        <5>3. ASSUME NEW t \in Stream
              PROVE  /\ Int32(t) => Fits(account'[t].sum)
                     /\ Int32Total => Fits(account'[t].total)
          <6>1. CASE t = a
            <7>1. t = s
              BY <6>1, ServersAssumption DEF Account
            <7>2. account'[t] = b
              BY <5>1, <6>1 DEF TypeOK
            <7> QED
              BY <3>4, <7>1, <7>2
          <6>2. CASE t # a
            BY <5>1, <5>3, <6>2 DEF TypeOK
          <6> QED
            BY <6>1, <6>2
        <5> QED
          BY <5>2, <5>3
      <4>2. CASE m.kind # "number"
        <5>1. account' = account
          BY <3>1, <4>2 DEF Add, TypeOK
        <5> QED
          BY <5>1 DEF TypeOK
      <4> QED
        BY <4>1, <4>2
    <3>6. answers' \in [Stream -> Seq([string : BOOLEAN, sum : Int, total : Int])]
      <4>1. CASE UNCHANGED answers
        BY <4>1 DEF TypeOK
      <4>2. CASE Answer(s)
        <5>1. account'[a].sum \in Int /\ account'[a].total \in Int
          BY <3>3, <3>5
        <5>2. a' = a
          BY <3>1 DEF Account, method
        <5>3. AnswersString(s) \in BOOLEAN
          BY DEF AnswersString, Either
        <5> DEFINE answer == [string |-> AnswersString(s), sum |-> account'[a].sum,
                              total |-> account'[a].total]
        <5>4. answer \in [string : BOOLEAN, sum : Int, total : Int]
          BY <5>1, <5>3
        <5>5. answers' = [answers EXCEPT ![s] = Append(@, answer)]
          BY <4>2 DEF Answer
        <5> HIDE DEF answer
        <5> QED
          BY <2>t, <5>4, <5>5 DEF TypeOK
      <4> QED
        BY <3>1, <4>1, <4>2
    <3>7. \A t \in Stream : Int32(t)' = Int32(t) /\ Int32Total' = Int32Total
      BY <3>1 DEF Int32, Int32Total, Either, method
    <3> QED
      BY <3>1, <3>2, <3>5, <3>6, <3>7 DEF TypeOK
  <2> QED
    BY <1>2, <2>1, <2>2, <2>3, <2>4, <2>5, <2>6 DEF Of, Client
<1> QED
  BY <1>1, <1>2 DEF Next, Of

-----------------------------------------------------------------------------
(* What a stream is, at every step of its own *)

\* What stays of a stream whose client sends no number and whose handler does
\* not run.
LEMMA SilentFrame ==
  ASSUME TypeOK, NEW s \in Stream, NEW r, Local(s, r), input' = input, answers' = answers,
         sent' = sent, account' = account,
         phase'[s] \in {"new", "open"} => phase[s] \in {"new", "open"}
  PROVE  /\ Summed(s, r)' /\ Answered(s, r)'
         /\ inbox' = inbox /\ closed' = closed => Queued(s, r)'
<1>1. /\ Own(s)' = Own(s) /\ Int32(s)' = Int32(s) /\ Int32Total' = Int32Total
      /\ Either(s)' = Either(s) /\ method' = method
  BY DEF Own, Int32, Int32Total, Either, method
<1>2. Summed(s, r)'
  BY <1>1 DEF Local, Summed
<1>3. inbox' = inbox /\ closed' = closed => Queued(s, r)'
  BY <1>1 DEF Local, Queued, Left
<1>4. Answered(s, r)'
  BY <1>1 DEF Local, Answered, AnswersAreOwn
<1> QED
  BY <1>2, <1>3, <1>4

\* The end of what a client sends comes behind its numbers.
LEMMA EndStep ==
  ASSUME TypeOK, NEW s \in Stream, NEW r \in 0 .. Len(sent[s]), Local(s, r), SendString(s) \/ CloseSend(s)
  PROVE  Local(s, r)'
<1> DEFINE end == IF method[s] = "string" THEN <<[kind |-> "string", value |-> 0], EOF>>
                  ELSE <<EOF>>
<1>1. /\ phase[s] = "open" /\ ~closed[s] /\ closed'[s]
      /\ inbox'[s] = inbox[s] \o end
      /\ UNCHANGED <<input, phase, account, answers, sent>>
  <2>1. CASE SendString(s)
    BY <2>1 DEF SendString, Sends, TypeOK
  <2>2. CASE CloseSend(s)
    BY <2>2 DEF CloseSend, Sends, TypeOK
  <2> QED
    BY <2>1, <2>2
<1>2. Summed(s, r)' /\ Answered(s, r)'
  BY <1>1, SilentFrame
<1>3. ASSUME Own(s) PROVE Queued(s, r)'
  <2>1. inbox[s] \in Seq(Message) /\ sent[s] \in Seq(Int) /\ r \in Int
    BY Types
  <2>2. /\ Left(s, r) = Len(inbox[s])
        /\ \A i \in 1 .. Len(inbox[s]) :
             /\ inbox[s][i] = [kind |-> "number", value |-> sent[s][r + i]]
             /\ inbox[s][i].kind = "string" => method[s] = "string"
    <3>1. Left(s, r) = Len(inbox[s])
      BY <1>1, <1>3 DEF Local, Queued
    <3> QED
      BY <1>1, <1>3, <2>1, <3>1 DEF Local, Queued
  <2>3. /\ Len(end) \in 1 .. 2
        /\ \A i \in 1 .. Len(end) :
             /\ end[i].kind # "number"
             /\ end[i].kind = "string" => method[s] = "string"
    BY DEF EOF
  <2>4. end \in Seq(Message)
    <3>1. EOF \in Message /\ [kind |-> "string", value |-> 0] \in Message
      BY DEF EOF, Message
    <3> QED
      BY <3>1
  <2> HIDE DEF end
  <2>5. /\ Len(inbox[s] \o end) = Len(inbox[s]) + Len(end)
        /\ \A i \in 1 .. Len(inbox[s]) : (inbox[s] \o end)[i] = inbox[s][i]
        /\ \A i \in Len(inbox[s]) + 1 .. Len(inbox[s]) + Len(end) :
             (inbox[s] \o end)[i] = end[i - Len(inbox[s])]
    BY <2>1, <2>4
  <2>6. Left(s, r)' = Left(s, r) /\ method'[s] = method[s]
    BY <1>1 DEF Left, method
  <2>7. Left(s, r)' <= Len(inbox'[s])
    BY <1>1, <2>1, <2>2, <2>3, <2>5, <2>6
  <2>8. ASSUME NEW i \in 1 .. Len(inbox'[s])
        PROVE  /\ IF i <= Left(s, r)'
                  THEN inbox'[s][i] = [kind |-> "number", value |-> sent'[s][r + i]]
                  ELSE inbox'[s][i].kind # "number"
               /\ inbox'[s][i].kind = "string" => method'[s] = "string"
    <3>1. CASE i <= Len(inbox[s])
      BY <1>1, <2>1, <2>2, <2>5, <2>6, <2>8, <3>1
    <3>2. CASE i > Len(inbox[s])
      <4>1. i - Len(inbox[s]) \in 1 .. Len(end) /\ inbox'[s][i] = end[i - Len(inbox[s])]
        BY <1>1, <2>1, <2>3, <2>5, <2>8, <3>2
      <4>2. ~(i <= Left(s, r)')
        BY <2>1, <2>2, <2>6, <3>2
      <4> QED
        BY <2>3, <2>6, <4>1, <4>2
    <3> QED
      BY <2>1, <3>1, <3>2
  <2> QED
    BY <1>1, <2>7, <2>8 DEF Queued
<1>4. Own(s)' = Own(s)
  BY <1>1 DEF Own, method
<1> QED
  BY <1>2, <1>3, <1>4 DEF Local, Queued

\* A number sent is left to be received, and changes nothing of what has been.
LEMMA SendStep ==
  ASSUME TypeOK, NEW s \in Stream, NEW r \in 0 .. Len(sent[s]), Local(s, r), SendNumber(s)
  PROVE  Local(s, r)' /\ r \in 0 .. Len(sent'[s])
<1>1. PICK n \in Numbers :
        /\ phase[s] = "open" /\ ~closed[s] /\ method[s] # "string"
        /\ inbox'[s] = Append(inbox[s], [kind |-> "number", value |-> n])
        /\ sent'[s] = Append(sent[s], n)
        /\ UNCHANGED <<input, phase, closed, account, answers>>
  <2>1. PICK n \in Numbers :
          /\ Sends(s, <<[kind |-> "number", value |-> n]>>)
          /\ sent' = [sent EXCEPT ![s] = Append(@, n)]
    BY DEF SendNumber
  <2>2. inbox[s] \o <<[kind |-> "number", value |-> n]>>
          = Append(inbox[s], [kind |-> "number", value |-> n])
    <3>1. inbox[s] \in Seq(Message) /\ [kind |-> "number", value |-> n] \in Message
      BY Types DEF Message
    <3> QED
      BY <3>1
  <2> QED
    BY <2>1, <2>2 DEF SendNumber, Sends, TypeOK
<1>t. /\ inbox[s] \in Seq(Message) /\ sent[s] \in Seq(Numbers) /\ r \in Nat
      /\ Len(inbox[s]) \in Nat /\ Len(sent[s]) \in Nat
  BY Types
<1>2. /\ Own(s)' = Own(s) /\ Int32(s)' = Int32(s) /\ Int32Total' = Int32Total
      /\ Either(s)' = Either(s) /\ method' = method
  BY <1>1 DEF Own, Int32, Int32Total, Either, method
<1>3. ASSUME NEW i \in 0 .. Len(sent[s])
      PROVE  SubSeq(sent'[s], 1, i) = SubSeq(sent[s], 1, i)
  BY <1>1, <1>t, <1>3
<1>4. Len(sent'[s]) = Len(sent[s]) + 1 /\ sent'[s][Len(sent[s]) + 1] = n
      /\ \A i \in 1 .. Len(sent[s]) : sent'[s][i] = sent[s][i]
  BY <1>1, <1>t
<1>5. Summed(s, r)'
  <2> SUFFICES ASSUME Own(s) PROVE Summed(s, r)'
    BY <1>2 DEF Summed
  <2>1. SubSeq(sent'[s], 1, r) = SubSeq(sent[s], 1, r)
    BY <1>3
  <2> QED
    BY <1>1, <1>2, <2>1 DEF Local, Summed
<1>6. Queued(s, r)'
  <2> SUFFICES ASSUME Own(s) PROVE Queued(s, r)'
    BY <1>2 DEF Queued
  <2>1. /\ Left(s, r) = Len(inbox[s])
        /\ \A i \in 1 .. Len(inbox[s]) :
             /\ i <= Left(s, r)
             /\ inbox[s][i] = [kind |-> "number", value |-> sent[s][r + i]]
    <3>1. Left(s, r) = Len(inbox[s])
      BY <1>1 DEF Local, Queued
    <3> QED
      BY <1>1, <1>t, <3>1 DEF Local, Queued
  <2>2. r + Len(inbox[s]) = Len(sent[s])
    BY <1>t, <2>1 DEF Left
  <2>3. Left(s, r)' = Len(inbox'[s]) /\ Len(inbox'[s]) = Len(inbox[s]) + 1
    BY <1>1, <1>4, <1>t, <2>2 DEF Left
  <2>4. ASSUME NEW i \in 1 .. Len(inbox'[s])
        PROVE  inbox'[s][i] = [kind |-> "number", value |-> sent'[s][r + i]]
    <3>1. CASE i = Len(inbox[s]) + 1
      <4>1. inbox'[s][i] = [kind |-> "number", value |-> n]
        BY <1>1, <1>t, <3>1
      <4>2. r + i = Len(sent[s]) + 1
        <5>1. \A a, b, c \in Nat : a + b = c => a + (b + 1) = c + 1
          OBVIOUS
        <5> QED
          BY <1>t, <2>2, <3>1, <5>1
      <4> QED
        BY <1>4, <4>1, <4>2
    <3>2. CASE i # Len(inbox[s]) + 1
      <4>1. i \in 1 .. Len(inbox[s]) /\ r + i \in 1 .. Len(sent[s])
        BY <1>t, <2>2, <2>3, <2>4, <3>2
      <4> QED
        BY <1>1, <1>4, <1>t, <2>1, <4>1
    <3> QED
      BY <3>1, <3>2
  <2>5. \A i \in 1 .. Len(inbox'[s]) : i <= Left(s, r)' /\ inbox'[s][i].kind = "number"
    <3> SUFFICES ASSUME NEW i \in 1 .. Len(inbox'[s])
                 PROVE  i <= Left(s, r)' /\ inbox'[s][i].kind = "number"
      OBVIOUS
    <3>1. inbox'[s][i].kind = "number"
      <4>1. PICK v : inbox'[s][i] = [kind |-> "number", value |-> v]
        BY <2>4
      <4> QED
        BY <4>1
    <3>2. i <= Left(s, r)'
      <4>1. Len(inbox'[s]) \in Nat
        BY <1>t, <2>3
      <4> QED
        BY <2>3, <4>1
    <3> QED
      BY <3>1, <3>2
  <2>6. Left(s, r)' <= Len(inbox'[s])
    BY <1>t, <2>3
  <2> QED
    BY <2>3, <2>4, <2>5, <2>6 DEF Queued
<1>7. Answered(s, r)'
  <2>1. Own(s) /\ method[s] = "stream" => AnswersAreOwn(s)'
    <3> SUFFICES ASSUME Own(s), method[s] = "stream" PROVE AnswersAreOwn(s)'
      OBVIOUS
    <3>1. AnswersAreOwn(s) /\ DOMAIN answers[s] = 1 .. r
      <4>1. answers[s] \in Seq([string : BOOLEAN, sum : Int, total : Int])
        BY Types
      <4>2. AnswersAreOwn(s) /\ Len(answers[s]) = r
        BY DEF Local, Answered
      <4> QED
        BY <4>1, <4>2
    <3>2. \A i \in DOMAIN answers[s] : SubSeq(sent'[s], 1, i) = SubSeq(sent[s], 1, i)
      BY <1>3, <1>t, <3>1
    <3>3. ASSUME NEW i \in DOMAIN answers[s]
          PROVE  LET answer == answers[s][i]  numbers == SubSeq(sent'[s], 1, i) IN
                   /\ ~Int32Total \/ Fits(Len(numbers)) => answer.total = Len(numbers)
                   /\ ~Int32(s) \/ Fits(SumOf(numbers)) => answer.sum = SumOf(numbers)
                   /\ answer.string <=> method[s] = "string" \/ (Either(s) /\ SumOf(numbers) = 0)
      BY <3>1, <3>2, <3>3 DEF AnswersAreOwn
    <3> QED
      BY <1>1, <1>2, <3>3 DEF AnswersAreOwn
  <2>2. Own(s) /\ method[s] # "stream" => answers'[s] = <<>> /\ AnswersAreOwn(s)'
    BY <1>1 DEF Local, Answered, AnswersAreOwn
  <2> QED
    BY <1>1, <1>2, <2>1, <2>2 DEF Local, Answered
<1> QED
  BY <1>4, <1>5, <1>6, <1>7, <1>t DEF Local

\* The handler takes a message: the numbers it has received, those that are left
\* and its answers stay in step.
LEMMA ReceiveStep ==
  ASSUME TypeOK, NEW s \in Stream, NEW r \in 0 .. Len(sent[s]), Local(s, r), Receive(s)
  PROVE  \E q \in 0 .. Len(sent'[s]) : Local(s, q)'
<1> DEFINE m == Head(inbox[s])
           a == account[s]
           l == Len(inbox[s])
<1>t. /\ inbox[s] \in Seq(Message) /\ sent[s] \in Seq(Int)
      /\ r \in Nat /\ l \in Nat /\ Len(sent[s]) \in Nat
      /\ answers[s] \in Seq([string : BOOLEAN, sum : Int, total : Int])
  BY Types
<1>1. /\ phase[s] = "open" /\ inbox[s] # <<>>
      /\ UNCHANGED <<input, closed, sent>>
      /\ inbox'[s] = Tail(inbox[s])
      /\ Add(s, m)
      /\ IF (m.kind = "eof") = (method[s] # "stream") THEN Answer(s) ELSE UNCHANGED answers
      /\ phase'[s] = IF m.kind = "eof" THEN "ended" ELSE "open"
  BY DEF Receive, TypeOK
<1>2. /\ m = inbox[s][1] /\ 1 \in 1 .. l /\ m \in Message /\ m.value \in Int
      /\ Len(inbox'[s]) = l - 1
      /\ \A i \in 1 .. Len(inbox'[s]) : i + 1 \in 1 .. l /\ inbox'[s][i] = inbox[s][i + 1]
  BY <1>1, <1>t, Received
<1>3. /\ Own(s)' = Own(s) /\ Int32(s)' = Int32(s) /\ Int32Total' = Int32Total
      /\ Either(s)' = Either(s) /\ method' = method
      /\ Int32(s) \in BOOLEAN /\ Int32Total \in BOOLEAN
  BY <1>1 DEF Own, Int32, Int32Total, Either, method
<1>4. CASE ~Own(s)
  <2>1. Local(s, r)'
    BY <1>1, <1>3, <1>4 DEF Local, Summed, Queued, Answered
  <2> QED
    BY <1>1, <2>1
<1>5. CASE Own(s)
  <2>1. /\ Account(s) = s /\ Account(s)' = s
        /\ a = [sum |-> Held(Int32(s), SumOf(SubSeq(sent[s], 1, r))),
                total |-> Held(Int32Total, r)]
    BY <1>1, <1>5 DEF Account, Own, Local, Summed, method
  <2>2. /\ Left(s, r) <= l
        /\ ~closed[s] => Left(s, r) = l
        /\ \A i \in 1 .. l :
             /\ IF i <= Left(s, r)
                THEN inbox[s][i] = [kind |-> "number", value |-> sent[s][r + i]]
                ELSE inbox[s][i].kind # "number"
             /\ inbox[s][i].kind = "string" => method[s] = "string"
    BY <1>1, <1>5 DEF Local, Queued
  <2>3. /\ method[s] = "string" => sent[s] = <<>>
        /\ AnswersAreOwn(s)
        /\ method[s] = "stream" => Len(answers[s]) = r
        /\ method[s] # "stream" => answers[s] = <<>>
    BY <1>1, <1>5 DEF Local, Answered
  <2>4. Left(s, r) = Len(sent[s]) - r /\ Left(s, r) \in Nat
    BY <1>t DEF Left
  <2>5. CASE m.kind = "number"
    <3> DEFINE n == sent[s][r + 1]
               prefix == SubSeq(sent[s], 1, r)
               longer == SubSeq(sent[s], 1, r + 1)
               b == [sum |-> Held(Int32(s), SumOf(longer)), total |-> Held(Int32Total, r + 1)]
    <3>1. 1 <= Left(s, r) /\ m = [kind |-> "number", value |-> n]
      BY <1>2, <2>2, <2>5
    <3>2. r \in 0 .. Len(sent[s]) - 1
      BY <1>t, <2>4, <3>1
    <3>3. SumOf(prefix) \in Int /\ SumOf(longer) = SumOf(prefix) + n /\ n \in Int
      <4>1. n \in Int
        BY <1>t, <3>2
      <4> QED
        BY <1>t, <3>2, <4>1, SumOfPrefix
    <3> HIDE DEF prefix, longer
    <3>4. account'[s] = b
      <4>1. m.value = n
        BY <3>1
      <4>2. account'[s] = Plus(s, a, n)
        BY <1>1, <2>1, <2>5, <4>1 DEF Add, TypeOK
      <4>3. a.sum = Held(Int32(s), SumOf(prefix)) /\ a.total = Held(Int32Total, r)
        BY <2>1 DEF prefix
      <4>4. Held(Int32(s), a.sum + n) = Held(Int32(s), SumOf(longer))
        <5>1. Held(Int32(s), Held(Int32(s), SumOf(prefix)) + n) = Held(Int32(s), SumOf(prefix) + n)
          BY <1>3, <3>3, HeldMore
        <5> QED
          BY <3>3, <4>3, <5>1
      <4>5. Held(Int32Total, a.total + 1) = Held(Int32Total, r + 1)
        <5>1. r \in Int /\ 1 \in Int
          BY <1>t
        <5> QED
          BY <1>3, <4>3, <5>1, HeldMore
      <4> QED
        BY <4>2, <4>4, <4>5 DEF Plus
    <3> HIDE DEF n
    <3>6. Summed(s, r + 1)'
      BY <1>1, <1>3, <3>4 DEF Summed, longer
    <3>7. Queued(s, r + 1)'
      <4>1. Left(s, r + 1)' = Left(s, r) - 1
        BY <1>1, <1>t, <2>4 DEF Left
      <4>2. ASSUME NEW i \in 1 .. Len(inbox'[s])
            PROVE  /\ IF i <= Left(s, r + 1)'
                      THEN inbox'[s][i] = [kind |-> "number", value |-> sent'[s][(r + 1) + i]]
                      ELSE inbox'[s][i].kind # "number"
                   /\ inbox'[s][i].kind = "string" => method'[s] = "string"
        <5>1. i + 1 \in 1 .. l /\ inbox'[s][i] = inbox[s][i + 1]
          BY <1>2, <4>2
        <5>2. (r + 1) + i = r + (i + 1)
          BY <1>t, <4>2
        <5>3. i <= Left(s, r + 1)' <=> i + 1 <= Left(s, r)
          BY <2>4, <4>1
        <5>4. inbox'[s][i].kind = "string" => method'[s] = "string"
          BY <1>3, <2>2, <5>1
        <5>5. CASE i <= Left(s, r + 1)'
          BY <1>1, <2>2, <5>1, <5>2, <5>3, <5>4, <5>5
        <5>6. CASE ~(i <= Left(s, r + 1)')
          BY <2>2, <5>1, <5>3, <5>4, <5>6
        <5> QED
          BY <5>5, <5>6
      <4>3. Left(s, r + 1)' <= Len(inbox'[s]) /\ (~closed'[s] => Left(s, r + 1)' = Len(inbox'[s]))
        BY <1>1, <1>2, <1>t, <2>2, <2>4, <4>1
      <4> QED
        BY <4>2, <4>3 DEF Queued
    <3>8. Answered(s, r + 1)'
      <4>1. CASE method[s] = "stream"
        <5> DEFINE answer == [string |-> FALSE, sum |-> b.sum, total |-> b.total]
        <5>1. answers'[s] = Append(answers[s], answer)
          <6>1. AnswersString(s) = FALSE
            BY <4>1 DEF AnswersString, Either
          <6>2. Answer(s)
            BY <1>1, <2>5, <4>1
          <6>3. account'[Account(s)] = b
            BY <2>1, <3>4
          <6> HIDE DEF b
          <6> QED
            BY <6>1, <6>2, <6>3 DEF Answer, TypeOK
        <5>2. /\ Len(answers'[s]) = r + 1
              /\ DOMAIN answers'[s] = 1 .. r + 1
              /\ answers'[s][r + 1] = answer
              /\ \A i \in 1 .. r : i \in DOMAIN answers[s] /\ answers'[s][i] = answers[s][i]
          <6> HIDE DEF answer
          <6> QED
            BY <1>t, <2>3, <4>1, <5>1
        <5>3. ASSUME NEW i \in 1 .. r + 1
              PROVE  LET numbers == SubSeq(sent[s], 1, i) IN
                       /\ ~Int32Total \/ Fits(Len(numbers))
                            => answers'[s][i].total = Len(numbers)
                       /\ ~Int32(s) \/ Fits(SumOf(numbers)) => answers'[s][i].sum = SumOf(numbers)
                       /\ answers'[s][i].string
                            <=> method[s] = "string" \/ (Either(s) /\ SumOf(numbers) = 0)
          <6>1. CASE i \in 1 .. r
            BY <2>3, <4>1, <5>2, <6>1 DEF AnswersAreOwn
          <6>2. CASE i = r + 1
            <7>1. ~Int32Total \/ Fits(Len(SubSeq(sent[s], 1, i)))
                    => b.total = Len(SubSeq(sent[s], 1, i))
              <8>1. Len(SubSeq(sent[s], 1, i)) = r + 1 /\ r + 1 \in Int
                BY <1>t, <3>2, <6>2
              <8> QED
                BY <1>3, <8>1, Exact
            <7>2. ~Int32(s) \/ Fits(SumOf(SubSeq(sent[s], 1, i)))
                    => b.sum = SumOf(SubSeq(sent[s], 1, i))
              <8>1. SumOf(longer) \in Int /\ SubSeq(sent[s], 1, i) = longer
                BY <3>3, <6>2 DEF longer
              <8> QED
                BY <1>3, <8>1, Exact
            <7>3. ~Either(s) /\ method[s] # "string"
              BY <4>1 DEF Either
            <7>4. answers'[s][i] = answer
              BY <5>2, <6>2
            <7> QED
              BY <7>1, <7>2, <7>3, <7>4
          <6> QED
            BY <1>t, <6>1, <6>2
        <5>4. AnswersAreOwn(s)'
          BY <1>1, <1>3, <4>1, <5>2, <5>3 DEF AnswersAreOwn
        <5>5. Len(answers'[s]) = r + 1
          BY <5>2
        <5> QED
          BY <1>1, <1>3, <4>1, <5>4, <5>5 DEF Answered
      <4>2. CASE method[s] # "stream"
        <5>1. answers'[s] = <<>>
          BY <1>1, <2>3, <2>5, <4>2
        <5> QED
          BY <1>1, <1>3, <2>3, <4>2, <5>1 DEF Answered, AnswersAreOwn
      <4> QED
        BY <4>1, <4>2
    <3>9. r + 1 \in 0 .. Len(sent'[s])
      BY <1>1, <1>t, <3>2
    <3> QED
      BY <3>6, <3>7, <3>8, <3>9 DEF Local
  <2>6. CASE m.kind # "number"
    <3>1. ~(1 <= Left(s, r)) /\ r = Len(sent[s])
      <4>1. ~(1 <= Left(s, r))
        <5> SUFFICES ASSUME 1 <= Left(s, r) PROVE FALSE
          OBVIOUS
        <5>1. PICK v : inbox[s][1] = [kind |-> "number", value |-> v]
          BY <1>2, <2>2
        <5> QED
          BY <1>2, <2>6, <5>1
      <4> QED
        BY <1>t, <2>4, <4>1
    <3>2. account'[s] = a
      BY <1>1, <2>1, <2>6 DEF Add, TypeOK
    <3>3. Summed(s, r)'
      BY <1>1, <1>3, <2>1, <3>2 DEF Summed
    <3>4. Queued(s, r)'
      <4>1. SUFFICES ASSUME m.kind # "eof" PROVE Queued(s, r)'
        BY <1>1 DEF Queued
      <4>2. Left(s, r)' = Left(s, r) /\ Left(s, r) = 0
        BY <1>1, <2>4, <3>1, <3>2 DEF Left
      <4>3. ASSUME NEW i \in 1 .. Len(inbox'[s])
            PROVE  /\ ~(i <= Left(s, r)') /\ inbox'[s][i].kind # "number"
                   /\ inbox'[s][i].kind = "string" => method'[s] = "string"
        <5>1. i + 1 \in 1 .. l /\ inbox'[s][i] = inbox[s][i + 1]
          BY <1>2, <4>3
        <5>2. ~(i <= Left(s, r)') /\ ~(i + 1 <= Left(s, r))
          BY <4>2
        <5> QED
          BY <1>3, <2>2, <5>1, <5>2
      <4>4. closed[s]
        BY <1>2, <1>t, <2>2, <4>2
      <4>5. Left(s, r)' <= Len(inbox'[s])
        BY <1>2, <1>t, <4>2
      <4> QED
        BY <1>1, <4>3, <4>4, <4>5 DEF Queued
    <3>5. Answered(s, r)'
      <4>1. CASE m.kind = "eof" /\ method[s] # "stream"
        <5> DEFINE answer == [string |-> AnswersString(s), sum |-> a.sum, total |-> a.total]
        <5>1. answers'[s] = Append(<<>>, answer)
          <6>1. Answer(s) /\ account'[Account(s)] = a
            BY <1>1, <2>1, <3>2, <4>1
          <6> QED
            BY <2>3, <4>1, <6>1 DEF Answer, TypeOK
        <5>2. DOMAIN answers'[s] = {1} /\ answers'[s][1] = answer
          <6> HIDE DEF answer
          <6> QED
            BY <5>1
        <5>3. SubSeq(sent[s], 1, r) = sent[s]
          BY <1>t, <3>1
        <5>4. SumOf(sent[s]) \in Int
          BY <1>t, SumOfAppended
        <5>5. ~Int32(s) \/ Fits(SumOf(sent[s])) => a.sum = SumOf(sent[s])
          <6>1. a.sum = Held(Int32(s), SumOf(sent[s]))
            <7>1. a.sum = Held(Int32(s), SumOf(SubSeq(sent[s], 1, r)))
              <8> HIDE DEF a
              <8> QED
                BY <2>1
            <7> QED
              BY <5>3, <7>1
          <6>2. ~Int32(s) \/ Fits(SumOf(sent[s])) => Held(Int32(s), SumOf(sent[s])) = SumOf(sent[s])
            BY <1>3, <5>4, Exact
          <6> QED
            BY <6>1, <6>2
        <5>8. ~Int32Total \/ Fits(Len(sent[s])) => a.total = Len(sent[s])
          BY <1>3, <1>t, <2>1, <3>1, Exact
        <5>6. AnswersString(s) <=> method[s] = "string" \/ (Either(s) /\ SumOf(sent[s]) = 0)
          <6>1. AnswersString(s) <=> Either(s) /\ a.sum = 0
            BY <2>1, <3>2 DEF AnswersString
          <6>2. Either(s) => a.sum = SumOf(sent[s])
            BY <5>5 DEF Int32
          <6>3. method[s] = "string" => Either(s) /\ SumOf(sent[s]) = 0
            BY <2>3, SumOfEmpty DEF Either
          <6> QED
            BY <6>1, <6>2, <6>3
        <5>7. AnswersAreOwn(s)'
          BY <1>1, <1>3, <4>1, <5>2, <5>5, <5>6, <5>8 DEF AnswersAreOwn
        <5> QED
          BY <1>1, <1>3, <2>3, <4>1, <5>7 DEF Answered
      <4>2. CASE ~(m.kind = "eof" /\ method[s] # "stream")
        <5>1. answers' = answers
          <6>1. m.kind # "eof" => method[s] # "stream"
            <7>1. m.kind \in {"number", "string", "eof"}
              BY <1>2 DEF Message
            <7> QED
              BY <1>2, <2>2, <2>6, <7>1
          <6> QED
            BY <1>1, <4>2, <6>1
        <5>2. AnswersAreOwn(s)'
          BY <1>1, <1>3, <2>3, <5>1 DEF AnswersAreOwn
        <5> QED
          BY <1>1, <1>3, <2>3, <3>2, <5>1, <5>2 DEF Answered
      <4> QED
        BY <4>1, <4>2
    <3> QED
      BY <1>1, <3>3, <3>4, <3>5 DEF Local
  <2> QED
    BY <2>5, <2>6
<1> QED
  BY <1>4, <1>5

-----------------------------------------------------------------------------
(* Theorems *)

\* The invariant holds before a stream is opened.
LEMMA Initially == Init => Inv
<1> SUFFICES ASSUME Init PROVE Inv
  OBVIOUS
<1>1. TypeOK
  <2>1. input \in Input
    BY ServersAssumption DEF Init
  <2>2. \A s \in Stream : Fits(account[s].sum)
    BY ServersAssumption DEF Init, Fits
  <2> QED
    BY <2>1, <2>2 DEF Init, TypeOK
<1>2. ASSUME NEW s \in Stream PROVE Local(s, 0) /\ 0 \in 0 .. Len(sent[s])
  <2>1. /\ account[s] = [sum |-> 0, total |-> 0] /\ phase[s] = "new" /\ inbox[s] = <<>>
        /\ answers[s] = <<>> /\ sent[s] = <<>> /\ closed[s] = FALSE
    BY DEF Init
  <2>2. Len(sent[s]) = 0 /\ SumOf(SubSeq(sent[s], 1, 0)) = 0
    <3>1. SubSeq(sent[s], 1, 0) = <<>>
      BY <2>1
    <3> QED
      BY <2>1, <3>1, SumOfEmpty
  <2>3. Summed(s, 0)
    <3>1. Fits(0)
      BY ServersAssumption DEF Fits
    <3>2. \A int32 \in BOOLEAN : Held(int32, 0) = 0
      BY <3>1, Exact
    <3>3. Int32(s) \in BOOLEAN /\ Int32Total \in BOOLEAN
      BY DEF Int32, Int32Total
    <3>4. Held(Int32(s), 0) = 0 /\ Held(Int32Total, 0) = 0
      BY <3>2, <3>3
    <3> QED
      BY <2>1, <2>2, <3>4 DEF Summed
  <2>4. Queued(s, 0)
    BY <2>1 DEF Queued, Left
  <2>5. Answered(s, 0)
    BY <2>1 DEF Answered, AnswersAreOwn
  <2> QED
    BY <2>2, <2>3, <2>4, <2>5 DEF Local
<1> QED
  <2>1. ASSUME NEW s \in Stream PROVE \E r \in 0 .. Len(sent[s]) : Local(s, r)
    BY <1>2
  <2> QED
    BY <1>1, <2>1 DEF Inv

\* The inductive invariant holds in every reachable state.
THEOREM Invariance == Spec => []Inv
<1>1. Inv /\ [Next]_vars => Inv'
  <2> SUFFICES ASSUME Inv, [Next]_vars PROVE Inv'
    OBVIOUS
  <2>1. TypeOK /\ TypeOK'
    BY TypeStep DEF Inv
  <2>p. ASSUME NEW s \in Stream PROVE \E r \in 0 .. Len(sent[s]) : Local(s, r)
    BY DEF Inv
  <2>2. CASE UNCHANGED vars
    <3>1. ASSUME NEW s \in Stream PROVE \E r \in 0 .. Len(sent'[s]) : Local(s, r)'
      <4>1. PICK r \in 0 .. Len(sent[s]) : Local(s, r)
        BY <2>p
      <4>2. Local(s, r)'
        BY <2>2, <4>1, LocalFrame DEF vars
      <4> QED
        BY <2>2, <4>2 DEF vars
    <3> QED
      BY <2>1, <3>1 DEF Inv
  <2>3. ASSUME NEW t \in Stream, Of(t), NEW s \in Stream
        PROVE  \E r \in 0 .. Len(sent'[s]) : Local(s, r)'
    <3>1. PICK r \in 0 .. Len(sent[s]) : Local(s, r)
      BY <2>p
    <3>2. CASE s # t
      <4>1. sent'[s] = sent[s] /\ Local(s, r)'
        BY <2>1, <2>3, <3>1, <3>2, Frame, LocalFrame
      <4> QED
        BY <4>1
    <3>3. CASE s = t
      <4>1. CASE Open(s)
        <5>1. /\ phase[s] = "new"
              /\ UNCHANGED <<input, inbox, closed, account, answers, sent>>
          BY <4>1 DEF Open
        <5>2. Local(s, r)'
          BY <2>1, <3>1, <5>1, SilentFrame DEF Local
        <5> QED
          BY <5>1, <5>2
      <4>2. CASE Break(s)
        <5>1. /\ phase[s] = "open"
              /\ UNCHANGED <<input, inbox, closed, account, answers, sent>>
          BY <4>2 DEF Break
        <5>2. Local(s, r)'
          BY <2>1, <3>1, <5>1, SilentFrame DEF Local
        <5> QED
          BY <5>1, <5>2
      <4>3. CASE SendNumber(s)
        <5>1. Local(s, r)' /\ r \in 0 .. Len(sent'[s])
          BY <2>1, <3>1, <4>3, SendStep
        <5> QED
          BY <5>1
      <4>4. CASE SendString(s) \/ CloseSend(s)
        <5>1. Local(s, r)' /\ sent' = sent
          BY <2>1, <3>1, <4>4, EndStep DEF SendString, CloseSend
        <5> QED
          BY <5>1
      <4>5. CASE Receive(s)
        BY <2>1, <3>1, <4>5, ReceiveStep
      <4> QED
        BY <2>3, <3>3, <4>1, <4>2, <4>3, <4>4, <4>5 DEF Of, Client
    <3> QED
      BY <3>2, <3>3
  <2> QED
    BY <2>1, <2>2, <2>3 DEF Inv, Next, Of
<1> QED
  BY <1>1, Initially, PTL DEF Spec

\* Every variable keeps its type; in particular the variables that the Go server
\* declares int32 never hold anything else.
THEOREM TypeCorrect == Spec => []TypeOK
<1>1. Inv => TypeOK
  BY DEF Inv
<1> QED
  BY <1>1, Invariance, PTL

\* Whatever other calls do, an answer is the mean of the numbers of its own
\* call, in the Go server and in computeMean of the Node.js server, for every
\* number of messages and every width of an int32, although sums and counts wrap
\* around: the sum of an answer is right if it fits in the variable that holds
\* it, and so is the count.
THEOREM AnswersStayOwn == Spec => []HandlersAreIsolated
<1>1. Inv => HandlersAreIsolated
  BY DEF Inv, Local, Answered, HandlersAreIsolated, Own
<1> QED
  BY <1>1, Invariance, PTL

=============================================================================
