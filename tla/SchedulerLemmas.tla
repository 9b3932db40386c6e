--------------------------- MODULE SchedulerLemmas ---------------------------
(***************************************************************************)
(* Lemmas that the proofs about the clients share: about the channels of   *)
(* commands of the Go clients, the highest of a group of priorities, and   *)
(* the vectors in which the C++ schedulers keep their calls.               *)
(***************************************************************************)
EXTENDS Integers, SequencesExt, SequenceTheorems, FiniteSetTheorems, TLAPS

-----------------------------------------------------------------------------
(* Channels: sequences of the commands TRUE (run) and FALSE (pause) that a *)
(* goroutine has not read yet.                                             *)

\* Reading a command leaves what the goroutine will end up with unchanged.
LEMMA TakenCommand ==
  ASSUME NEW s \in Seq(BOOLEAN), s # <<>>
  PROVE  /\ Head(s) = s[1] /\ Head(s) \in BOOLEAN /\ Tail(s) \in Seq(BOOLEAN)
         /\ Len(s) \in Nat /\ Len(s) >= 1 /\ Len(Tail(s)) = Len(s) - 1
         /\ \A i \in 1 .. Len(s) - 1 : Tail(s)[i] = s[i + 1]
         /\ Tail(s) = <<>> <=> Len(s) = 1
         /\ s[Len(s)] = IF Tail(s) = <<>> THEN Head(s) ELSE Tail(s)[Len(Tail(s))]
<1>1. /\ Head(s) = s[1] /\ Head(s) \in BOOLEAN /\ Tail(s) \in Seq(BOOLEAN)
      /\ Len(s) \in Nat /\ Len(s) >= 1 /\ Len(Tail(s)) = Len(s) - 1
      /\ \A i \in 1 .. Len(s) - 1 : Tail(s)[i] = s[i + 1]
  BY HeadTailProperties
<1>2. Tail(s) = <<>> <=> Len(s) = 1
  BY <1>1
<1> QED
  BY <1>1, <1>2

\* The last command on a channel is the one that counts.
LEMMA AppendedCommand ==
  ASSUME NEW s \in Seq(BOOLEAN), NEW b \in BOOLEAN
  PROVE  /\ Append(s, b) \in Seq(BOOLEAN) /\ Append(s, b) # <<>>
         /\ Len(s) \in Nat /\ Len(Append(s, b)) = Len(s) + 1
         /\ \A i \in 1 .. Len(s) : Append(s, b)[i] = s[i]
         /\ Append(s, b)[Len(s) + 1] = b
  BY AppendProperties

\* No two commands in a row are FALSE.
NoTwoPauses(s) == \A i \in 1 .. Len(s) - 1 : s[i] \/ s[i + 1]

\* If the goroutine holds FALSE only in front of TRUE, that is still so when it
\* has read the next command.
LEMMA TakenAlternating ==
  ASSUME NEW s \in Seq(BOOLEAN), s # <<>>, NoTwoPauses(s)
  PROVE  /\ NoTwoPauses(Tail(s))
         /\ Tail(s) # <<>> /\ ~Head(s) => Tail(s)[1]
<1>1. /\ Head(s) = s[1] /\ Head(s) \in BOOLEAN /\ Tail(s) \in Seq(BOOLEAN)
      /\ Len(s) \in Nat /\ Len(s) >= 1 /\ Len(Tail(s)) = Len(s) - 1
      /\ \A i \in 1 .. Len(s) - 1 : Tail(s)[i] = s[i + 1]
      /\ Tail(s) = <<>> <=> Len(s) = 1
  BY TakenCommand
<1>2. ASSUME NEW i \in 1 .. Len(Tail(s)) - 1 PROVE Tail(s)[i] \/ Tail(s)[i + 1]
  <2>1. /\ i \in 1 .. Len(s) - 1 /\ i + 1 \in 1 .. Len(s) - 1
    BY <1>1
  <2>2. Tail(s)[i] = s[i + 1] /\ Tail(s)[i + 1] = s[(i + 1) + 1]
    BY <1>1, <2>1
  <2>3. s[i + 1] \/ s[(i + 1) + 1]
    BY <2>1 DEF NoTwoPauses
  <2> QED
    BY <2>2, <2>3, Zenon
<1>3. ASSUME Tail(s) # <<>>, ~Head(s) PROVE Tail(s)[1]
  <2>1. Len(s) # 1 /\ ~s[1]
    BY <1>1, <1>3, Zenon
  <2>2. 1 \in 1 .. Len(s) - 1
    BY <1>1, <2>1
  <2>3. s[1] \/ s[1 + 1]
    BY <2>2 DEF NoTwoPauses
  <2>4. Tail(s)[1] = s[1 + 1]
    BY <1>1, <2>2
  <2> QED
    BY <2>1, <2>3, <2>4, Zenon
<1> QED
  BY <1>2, <1>3 DEF NoTwoPauses

\* FALSE may follow a TRUE, or nothing; TRUE may follow anything.
LEMMA AppendedAlternating ==
  ASSUME NEW s \in Seq(BOOLEAN), NEW b \in BOOLEAN, NoTwoPauses(s),
         b \/ s = <<>> \/ s[Len(s)]
  PROVE  NoTwoPauses(Append(s, b))
<1>1. /\ Len(s) \in Nat /\ Len(Append(s, b)) = Len(s) + 1
      /\ \A i \in 1 .. Len(s) : Append(s, b)[i] = s[i]
      /\ Append(s, b)[Len(s) + 1] = b
      /\ Len(s) >= 1 => s # <<>>
  BY AppendedCommand
<1>2. ASSUME NEW i \in 1 .. Len(s), i # Len(s)
      PROVE  Append(s, b)[i] \/ Append(s, b)[i + 1]
  <2>1. i \in 1 .. Len(s) - 1 /\ i + 1 \in 1 .. Len(s)
    BY <1>1, <1>2
  <2>2. Append(s, b)[i] = s[i] /\ Append(s, b)[i + 1] = s[i + 1]
    BY <1>1, <2>1
  <2>3. s[i] \/ s[i + 1]
    BY <2>1 DEF NoTwoPauses
  <2> QED
    BY <2>2, <2>3, Zenon
<1>3. ASSUME NEW i \in 1 .. Len(s), i = Len(s)
      PROVE  Append(s, b)[i] \/ Append(s, b)[i + 1]
  <2>1. Append(s, b)[i] = s[Len(s)] /\ Append(s, b)[i + 1] = b /\ s # <<>>
    BY <1>1, <1>3
  <2> QED
    BY <2>1, Zenon
<1>4. 1 .. Len(Append(s, b)) - 1 = 1 .. Len(s)
  BY <1>1
<1> QED
  BY <1>2, <1>3, <1>4 DEF NoTwoPauses

-----------------------------------------------------------------------------
(* The highest of a group *)

\* A finite set of calls that is not empty has one of the highest priority.  The
\* counterexamples among the subsets have a smallest one, and taking a call
\* out of it leaves a smaller one.
LEMMA HighestExists ==
  ASSUME NEW f, NEW S, IsFiniteSet(S), S # {}, \A c \in S : f[c] \in Int
  PROVE  \E c \in S : \A d \in S : f[d] <= f[c]
<1> DEFINE HasHighest(A) == \E c \in A : \A d \in A : f[d] <= f[c]
           Bad == {A \in SUBSET S : A # {} /\ ~HasHighest(A)}
<1> SUFFICES ASSUME S \in Bad PROVE FALSE
  OBVIOUS
<1>1. FiniteSubsetsOf(S) = SUBSET S
  BY FS_FiniteSubsetsOfFinite
<1>2. IsWellFoundedOn(StrictSubsetOrdering(S), SUBSET S)
  BY <1>1, FS_StrictSubsetOrderingWellFounded
<1>3. PICK A \in Bad : \A B \in Bad : ~(<<B, A>> \in StrictSubsetOrdering(S))
  <2>1. Bad \subseteq SUBSET S /\ Bad # {}
    OBVIOUS
  <2> HIDE DEF Bad
  <2> QED
    BY <1>2, <2>1, WFMin
<1>4. PICK a \in A : TRUE
  OBVIOUS
<1>5. /\ A \subseteq S /\ ~HasHighest(A) /\ a \in S
      /\ \A c \in A : f[c] \in Int
  BY <1>3, <1>4
<1>6. A \ {a} # {}
  BY <1>4, <1>5
<1>7. HasHighest(A \ {a})
  <2>1. <<A \ {a}, A>> \in StrictSubsetOrdering(S)
    BY <1>4, <1>5 DEF StrictSubsetOrdering
  <2>2. A \ {a} \notin Bad
    BY <1>3, <2>1
  <2> QED
    BY <1>5, <1>6, <2>2
<1>8. PICK b \in A \ {a} : \A d \in A \ {a} : f[d] <= f[b]
  BY <1>7
<1>9. HasHighest(A)
  <2>1. CASE f[a] <= f[b]
    BY <1>5, <1>8, <2>1
  <2>2. CASE ~(f[a] <= f[b])
    BY <1>4, <1>5, <1>8, <2>2
  <2> QED
    BY <2>1, <2>2
<1> QED
  BY <1>5, <1>9

-----------------------------------------------------------------------------
(* Vectors *)

\* In a vector that is not empty, a call of the highest priority comes first.
LEMMA FirstOfHighestExists ==
  ASSUME NEW n \in Nat, n > 0, NEW f, \A i \in 1 .. n : f[i] \in Int
  PROVE  \E i \in 1 .. n :
           \A j \in 1 .. n : f[j] < f[i] \/ (f[j] = f[i] /\ i <= j)
<1>1. IsFiniteSet(1 .. n) /\ 1 \in 1 .. n
  BY FS_Interval
<1>2. PICK h \in 1 .. n : \A j \in 1 .. n : f[j] <= f[h]
  BY <1>1, HighestExists
<1> DEFINE Best == {i \in 1 .. n : f[i] = f[h]}
           back == [i \in 1 .. n |-> -i]
<1>3. IsFiniteSet(Best) /\ Best # {} /\ \A i \in Best : back[i] \in Int
  <2>1. Best \subseteq 1 .. n /\ h \in Best
    OBVIOUS
  <2> QED
    BY <1>1, <2>1, FS_Subset
<1>4. PICK i \in Best : \A j \in Best : back[j] <= back[i]
  <2> HIDE DEF Best, back
  <2> QED
    BY <1>3, HighestExists
<1>5. ASSUME NEW j \in 1 .. n PROVE f[j] < f[i] \/ (f[j] = f[i] /\ i <= j)
  BY <1>2, <1>4
<1> QED
  BY <1>4, <1>5

\* What is left of a sequence when one element is taken out.
LEMMA RemoveAtProperties ==
  ASSUME NEW S, NEW s \in Seq(S), NEW k \in 1 .. Len(s)
  PROVE  /\ RemoveAt(s, k) \in Seq(S) /\ Len(RemoveAt(s, k)) = Len(s) - 1
         /\ Len(s) \in Nat
         /\ \A i \in 1 .. Len(s) - 1 :
              RemoveAt(s, k)[i] = IF i < k THEN s[i] ELSE s[i + 1]
<1> DEFINE front == SubSeq(s, 1, k - 1)
           rest == SubSeq(s, k + 1, Len(s))
<1>0. Len(s) \in Nat
  BY LenProperties
<1>1. /\ front \in Seq(S) /\ Len(front) = k - 1
      /\ \A i \in 1 .. k - 1 : front[i] = s[i]
  <2>0. \A i \in 1 .. k - 1 : s[i] \in S
    BY <1>0, ElementOfSeq
  <2>1. /\ SubSeq(s, 1, k - 1) \in Seq(S)
        /\ Len(SubSeq(s, 1, k - 1)) = IF 1 <= k - 1 THEN k - 1 - 1 + 1 ELSE 0
        /\ \A i \in 1 .. k - 1 - 1 + 1 : SubSeq(s, 1, k - 1)[i] = s[1 + i - 1]
    BY <1>0, <2>0, SubSeqProperties
  <2> QED
    BY <1>0, <2>1
<1>2. /\ rest \in Seq(S) /\ Len(rest) = Len(s) - k
      /\ \A i \in 1 .. Len(s) - k : rest[i] = s[k + i]
  <2>0. \A i \in k + 1 .. Len(s) : s[i] \in S
    BY <1>0, ElementOfSeq
  <2>1. /\ SubSeq(s, k + 1, Len(s)) \in Seq(S)
        /\ Len(SubSeq(s, k + 1, Len(s))) =
             IF k + 1 <= Len(s) THEN Len(s) - (k + 1) + 1 ELSE 0
        /\ \A i \in 1 .. Len(s) - (k + 1) + 1 :
             SubSeq(s, k + 1, Len(s))[i] = s[(k + 1) + i - 1]
    BY <1>0, <2>0, SubSeqProperties
  <2> QED
    BY <1>0, <2>1
<1> HIDE DEF front, rest
<1>3. /\ front \o rest \in Seq(S) /\ Len(front \o rest) = Len(front) + Len(rest)
      /\ \A i \in 1 .. Len(front) + Len(rest) :
           (front \o rest)[i] = IF i <= Len(front) THEN front[i] ELSE rest[i - Len(front)]
  BY <1>1, <1>2, ConcatProperties
<1>4. ASSUME NEW i \in 1 .. Len(s) - 1
      PROVE  (front \o rest)[i] = IF i < k THEN s[i] ELSE s[i + 1]
  <2>1. i \in 1 .. Len(front) + Len(rest)
    BY <1>0, <1>1, <1>2
  <2>2. CASE i < k
    BY <1>0, <1>1, <1>3, <2>1, <2>2
  <2>3. CASE ~(i < k)
    <3>1. (front \o rest)[i] = rest[i - (k - 1)] /\ i - (k - 1) \in 1 .. Len(s) - k
      BY <1>0, <1>1, <1>3, <2>1, <2>3
    <3>2. k + (i - (k - 1)) = i + 1
      BY <1>0
    <3> QED
      BY <1>2, <2>3, <3>1, <3>2
  <2> QED
    BY <2>2, <2>3
<1>5. Len(front \o rest) = Len(s) - 1
  BY <1>0, <1>1, <1>2, <1>3
<1>6. RemoveAt(s, k) = front \o rest
  BY DEF RemoveAt, front, rest
<1> QED
  BY <1>0, <1>3, <1>4, <1>5, <1>6

\* No element occurs twice.
Distinct(s) == \A i, j \in 1 .. Len(s) : s[i] = s[j] => i = j

In(x, s) == \E i \in 1 .. Len(s) : s[i] = x

\* The order of two elements in a vector.
Before(x, y, s) ==
  \E i, j \in 1 .. Len(s) : i < j /\ s[i] = x /\ s[j] = y

\* Erasing the first match takes one element out and leaves the others in their
\* order.
LEMMA Erased ==
  ASSUME NEW S, NEW s \in Seq(S), NEW e, Distinct(s)
  PROVE  LET r == RemoveFirst(s, e) IN
         /\ r \in Seq(S) /\ Distinct(r)
         /\ \A x : In(x, r) <=> In(x, s) /\ x # e
         /\ \A x, y : Before(x, y, r) => Before(x, y, s)
         /\ ~In(e, s) => r = s
<1> DEFINE r == RemoveFirst(s, e)
<1>0. Len(s) \in Nat
  BY LenProperties
<1>1. CASE ~In(e, s)
  BY <1>1 DEF RemoveFirst, In
<1>2. CASE In(e, s)
  <2> DEFINE I == {i \in 1 .. Len(s) : s[i] = e}
  <2>1. PICK k \in 1 .. Len(s) : s[k] = e
    BY <1>2 DEF In
  <2>2. I = {k} /\ \A i \in 1 .. Len(s) : i # k => s[i] # e
    BY <2>1 DEF Distinct
  <2>3. Min(I) = k
    BY <2>2 DEF Min
  <2>4. r = RemoveAt(s, k)
    BY <2>1, <2>3 DEF RemoveFirst, SelectInSeq
  <2>5. /\ r \in Seq(S) /\ Len(r) = Len(s) - 1
        /\ \A i \in 1 .. Len(s) - 1 : r[i] = IF i < k THEN s[i] ELSE s[i + 1]
    BY <2>4, RemoveAtProperties
  <2> HIDE DEF r
  <2> DEFINE old(i) == IF i < k THEN i ELSE i + 1
  <2>6. \A i \in 1 .. Len(r) : old(i) \in 1 .. Len(s) /\ r[i] = s[old(i)] /\ old(i) # k
    BY <1>0, <2>5
  <2>7. \A i, j \in 1 .. Len(r) : i < j => old(i) < old(j)
    BY <1>0, <2>5
  <2>8. \A i, j \in 1 .. Len(r) : old(i) = old(j) => i = j
    BY <1>0, <2>5
  <2>9. \A i \in 1 .. Len(s) : i # k => \E j \in 1 .. Len(r) : old(j) = i
    <3> SUFFICES ASSUME NEW i \in 1 .. Len(s), i # k
                 PROVE  \E j \in 1 .. Len(r) : old(j) = i
      OBVIOUS
    <3>1. CASE i < k
      BY <1>0, <2>5, <3>1
    <3>2. CASE i > k
      <4>1. i - 1 \in 1 .. Len(r) /\ old(i - 1) = i
        BY <1>0, <2>5, <3>2
      <4> QED
        BY <4>1
    <3> QED
      BY <3>1, <3>2
  <2> HIDE DEF old
  <2>10. Distinct(r)
    BY <2>6, <2>8 DEF Distinct
  <2>11. \A x : In(x, r) <=> In(x, s) /\ x # e
    <3>1. ASSUME NEW x, In(x, r) PROVE In(x, s) /\ x # e
      BY <2>2, <2>6, <3>1 DEF In
    <3>2. ASSUME NEW x, In(x, s), x # e PROVE In(x, r)
      <4>1. PICK i \in 1 .. Len(s) : s[i] = x
        BY <3>2 DEF In
      <4>2. PICK j \in 1 .. Len(r) : old(j) = i
        BY <2>1, <2>9, <3>2, <4>1
      <4> QED
        BY <2>6, <4>1, <4>2 DEF In
    <3> QED
      BY <3>1, <3>2
  <2>12. \A x, y : Before(x, y, r) => Before(x, y, s)
    BY <2>6, <2>7 DEF Before
  <2> QED
    BY <1>2, <2>5, <2>10, <2>11, <2>12 DEF r
<1> QED
  BY <1>1, <1>2

\* What is at the end of a queue comes behind what was in it.
LEMMA Pushed ==
  ASSUME NEW S, NEW s \in Seq(S), NEW e \in S
  PROVE  /\ Append(s, e) \in Seq(S)
         /\ \A x : In(x, Append(s, e)) <=> In(x, s) \/ x = e
<1> DEFINE r == Append(s, e)
<1>1. /\ r \in Seq(S) /\ Len(s) \in Nat /\ Len(r) = Len(s) + 1
      /\ \A i \in 1 .. Len(s) : r[i] = s[i]
      /\ r[Len(s) + 1] = e
  BY AppendProperties, LenProperties
<1> HIDE DEF r
<1>2. \A i \in 1 .. Len(r) : i \in 1 .. Len(s) \/ i = Len(s) + 1
  BY <1>1
<1>3. \A i \in 1 .. Len(s) : i \in 1 .. Len(r)
  BY <1>1
<1>4. Len(s) + 1 \in 1 .. Len(r)
  BY <1>1
<1>5. \A x : In(x, r) <=> In(x, s) \/ x = e
  BY <1>1, <1>2, <1>3, <1>4 DEF In
<1> QED
  BY <1>1, <1>5 DEF r

\* A newcomer joins a vector behind the others.
LEMMA JoinedBehind ==
  ASSUME NEW S, NEW s \in Seq(S), NEW e \in S, Distinct(s), ~In(e, s)
  PROVE  LET r == Append(s, e) IN
         /\ r \in Seq(S) /\ Distinct(r)
         /\ \A x : In(x, r) <=> In(x, s) \/ x = e
         /\ \A x, y : Before(x, y, r) <=> Before(x, y, s) \/ (In(x, s) /\ y = e)
<1> DEFINE r == Append(s, e)
<1>1. /\ r \in Seq(S) /\ Len(s) \in Nat /\ Len(r) = Len(s) + 1
      /\ \A i \in 1 .. Len(s) : r[i] = s[i]
      /\ r[Len(s) + 1] = e
  BY AppendProperties, LenProperties
<1> HIDE DEF r
<1>2. \A i \in 1 .. Len(r) : i \in 1 .. Len(s) \/ i = Len(s) + 1
  BY <1>1
<1>3. \A i \in 1 .. Len(s) : i \in 1 .. Len(r) /\ i < Len(s) + 1
  BY <1>1
<1>4. Len(s) + 1 \in 1 .. Len(r)
  BY <1>1
<1>5. Distinct(r)
  BY <1>1, <1>2 DEF Distinct, In
<1>6. \A x : In(x, r) <=> In(x, s) \/ x = e
  BY <1>1, <1>2, <1>3, <1>4 DEF In
<1>7. \A x, y : Before(x, y, r) => Before(x, y, s) \/ (In(x, s) /\ y = e)
  <2> SUFFICES ASSUME NEW x, NEW y, NEW i \in 1 .. Len(r), NEW j \in 1 .. Len(r),
                      i < j, r[i] = x, r[j] = y
               PROVE  Before(x, y, s) \/ (In(x, s) /\ y = e)
    BY DEF Before
  <2>1. i \in 1 .. Len(s) /\ s[i] = x
    BY <1>1
  <2>2. CASE j \in 1 .. Len(s)
    BY <1>1, <2>1, <2>2 DEF Before
  <2>3. CASE j = Len(s) + 1
    BY <1>1, <2>1, <2>3 DEF In
  <2> QED
    BY <1>2, <2>2, <2>3
<1>8. \A x, y : Before(x, y, s) \/ (In(x, s) /\ y = e) => Before(x, y, r)
  <2>1. ASSUME NEW x, NEW y, Before(x, y, s) PROVE Before(x, y, r)
    BY <1>1, <1>3, <2>1 DEF Before
  <2>2. ASSUME NEW x, In(x, s) PROVE Before(x, e, r)
    BY <1>1, <1>3, <1>4, <2>2 DEF In, Before
  <2> QED
    BY <2>1, <2>2
<1> QED
  BY <1>1, <1>5, <1>6, <1>7, <1>8 DEF r

\* Taking the head off a queue in which nothing occurs twice.
LEMMA Popped ==
  ASSUME NEW S, NEW s \in Seq(S), s # <<>>
  PROVE  /\ Head(s) \in S /\ In(Head(s), s) /\ Tail(s) \in Seq(S)
         /\ \A x : In(x, s) <=> In(x, Tail(s)) \/ x = Head(s)
         /\ Distinct(s) => Distinct(Tail(s)) /\ ~In(Head(s), Tail(s))
<1>1. /\ Head(s) = s[1] /\ Head(s) \in S /\ Tail(s) \in Seq(S)
      /\ Len(s) \in Nat /\ Len(s) >= 1 /\ Len(Tail(s)) = Len(s) - 1
      /\ \A i \in 1 .. Len(Tail(s)) : Tail(s)[i] = s[i + 1]
  <2>1. Len(s) >= 1
    BY EmptySeq, LenProperties
  <2> QED
    BY <2>1, HeadTailProperties, LenProperties, ElementOfSeq
<1> DEFINE t == Tail(s)
<1> HIDE DEF t
<1>2. /\ \A i \in 1 .. Len(t) : i + 1 \in 1 .. Len(s) /\ i + 1 # 1 /\ t[i] = s[i + 1]
      /\ 1 \in 1 .. Len(s)
  BY <1>1 DEF t
<1>3. \A i \in 1 .. Len(s) : i = 1 \/ \E j \in 1 .. Len(t) : i = j + 1
  <2> SUFFICES ASSUME NEW i \in 1 .. Len(s), i # 1 PROVE \E j \in 1 .. Len(t) : i = j + 1
    OBVIOUS
  <2>1. i - 1 \in 1 .. Len(t) /\ i = (i - 1) + 1
    BY <1>1 DEF t
  <2> QED
    BY <2>1
<1>4. \A x : In(x, s) <=> In(x, t) \/ x = s[1]
  <2>1. ASSUME NEW x, In(x, s) PROVE In(x, t) \/ x = s[1]
    <3>1. PICK i \in 1 .. Len(s) : s[i] = x
      BY <2>1 DEF In
    <3>2. CASE i = 1
      BY <3>1, <3>2
    <3>3. CASE i # 1
      BY <1>2, <1>3, <3>1, <3>3 DEF In
    <3> QED
      BY <3>2, <3>3
  <2>2. ASSUME NEW x, In(x, t) PROVE In(x, s)
    BY <1>2, <2>2 DEF In
  <2>3. In(s[1], s)
    BY <1>2 DEF In
  <2> QED
    BY <2>1, <2>2, <2>3
<1>5. Distinct(s) => Distinct(t) /\ ~In(s[1], t)
  <2> SUFFICES ASSUME Distinct(s) PROVE Distinct(t) /\ ~In(s[1], t)
    OBVIOUS
  <2>1. \A i, j \in 1 .. Len(t) : t[i] = t[j] => i = j
    <3> SUFFICES ASSUME NEW i \in 1 .. Len(t), NEW j \in 1 .. Len(t), t[i] = t[j]
                 PROVE  i = j
      OBVIOUS
    <3>1. i + 1 = j + 1
      BY <1>2 DEF Distinct
    <3> QED
      BY <1>1, <3>1 DEF t
  <2>2. ~In(s[1], t)
    BY <1>2 DEF Distinct, In
  <2> QED
    BY <2>1, <2>2 DEF Distinct
<1> QED
  BY <1>1, <1>2, <1>4, <1>5 DEF t

\* In a vector without doubles the order is strict.
LEMMA BeforeIsStrict ==
  ASSUME NEW S, NEW s \in Seq(S), Distinct(s), NEW x, NEW y, Before(x, y, s)
  PROVE  In(x, s) /\ In(y, s) /\ x # y /\ ~Before(y, x, s)
<1>1. PICK i \in 1 .. Len(s), j \in 1 .. Len(s) : i < j /\ s[i] = x /\ s[j] = y
  BY DEF Before
<1>2. In(x, s) /\ In(y, s)
  BY <1>1 DEF In
<1>3. Len(s) \in Nat
  BY LenProperties
<1>4. x # y
  BY <1>1, <1>3 DEF Distinct
<1>5. ASSUME NEW k \in 1 .. Len(s), NEW l \in 1 .. Len(s), k < l, s[k] = y, s[l] = x
      PROVE  FALSE
  <2>1. k = j /\ l = i
    BY <1>1, <1>5 DEF Distinct
  <2> QED
    BY <1>1, <1>3, <1>5, <2>1
<1> QED
  BY <1>2, <1>4, <1>5 DEF Before

\* The first of the highest rank in a vector.
First(m, s, rank) ==
  /\ In(m, s)
  /\ \A c : In(c, s) =>
       \/ rank[c] < rank[m]
       \/ rank[c] = rank[m] /\ (c = m \/ Before(m, c, s))

\* It is what a search for the first index of the highest rank finds.
LEMMA FirstFound ==
  ASSUME NEW S, NEW s \in Seq(S), s # <<>>, NEW rank,
         \A c : In(c, s) => rank[c] \in Int,
         NEW m, m = s[CHOOSE i \in 1 .. Len(s) :
                        \A j \in 1 .. Len(s) :
                          \/ rank[s[j]] < rank[s[i]]
                          \/ rank[s[j]] = rank[s[i]] /\ i <= j]
  PROVE  First(m, s, rank)
<1>1. Len(s) \in Nat /\ Len(s) > 0
  BY LenProperties, EmptySeq
<1> DEFINE f == [i \in 1 .. Len(s) |-> rank[s[i]]]
<1>2. \A i \in 1 .. Len(s) : f[i] \in Int
  BY DEF In
<1>3. \E i \in 1 .. Len(s) : \A j \in 1 .. Len(s) : f[j] < f[i] \/ (f[j] = f[i] /\ i <= j)
  <2> HIDE DEF f
  <2> QED
    BY <1>1, <1>2, FirstOfHighestExists
<1>4. PICK i \in 1 .. Len(s) :
        /\ m = s[i]
        /\ \A j \in 1 .. Len(s) : \/ rank[s[j]] < rank[s[i]]
                                  \/ rank[s[j]] = rank[s[i]] /\ i <= j
  <2>1. \E i \in 1 .. Len(s) : \A j \in 1 .. Len(s) : \/ rank[s[j]] < rank[s[i]]
                                                      \/ rank[s[j]] = rank[s[i]] /\ i <= j
    BY <1>3
  <2> QED
    BY <2>1
<1>5. In(m, s)
  BY <1>4 DEF In
<1>6. ASSUME NEW c, In(c, s)
      PROVE  \/ rank[c] < rank[m]
             \/ rank[c] = rank[m] /\ (c = m \/ Before(m, c, s))
  <2>1. PICK j \in 1 .. Len(s) : s[j] = c
    BY <1>6 DEF In
  <2>2. CASE i = j
    BY <1>4, <2>1, <2>2
  <2>3. CASE i # j
    <3>1. i <= j => i < j
      BY <1>1, <2>3
    <3> QED
      BY <1>4, <2>1, <3>1 DEF Before
  <2> QED
    BY <2>2, <2>3
<1> QED
  BY <1>5, <1>6 DEF First

\* It stays the first when others leave, and there is only one.
LEMMA FirstStays ==
  ASSUME NEW S, NEW s \in Seq(S), Distinct(s), NEW r, NEW rank,
         \A c : In(c, s) => rank[c] \in Int,
         \A x : In(x, r) => In(x, s), \A x, y : Before(x, y, r) => Before(x, y, s),
         NEW m, NEW n, First(m, s, rank), First(n, r, rank), In(m, r)
  PROVE  m = n
<1> SUFFICES ASSUME m # n PROVE FALSE
  OBVIOUS
<1>1. /\ rank[m] \in Int /\ rank[n] \in Int
      /\ rank[n] < rank[m] \/ (rank[n] = rank[m] /\ Before(m, n, s))
      /\ rank[m] < rank[n] \/ (rank[m] = rank[n] /\ Before(n, m, r))
  BY DEF First
<1>2. Before(m, n, s) /\ Before(n, m, s)
  BY <1>1
<1> QED
  BY <1>2, BeforeIsStrict

\* A newcomer becomes the first when it outranks the first, or is alone.
LEMMA FirstJoined ==
  ASSUME NEW S, NEW s \in Seq(S), Distinct(s), NEW e \in S, ~In(e, s), NEW rank,
         \A c : In(c, s) => rank[c] \in Int, rank[e] \in Int
  PROVE  /\ s = <<>> => First(e, Append(s, e), rank)
         /\ \A m : First(m, s, rank) =>
              IF rank[e] > rank[m] THEN First(e, Append(s, e), rank)
                                   ELSE First(m, Append(s, e), rank)
<1> DEFINE r == Append(s, e)
<1>1. /\ \A x : In(x, r) <=> In(x, s) \/ x = e
      /\ \A x, y : Before(x, y, r) <=> Before(x, y, s) \/ (In(x, s) /\ y = e)
  BY JoinedBehind
<1> HIDE DEF r
<1>2. s = <<>> => First(e, r, rank)
  <2>1. s = <<>> => \A x : ~In(x, s)
    BY EmptySeq DEF In
  <2> QED
    BY <1>1, <2>1 DEF First
<1>3. ASSUME NEW m, First(m, s, rank), rank[e] > rank[m] PROVE First(e, r, rank)
  BY <1>1, <1>3 DEF First
<1>4. ASSUME NEW m, First(m, s, rank), ~(rank[e] > rank[m]) PROVE First(m, r, rank)
  BY <1>1, <1>4 DEF First
<1> QED
  BY <1>2, <1>3, <1>4 DEF r

=============================================================================
