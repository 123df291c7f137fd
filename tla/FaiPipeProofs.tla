---------------------------- MODULE FaiPipeProofs ----------------------------
(***************************************************************************)
(* Proofs about FaiEpilogue: for every division of the stacks into tasks   *)
(* and all their sizes, the three pipes of a vector sub-block find in      *)
(* every buffer what they are meant to, are never stuck, and leave no      *)
(* event raised.                                                           *)
(*                                                                         *)
(* The calls the scalar unit issues spell out one program, known           *)
(* beforehand: cycles of eight places, one cycle for each row loop, each   *)
(* fold, each chunk; place 8 * c + k is step k of cycle c, and each step   *)
(* belongs to one pipe.  The invariant Inv says that there is a place      *)
(* at[P] for every pipe P such that                                        *)
(*   - its queue is the program from there to where the calls issued end   *)
(*     (Queues),                                                           *)
(*   - an event counts the places before which it was raised, less those   *)
(*     before which it was awaited (Counted),                              *)
(*   - a buffer holds what the last executed of its writers wrote (Held),  *)
(*   - a rescale that is issued is of a stack whose last P is stored       *)
(*     (Issued).                                                           *)
(* From Counted follows who knows whom to be how far (Orders); from the    *)
(* orders that of all writers of a buffer the one a reader means is the    *)
(* last executed, when the reader can go on (AllFound).                    *)
(***************************************************************************)
EXTENDS FaiEpilogue, IntegerLemmas, FiniteSetTheorems

-----------------------------------------------------------------------------
(* Programs of pipes.  A program is a function of places; S is the places  *)
(* at which this pipe has an instruction.  The code of the pipe between    *)
(* two places is the program at the members of S between them, in order.   *)
Runs(code, prog, a, b, S) ==
    \E todo, n : /\ Lists(todo, n, a, b, S)
                 /\ HasLength(code, n)
                 /\ \A i \in 1..n : code[i] = prog[todo[i]]

LEMMA RunsNothing ==
    ASSUME NEW prog, NEW a \in Nat, NEW b \in Nat, NEW S,
           \A x \in S : ~(a <= x /\ x < b)
    PROVE  Runs(<<>>, prog, a, b, S)
<1>1. HasLength(<<>>, 0)
  BY ShortSequences
<1>2. Lists(<<>>, 0, a, b, S)
  BY <1>1 DEF Lists
<1> QED BY <1>1, <1>2 DEF Runs

(* n instructions at places that follow each other.                        *)
LEMMA RunsConsecutive ==
    ASSUME NEW code, NEW n \in Nat, HasLength(code, n), NEW prog, NEW p \in Int,
           NEW a \in Nat, NEW b \in Nat, NEW S, S \subseteq Nat,
           \A i \in 1..n : p + i \in S /\ a <= p + i /\ p + i < b /\ code[i] = prog[p + i],
           \A x \in S : a <= x /\ x < b => p < x /\ x <= p + n
    PROVE  Runs(code, prog, a, b, S)
<1> DEFINE todo == [i \in 1..n |-> p + i]
<1>1. HasLength(todo, n) /\ \A i \in 1..n : todo[i] = p + i
  BY DEF HasLength
<1>2. Lists(todo, n, a, b, S)
  <2> HIDE DEF todo
  <2>1. \A i \in 1..n : todo[i] \in S /\ a <= todo[i] /\ todo[i] < b
    BY <1>1
  <2>2. \A i, j \in 1..n : i < j => todo[i] < todo[j]
    BY <1>1
  <2>3. ASSUME NEW x \in S, a <= x, x < b PROVE \E i \in 1..n : todo[i] = x
    <3>1. x \in Nat /\ p < x /\ x <= p + n
      BY <2>3
    <3>2. x - p \in 1..n /\ p + (x - p) = x
      BY <3>1
    <3> QED BY <1>1, <3>2
  <2> QED BY <1>1, <2>1, <2>2, <2>3 DEF Lists
<1> HIDE DEF todo
<1>3. \A i \in 1..n : code[i] = prog[todo[i]]
  BY <1>1
<1> QED BY <1>2, <1>3 DEF Runs

LEMMA RunsJoined ==
    ASSUME NEW q, NEW r, NEW prog, NEW a \in Nat, NEW b \in Nat, NEW c \in Nat,
           a <= b, b <= c, NEW S, S \subseteq Nat,
           Runs(q, prog, a, b, S), Runs(r, prog, b, c, S)
    PROVE  Runs(Joined(q, r), prog, a, c, S)
<1>1. PICK s, n : /\ Lists(s, n, a, b, S) /\ HasLength(q, n)
                  /\ \A i \in 1..n : q[i] = prog[s[i]]
  BY DEF Runs
<1>2. PICK t, m : /\ Lists(t, m, b, c, S) /\ HasLength(r, m)
                  /\ \A i \in 1..m : r[i] = prog[t[i]]
  BY DEF Runs
<1>3. n \in Nat /\ m \in Nat /\ HasLength(s, n) /\ HasLength(t, m)
  BY <1>1, <1>2 DEF Lists, HasLength
<1>0. PICK st, qr : st = Joined(s, t) /\ qr = Joined(q, r)
  OBVIOUS
<1>4. Lists(st, n + m, a, c, S)
  BY <1>0, <1>1, <1>2, ListsJoined
<1>5. /\ \A i \in 1..n : st[i] = s[i]
      /\ \A i \in 1..m : st[n + i] = t[i]
  <2>1. HasLength(s, n) /\ HasLength(t, m) /\ st = Joined(s, t)
    BY <1>0, <1>3
  <2> QED BY <2>1, Appended
<1>6. /\ HasLength(qr, n + m)
      /\ \A i \in 1..n : qr[i] = q[i]
      /\ \A i \in 1..m : qr[n + i] = r[i]
  BY <1>0, <1>1, <1>2, Appended
<1>7. ASSUME NEW i \in 1..(n + m) PROVE qr[i] = prog[st[i]]
  <2>1. CASE i <= n
    BY <1>1, <1>3, <1>5, <1>6, <2>1
  <2>2. CASE n < i
    <3>1. i - n \in 1..m /\ n + (i - n) = i
      BY <1>3, <2>2
    <3> QED BY <1>2, <1>5, <1>6, <3>1
  <2> QED BY <1>3, <2>1, <2>2
<1> QED BY <1>0, <1>4, <1>6, <1>7 DEF Runs

(* What is left may be said to reach further, over places without code.    *)
LEMMA RunsOnTo ==
    ASSUME NEW q, NEW prog, NEW a \in Nat, NEW b \in Nat, NEW c \in Nat, b <= c,
           NEW S, S \subseteq Nat, Runs(q, prog, a, b, S), \A x \in S : ~(b <= x /\ x < c)
    PROVE  Runs(q, prog, a, c, S)
<1>1. PICK s, n : /\ Lists(s, n, a, b, S) /\ HasLength(q, n)
                  /\ \A i \in 1..n : q[i] = prog[s[i]]
  BY DEF Runs
<1>2. n \in Nat
  BY <1>1 DEF HasLength
<1>3. Lists(s, n, a, c, S)
  <2>1. ASSUME NEW i \in 1..n PROVE s[i] \in S /\ a <= s[i] /\ s[i] < c
    <3>1. s[i] \in Nat
      BY <1>1 DEF Lists
    <3> QED BY <1>1, <3>1 DEF Lists
  <2>2. ASSUME NEW x \in S, a <= x, x < c PROVE \E i \in 1..n : s[i] = x
    <3>1. x \in Nat
      OBVIOUS
    <3> QED BY <1>1, <2>2, <3>1 DEF Lists
  <2> QED BY <1>1, <2>1, <2>2 DEF Lists
<1> QED BY <1>1, <1>3 DEF Runs

LEMMA RunsFrom ==
    ASSUME NEW q, NEW prog, NEW a \in Nat, NEW b \in Nat, NEW c \in Nat, a <= b,
           NEW S, S \subseteq Nat, Runs(q, prog, b, c, S), \A x \in S : ~(a <= x /\ x < b)
    PROVE  Runs(q, prog, a, c, S)
<1>1. PICK s, n : /\ Lists(s, n, b, c, S) /\ HasLength(q, n)
                  /\ \A i \in 1..n : q[i] = prog[s[i]]
  BY DEF Runs
<1>2. n \in Nat
  BY <1>1 DEF HasLength
<1>3. Lists(s, n, a, c, S)
  <2>1. ASSUME NEW i \in 1..n PROVE s[i] \in S /\ a <= s[i] /\ s[i] < c
    <3>1. s[i] \in Nat
      BY <1>1 DEF Lists
    <3> QED BY <1>1, <3>1 DEF Lists
  <2>2. ASSUME NEW x \in S, a <= x, x < c PROVE \E i \in 1..n : s[i] = x
    <3>1. x \in Nat
      OBVIOUS
    <3> QED BY <1>1, <2>2, <3>1 DEF Lists
  <2> QED BY <1>1, <2>1, <2>2 DEF Lists
<1> QED BY <1>1, <1>3 DEF Runs

(* The next instruction is the one at the first place that is left.        *)
LEMMA RunsFirst ==
    ASSUME NEW code, NEW prog, NEW a \in Nat, NEW b \in Nat, NEW S, S \subseteq Nat,
           Runs(code, prog, a, b, S), code # <<>>
    PROVE  \E p \in S : /\ p \in Nat /\ a <= p /\ p < b
                        /\ Head(code) = prog[p]
                        /\ \A x \in S : a <= x => ~(x < p)
                        /\ Runs(Tail(code), prog, p + 1, b, S)
<1>1. PICK s, n : /\ Lists(s, n, a, b, S) /\ HasLength(code, n)
                  /\ \A i \in 1..n : code[i] = prog[s[i]]
  BY DEF Runs
<1>2. n \in Nat /\ n # 0
  BY <1>1, SequenceFacts DEF HasLength
<1>3. /\ s[1] \in S /\ s[1] \in Nat /\ a <= s[1] /\ s[1] < b
      /\ \A x \in S : a <= x => ~(x < s[1])
      /\ Lists(AllButFirst(s, n), n - 1, s[1] + 1, b, S)
  BY <1>1, <1>2, RestOfList, Zenon
<1>4. /\ HasLength(Tail(code), n - 1) /\ Head(code) = code[1]
      /\ \A i \in 1..(n - 1) : Tail(code)[i] = code[i + 1]
  BY <1>1, <1>2, Rest
<1>5. \A i \in 1..(n - 1) : AllButFirst(s, n)[i] = s[i + 1]
  BY DEF AllButFirst
<1>6. ASSUME NEW i \in 1..(n - 1) PROVE Tail(code)[i] = prog[AllButFirst(s, n)[i]]
  <2>1. i + 1 \in 1..n
    BY <1>2
  <2> QED BY <1>1, <1>4, <1>5, <2>1
<1>7. Runs(Tail(code), prog, s[1] + 1, b, S)
  BY <1>3, <1>4, <1>6 DEF Runs
<1>8. 1 \in 1..n
  BY <1>2
<1>9. Head(code) = prog[s[1]]
  BY <1>1, <1>4, <1>8
<1> QED BY <1>3, <1>7, <1>9

LEMMA RunsOut ==
    ASSUME NEW prog, NEW a \in Nat, NEW b \in Nat, NEW S,
           Runs(<<>>, prog, a, b, S)
    PROVE  \A x \in S : ~(a <= x /\ x < b)
<1>1. PICK s, n : Lists(s, n, a, b, S) /\ HasLength(<<>>, n)
  BY DEF Runs
<1>2. n = 0
  BY <1>1, EmptyLength
<1> QED BY <1>1, <1>2 DEF Lists

(* Up to four pieces of code, laid end to end.                             *)
LEMMA FlattenFew ==
    ASSUME NEW s, NEW n \in 0..4, HasLength(s, n)
    PROVE  FlattenSeq(s) = IF n = 0 THEN <<>>
                           ELSE IF n = 1 THEN s[1]
                           ELSE IF n = 2 THEN Joined(s[1], s[2])
                           ELSE IF n = 3 THEN Joined(Joined(s[1], s[2]), s[3])
                           ELSE Joined(Joined(Joined(s[1], s[2]), s[3]), s[4])
<1>1. Len(s) = n /\ (n = 0 => s = <<>>)
  BY SequenceFacts DEF HasLength
<1>2. CASE n = 0
  BY <1>1, <1>2 DEF FlattenSeq
<1>3. CASE n # 0
  <2> DEFINE Solves(f) == f = [i \in 1..n |-> IF i = 1 THEN s[i] ELSE f[i - 1] \o s[i]]
             flat == CHOOSE f : Solves(f)
             one == s[1]
             two == one \o s[2]
             three == two \o s[3]
             four == three \o s[4]
             f0 == [i \in 1..n |-> IF i = 1 THEN one ELSE IF i = 2 THEN two
                                   ELSE IF i = 3 THEN three ELSE four]
  <2>1. FlattenSeq(s) = flat[n]
    BY <1>1, <1>3 DEF FlattenSeq
  <2>2. Solves(f0)
    <3>1. /\ one = s[1] /\ two = one \o s[2] /\ three = two \o s[3] /\ four = three \o s[4]
      OBVIOUS
    <3> HIDE DEF one, two, three, four
    <3>2. ASSUME NEW i \in 1..n
          PROVE  f0[i] = IF i = 1 THEN s[i] ELSE f0[i - 1] \o s[i]
      <4>1. /\ i = 1 => f0[i] = one
            /\ i = 2 => f0[i] = two /\ f0[1] = one /\ i - 1 = 1
            /\ i = 3 => f0[i] = three /\ f0[2] = two /\ i - 1 = 2
            /\ i = 4 => f0[i] = four /\ f0[3] = three /\ i - 1 = 3
            /\ i = 1 \/ i = 2 \/ i = 3 \/ i = 4
        OBVIOUS
      <4> HIDE DEF f0
      <4>2. CASE i = 1
        BY <3>1, <4>1, <4>2, Zenon
      <4>3. CASE i = 2
        BY <3>1, <4>1, <4>3
      <4>4. CASE i = 3
        BY <3>1, <4>1, <4>4
      <4>5. CASE i = 4
        BY <3>1, <4>1, <4>5
      <4> QED BY <4>1, <4>2, <4>3, <4>4, <4>5
    <3>3. f0 = [i \in 1..n |-> f0[i]]
      OBVIOUS
    <3> HIDE DEF f0
    <3>4. f0 = [i \in 1..n |-> IF i = 1 THEN s[i] ELSE f0[i - 1] \o s[i]]
      BY <3>2, <3>3
    <3> QED BY <3>4
  <2>3. Solves(flat)
    <3> HIDE DEF Solves
    <3> QED BY <2>2
  <2>4. flat = [i \in 1..n |-> IF i = 1 THEN s[i] ELSE flat[i - 1] \o s[i]]
    BY <2>3
  <2> HIDE DEF flat
  <2>5. ASSUME NEW i \in 1..n
        PROVE  flat[i] = IF i = 1 THEN s[i] ELSE Joined(flat[i - 1], s[i])
    <3>1. flat[i] = IF i = 1 THEN s[i] ELSE flat[i - 1] \o s[i]
      BY <2>4
    <3> QED BY <3>1 DEF Joined
  <2>6. flat[1] = s[1]
    BY <1>3, <2>5
  <2>7. ASSUME n >= 2 PROVE flat[2] = Joined(flat[1], s[2])
    <3>1. 2 \in 1..n /\ 2 - 1 = 1 /\ 2 # 1
      BY <2>7
    <3> QED BY <2>5, <3>1
  <2>8. ASSUME n >= 3 PROVE flat[3] = Joined(flat[2], s[3])
    <3>1. 3 \in 1..n /\ 3 - 1 = 2 /\ 3 # 1
      BY <2>8
    <3> QED BY <2>5, <3>1
  <2>9. ASSUME n >= 4 PROVE flat[4] = Joined(flat[3], s[4])
    <3>1. 4 \in 1..n /\ 4 - 1 = 3 /\ 4 # 1
      BY <2>9
    <3> QED BY <2>5, <3>1
  <2>10. n = 1 \/ n = 2 \/ n = 3 \/ n = 4
    BY <1>3
  <2> QED BY <2>1, <2>6, <2>7, <2>8, <2>9, <2>10
<1> QED BY <1>2, <1>3

(* A call that does the same for each row loop: piece i runs from one      *)
(* boundary to the next.                                                   *)
LEMMA FlattenRuns ==
    ASSUME NEW s, NEW n \in 0..4, HasLength(s, n), NEW prog, NEW S, S \subseteq Nat,
           NEW from, \A i \in 0..n : from[i] \in Nat,
           \A i \in 1..n : /\ from[i - 1] <= from[i]
                           /\ Runs(s[i], prog, from[i - 1], from[i], S)
    PROVE  Runs(FlattenSeq(s), prog, from[0], from[n], S)
<1>0. n = 0 \/ n = 1 \/ n = 2 \/ n = 3 \/ n = 4
  OBVIOUS
<1> DEFINE Piece(i) == /\ from[i] \in Nat /\ from[i - 1] <= from[i]
                       /\ Runs(s[i], prog, from[i - 1], from[i], S)
<1>1. from[0] \in Nat
  OBVIOUS
<1>2. \A i \in 1..n : Piece(i)
  OBVIOUS
<1>3. CASE n = 0
  <2>1. \A x \in S : ~(from[0] <= x /\ x < from[0])
    BY <1>1
  <2> QED BY <1>1, <1>3, <2>1, FlattenFew, RunsNothing
<1>4. ASSUME n # 0 PROVE Runs(s[1], prog, from[0], from[1], S) /\ from[0] <= from[1]
                         /\ from[1] \in Nat
  <2>1. 1 \in 1..n /\ 1 - 1 = 0
    BY <1>4
  <2> QED BY <1>2, <2>1, Zenon
<1>5. ASSUME NEW q, n >= 2, Runs(q, prog, from[0], from[1], S)
      PROVE  Runs(Joined(q, s[2]), prog, from[0], from[2], S)
  <2>1. 2 \in 1..n /\ 2 - 1 = 1 /\ n # 0
    BY <1>5
  <2>2. Runs(s[2], prog, from[1], from[2], S) /\ from[1] <= from[2] /\ from[2] \in Nat
    BY <1>2, <2>1, Zenon
  <2>3. from[0] \in Nat /\ from[1] \in Nat /\ from[0] <= from[1]
    BY <1>1, <1>4, <2>1
  <2> QED BY <1>5, <2>2, <2>3, RunsJoined, Zenon
<1>6. ASSUME NEW q, n >= 3, Runs(q, prog, from[0], from[2], S)
      PROVE  Runs(Joined(q, s[3]), prog, from[0], from[3], S)
  <2>1. 3 \in 1..n /\ 3 - 1 = 2 /\ n # 0 /\ 2 \in 1..n /\ 2 - 1 = 1
    BY <1>6
  <2>2. Runs(s[3], prog, from[2], from[3], S) /\ from[2] <= from[3] /\ from[3] \in Nat
    BY <1>2, <2>1, Zenon
  <2>3. from[0] \in Nat /\ from[1] \in Nat /\ from[0] <= from[1]
    BY <1>1, <1>4, <2>1
  <2>4. from[2] \in Nat /\ from[1] <= from[2]
    BY <1>2, <2>1, Zenon
  <2>5. from[0] <= from[2]
    BY <2>3, <2>4
  <2> QED BY <1>6, <2>2, <2>3, <2>4, <2>5, RunsJoined, Zenon
<1>7. ASSUME NEW q, n >= 4, Runs(q, prog, from[0], from[3], S)
      PROVE  Runs(Joined(q, s[4]), prog, from[0], from[4], S)
  <2>1. /\ 4 \in 1..n /\ 4 - 1 = 3 /\ n # 0 /\ 2 \in 1..n /\ 2 - 1 = 1
        /\ 3 \in 1..n /\ 3 - 1 = 2
    BY <1>7
  <2>2. Runs(s[4], prog, from[3], from[4], S) /\ from[3] <= from[4] /\ from[4] \in Nat
    BY <1>2, <2>1, Zenon
  <2>3. from[0] \in Nat /\ from[1] \in Nat /\ from[0] <= from[1]
    BY <1>1, <1>4, <2>1
  <2>4. from[2] \in Nat /\ from[1] <= from[2] /\ from[3] \in Nat /\ from[2] <= from[3]
    BY <1>2, <2>1, Zenon
  <2>5. from[0] <= from[3]
    BY <2>3, <2>4
  <2> QED BY <1>7, <2>2, <2>3, <2>4, <2>5, RunsJoined, Zenon
<1>8. CASE n = 1
  BY <1>4, <1>8, FlattenFew
<1>9. CASE n = 2
  BY <1>4, <1>5, <1>9, FlattenFew
<1>10. CASE n = 3
  <2>1. Runs(Joined(s[1], s[2]), prog, from[0], from[2], S)
    BY <1>4, <1>5, <1>10
  <2> QED BY <1>6, <1>10, <2>1, FlattenFew
<1>11. CASE n = 4
  <2>1. Runs(Joined(s[1], s[2]), prog, from[0], from[2], S)
    BY <1>4, <1>5, <1>11
  <2>2. Runs(Joined(Joined(s[1], s[2]), s[3]), prog, from[0], from[3], S)
    BY <1>6, <1>11, <2>1
  <2> QED BY <1>7, <1>11, <2>2, FlattenFew
<1> QED BY <1>0, <1>3, <1>8, <1>9, <1>10, <1>11

-----------------------------------------------------------------------------
(* Counting.  The program is a sequence of cycles of eight places; S is    *)
(* the cycles that have an instruction at step k.                          *)
Passed(S, k, x) == {c \in S : 8 * c + k < x}
Count(S, k, x) == Cardinality(Passed(S, k, x))

LEMMA CountFacts ==
    ASSUME NEW S, S \subseteq Nat, NEW k \in Nat, NEW x \in Nat
    PROVE  IsFiniteSet(Passed(S, k, x)) /\ Count(S, k, x) \in Nat
<1>1. ASSUME NEW c \in Passed(S, k, x) PROVE c \in Nat /\ c <= x
  <2>1. c \in Nat /\ 8 * c + k < x
    BY DEF Passed
  <2> QED BY <2>1
<1>2. IsFiniteSet(Passed(S, k, x))
  <2>1. Passed(S, k, x) \in SUBSET Nat
    BY <1>1
  <2> QED BY <1>1, <2>1, FS_BoundedSetOfNaturals
<1> QED BY <1>2, FS_CardinalityType DEF Count

NoneFrom(S, k, a, p) == \A c \in S : a <= 8 * c + k => ~(8 * c + k < p)

LEMMA CountSame ==
    ASSUME NEW S, S \subseteq Nat, NEW k \in Nat, NEW a \in Nat, NEW p \in Nat, a <= p,
           NoneFrom(S, k, a, p)
    PROVE  Count(S, k, p) = Count(S, k, a)
<1>1. Passed(S, k, p) = Passed(S, k, a)
  <2>1. ASSUME NEW c \in S PROVE 8 * c + k < p <=> 8 * c + k < a
    <3>1. c \in Nat
      OBVIOUS
    <3> QED BY <3>1 DEF NoneFrom
  <2> QED BY <2>1 DEF Passed
<1> QED BY <1>1 DEF Count

(* An event is not awaited more often than it is raised: who has waited in *)
(* cycle c knows that it has been raised in c.                             *)
LEMMA SignalOrder ==
    ASSUME NEW S, S \subseteq Nat, NEW k \in Nat, NEW x \in Nat, NEW l \in Nat, NEW y \in Nat,
           Count(S, l, y) <= Count(S, k, x), NEW c \in S, 8 * c + l < y
    PROVE  8 * c + k < x
<1> SUFFICES ASSUME x <= 8 * c + k PROVE FALSE
  <2>1. 8 * c + k \in Nat
    OBVIOUS
  <2> QED BY <2>1
<1>1. c \in Nat
  OBVIOUS
<1>2. IsFiniteSet(Passed(S, l, y)) /\ IsFiniteSet(Passed(S, k, x))
      /\ Count(S, k, x) \in Nat
  BY CountFacts
<1>3. Passed(S, k, x) \cup {c} \subseteq Passed(S, l, y)
  <2>1. ASSUME NEW d \in Passed(S, k, x) PROVE d \in S /\ 8 * d + l < y
    <3>1. d \in S /\ d \in Nat /\ 8 * d + k < x
      BY DEF Passed
    <3> QED BY <1>1, <3>1
  <2> QED BY <2>1 DEF Passed
<1>4. c \notin Passed(S, k, x)
  BY DEF Passed
<1>5. Cardinality(Passed(S, k, x) \cup {c}) = Count(S, k, x) + 1
  BY <1>2, <1>4, FS_AddElement DEF Count
<1>6. Cardinality(Passed(S, k, x) \cup {c}) <= Count(S, l, y)
  BY <1>2, <1>3, FS_Subset DEF Count
<1>7. Count(S, l, y) \in Nat
  BY CountFacts
<1> QED BY <1>2, <1>5, <1>6, <1>7

(* An event that is raised once from the start: who has waited in cycle c  *)
(* knows that it has been raised in every cycle of S before c.             *)
LEMMA CreditOrder ==
    ASSUME NEW S, S \subseteq Nat, NEW k \in Nat, NEW x \in Nat,
           NEW W, W \subseteq Nat, S \subseteq W, NEW l \in Nat, NEW y \in Nat,
           Count(W, l, y) <= 1 + Count(S, k, x),
           NEW c \in W, 8 * c + l < y, NEW d \in S, d < c
    PROVE  8 * d + k < x
<1> SUFFICES ASSUME x <= 8 * d + k PROVE FALSE
  <2>1. 8 * d + k \in Nat
    OBVIOUS
  <2> QED BY <2>1
<1>1. c \in Nat /\ d \in Nat /\ c # d
  BY SMT
<1>2. IsFiniteSet(Passed(W, l, y)) /\ IsFiniteSet(Passed(S, k, x))
      /\ Count(S, k, x) \in Nat /\ Count(W, l, y) \in Nat
  BY CountFacts
<1> DEFINE P == Passed(S, k, x)
<1>3. (P \cup {d}) \cup {c} \subseteq Passed(W, l, y)
  <2>1. ASSUME NEW b \in P PROVE b \in W /\ 8 * b + l < y
    <3>1. b \in W /\ b \in Nat /\ 8 * b + k < x
      BY DEF Passed
    <3> QED BY <1>1, <3>1
  <2>2. d \in W /\ 8 * d + l < y
    BY <1>1
  <2> QED BY <2>1, <2>2 DEF Passed
<1>4. d \notin P /\ c \notin P \cup {d}
  BY <1>1 DEF Passed
<1>5. IsFiniteSet(P) /\ Cardinality(P) = Count(S, k, x)
  BY <1>2 DEF Count
<1> HIDE DEF P
<1>6. IsFiniteSet(P \cup {d}) /\ Cardinality(P \cup {d}) = Count(S, k, x) + 1
  BY <1>4, <1>5, FS_AddElement
<1>7. Cardinality((P \cup {d}) \cup {c}) = Count(S, k, x) + 1 + 1
  BY <1>4, <1>6, FS_AddElement
<1>8. Cardinality((P \cup {d}) \cup {c}) <= Count(W, l, y)
  BY <1>2, <1>3, FS_Subset DEF Count
<1> QED BY <1>2, <1>7, <1>8

-----------------------------------------------------------------------------
(* The program of the vector sub-block.  Cycle c is turn c % 8 of call     *)
(* c \div 8; call 4 * m + j is the softmax of stack m (j = 0) or the       *)
(* rescale of stack m + j - 3, when it comes behind the softmax of m.      *)
StackAt(c) == c \div 32
Part(c) == (c \div 8) % 4
Turn(c) == c % 8
FoldedAt(c) == StackAt(c) + Part(c) - 3

IsLoop(c) == Part(c) = 0 /\ StackAt(c) \in Stacks /\ Turn(c) < rowLoopNum(StackAt(c))
IsReady(c) == Part(c) = 0 /\ StackAt(c) \in Stacks /\ Turn(c) = 7
IsRescale(c) ==
    /\ Part(c) # 0 /\ StackAt(c) \in Stacks
    /\ First[StackAt(c)] <= FoldedAt(c)
    /\ Part(c) = 1 \/ IsLast(StackAt(c))
    /\ Rows[FoldedAt(c)] # 0
IsFold(c) == IsRescale(c) /\ Turn(c) = 0
IsOutput(c) == IsFold(c) /\ Part(c) = 3
IsChunk(c) == IsRescale(c) /\ Part(c) = 3 /\ Turn(c) # 0 /\ Turn(c) <= LseChunks(FoldedAt(c))
LastCycle == 32 * NumStacks

Loops == {c \in Nat : IsLoop(c)}
Readies == {c \in Nat : IsReady(c)}
Rescales == {c \in Nat : IsFold(c)}
Outputs == {c \in Nat : IsOutput(c)}
Chunks == {c \in Nat : IsChunk(c)}

Bank(c) == Count(Chunks, 0, 8 * c) % 2

(* Step k of a cycle: 0 is MTE2, 1 to 4 are V, 5 is MTE3.                  *)
LoopCode(g, i, k) ==
    IF k = 0 THEN Instruction({V_MTE2(i % 2)}, {}, {<<ls(i % 2), <<g, i>>>>}, {MTE2_V(i % 2)})
    ELSE IF k = 1 THEN
       Instruction({MTE2_V(i % 2)},
                   {<<ls(i % 2), <<g, i>>>>} \cup
                       IfLastLoop(g, i, IfFirst(g, {}, {<<hm, Of(g - 1)>>})),
                   IfLastLoop(g, i, {<<hm, Of(g)>>} \cup
                       IfFirst(g, {}, {<<dm(Slot(g)), Of(g)>>})), {})
    ELSE IF k = 2 THEN
       Instruction({MTE3_V(i % 2)}, {<<ls(i % 2), <<g, i>>>>},
                   {<<lp(i % 2), <<g, i>>>>}, {V_MTE3(i % 2)})
    ELSE IF k = 3 THEN
       Instruction({}, {<<ls(i % 2), <<g, i>>>>}, {}, {V_MTE2(i % 2)})
    ELSE IF k = 4 THEN
       Instruction({}, IfLastLoop(g, i, IfFirst(g, {},
                           {<<gl, Of(g - 1)>>, <<dm(Slot(g)), Of(g)>>})),
                   IfLastLoop(g, i, {<<gl, Of(g)>>}), {})
    ELSE Instruction({V_MTE3(i % 2)}, {<<lp(i % 2), <<g, i>>>>}, {}, {MTE3_V(i % 2)})

FoldCode(g, k) ==
    IF k = 0 THEN
      Instruction({V_MTE2(3)}, {}, {<<IfFirst(g, go, lo), Of(g)>>}, {MTE2_V(0)})
    ELSE IF k = 1 THEN
      Instruction({MTE2_V(0)},
                   IfFirst(g, {}, {<<dm(Slot(g)), Of(g)>>, <<go, Of(g - 1)>>, <<lo, Of(g)>>}),
                   IfFirst(g, {}, {<<go, Of(g)>>}), {V_MTE2(3)})
    ELSE IF k = 2 THEN
      Instruction({}, {<<gl, Of(g)>>, <<go, Of(g)>>}, {<<go, <<g, 1>>>>}, {V_MTE3(0)})
    ELSE IF k = 3 THEN
      Instruction({}, {<<gl, Of(g)>>, <<hm, Of(g)>>}, {<<lseVal, Of(g)>>}, {})
    ELSE Instruction({V_MTE3(0)}, {<<go, <<g, 1>>>>}, {}, {})

ChunkCode(g, i, bank, k) ==
    IF k = 2 THEN Instruction({}, {<<lseVal, Of(g)>>}, {<<lseStage(bank), <<g, i>>>>}, {V_MTE3(0)})
    ELSE Instruction({V_MTE3(0)}, {<<lseStage(bank), <<g, i>>>>}, {}, {})

FinalCode(k) == IF k = 0 THEN Instruction(MTE3_MTE2_Initial \cup V_MTE2_Initial, {}, {}, {})
                ELSE Instruction(MTE3_V_Initial, {}, {}, {})


Cycle(p) == p \div 8
Step(p) == p % 8
Code(p) ==
    LET c == Cycle(p)
        k == Step(p)
    IN  IF IsLoop(c) THEN LoopCode(StackAt(c), Turn(c), k)
        ELSE IF IsReady(c) THEN Instruction({}, {}, {}, {softmaxReady})
        ELSE IF IsFold(c) THEN FoldCode(FoldedAt(c), k)
        ELSE IF IsChunk(c) THEN ChunkCode(FoldedAt(c), Turn(c) - 1, Bank(c), k)
        ELSE FinalCode(k)
Present(p) ==
    LET c == Cycle(p)
        k == Step(p)
    IN  \/ IsLoop(c) /\ k \in 0..5
        \/ IsReady(c) /\ k = 5
        \/ IsFold(c) /\ k \in {0, 1}
        \/ IsOutput(c) /\ k \in {2, 3, 5}
        \/ IsChunk(c) /\ k \in {2, 5}
        \/ c = LastCycle /\ k \in {0, 2}
PipeOf(k) == IF k = 0 THEN "MTE2" ELSE IF k < 5 THEN "V" ELSE "MTE3"
Places(P) == {p \in Nat : Present(p) /\ PipeOf(Step(p)) = P}

(* Events: the cycles in which an event is raised and awaited, and where.  *)
RaisedIn(e) ==
    IF e = softmaxReady THEN Readies
    ELSE IF e[1] = "MTE3_MTE2" THEN {}
    ELSE IF e = V_MTE2(3) THEN Rescales
    ELSE {c \in Loops : Turn(c) % 2 = e[2]}
         \cup (IF e = MTE2_V(0) THEN Rescales ELSE {})
         \cup (IF e = V_MTE3(0) THEN Outputs \cup Chunks ELSE {})
AwaitedIn(e) ==
    IF e = softmaxReady THEN {}
    ELSE RaisedIn(e) \cup (IF e \in Initial THEN {LastCycle} ELSE {})
RaisedAt(e) ==
    IF e[1] = "MTE2_V" THEN 0 ELSE IF e = V_MTE2(3) THEN 1 ELSE IF e[1] = "V_MTE2" THEN 3
    ELSE IF e[1] = "V_MTE3" THEN 2 ELSE 5
AwaitedAt(e) ==
    IF e[1] = "MTE2_V" THEN 1 ELSE IF e[1] = "V_MTE3" THEN 5 ELSE IF e[1] = "MTE3_V" THEN 2
    ELSE 0

Raised(e, at) == Count(RaisedIn(e), RaisedAt(e), at[PipeOf(RaisedAt(e))])
Awaited(e, at) == Count(AwaitedIn(e), AwaitedAt(e), at[PipeOf(AwaitedAt(e))])
Credit(e) == IF e \in Initial THEN 1 ELSE 0

(* The places that the scalar unit has reached.                            *)
EndPlace == 64 * (3 * scalar.one + scalar.two) + (IF returned THEN 8 ELSE 0)

Program == [p \in Nat |-> Code(p)]
Writers(b) == {p \in Nat : Present(p) /\ \E x : <<b, x>> \in Code(p).writes}
Executed(p, at) == p < at[PipeOf(Step(p))]

-----------------------------------------------------------------------------
(* The inductive invariant: there are places at which the pipes are.       *)
Types ==
    /\ scalar \in Walker
    /\ lseStageSeq \in 0..1
    /\ queue = [P \in Pipes |-> queue[P]]
    /\ events \in [Events -> Nat]
    /\ ub = [b \in Buffers |-> ub[b]]
    /\ returned \in BOOLEAN

(* The scalar unit issues the calls in the order of the numbers above.     *)
Walk ==
    /\ scalar.two <= scalar.one /\ scalar.one <= scalar.two + 3
    /\ scalar.one > 0 =>
         /\ First[scalar.one - 1] <= scalar.two
         /\ IsLast(scalar.one - 1) \/ scalar.two <= First[scalar.one - 1]
            \/ scalar.two <= scalar.one - 2
    /\ returned => Finished(scalar)
    /\ lseStageSeq = Count(Chunks, 0, 64 * (3 * scalar.one + scalar.two)) % 2

Queues(at) ==
    \A P \in Pipes : /\ at[P] \in Nat /\ at[P] <= EndPlace
                     /\ Runs(queue[P], Program, at[P], EndPlace, Places(P))
Counted(at) == \A e \in Events : events[e] = Credit(e) + Raised(e, at) - Awaited(e, at)

(* A buffer holds what the last of its writers has written.                *)
Held(at) ==
    \A b \in Buffers : \A p \in Writers(b) :
        /\ Executed(p, at)
        /\ \A q \in Writers(b) : Executed(q, at) => q <= p
        => <<b, ub[b]>> \in Code(p).writes

(* A rescale is issued only when MTE3 has stored the last P of its stack.  *)
Issued(at) ==
    \A c \in Rescales : 8 * c < EndPlace => 8 * (32 * FoldedAt(c) + 7) + 5 < at["MTE3"]

At(at) == Queues(at) /\ Counted(at) /\ Held(at) /\ Issued(at)
Inv == Types /\ Walk /\ \E at : At(at)

-----------------------------------------------------------------------------
(* Stacks, cycles and places.                                              *)
LEMMA StackFacts ==
    ASSUME NEW g \in Stacks
    PROVE  /\ g \in Nat /\ g < NumStacks /\ NumStacks \in Nat
           /\ First[g] \in Stacks /\ First[g] \in Nat /\ First[g] <= g
           /\ \A h \in First[g]..g : h \in Stacks /\ First[h] = First[g] /\ Rows[h] = Rows[g]
<1>1. NumStacks \in Nat
  BY StackAssumption
<1>2. g \in Nat /\ g < NumStacks
  BY <1>1 DEF Stacks
<1>3. First[g] \in Stacks /\ First[g] <= g /\ \A h \in First[g]..g : First[h] = First[g]
  BY StackAssumption
<1>4. First[g] \in Nat
  BY <1>1, <1>3 DEF Stacks
<1>5. ASSUME NEW h \in First[g]..g PROVE h \in Stacks /\ First[h] = First[g] /\ Rows[h] = Rows[g]
  <2>1. h \in Stacks
    BY <1>1, <1>2, <1>3, <1>4 DEF Stacks
  <2>2. First[h] = First[g]
    BY <1>3
  <2>3. Rows[h] = Rows[First[h]] /\ Rows[g] = Rows[First[g]]
    BY <2>1, EpilogueAssumption
  <2> QED BY <2>1, <2>2, <2>3
<1> QED BY <1>1, <1>2, <1>3, <1>4, <1>5

(* Two stacks of one task: none between them starts another.               *)
LEMMA SameTask ==
    ASSUME NEW g \in Stacks, NEW h \in Stacks, g < h, First[h] <= g
    PROVE  /\ ~IsLast(g) /\ First[g] = First[h] /\ g + 1 \in Stacks
           /\ First[g + 1] = First[g] /\ First[h] # h
<1>1. g \in Nat /\ h \in Nat /\ First[h] \in Nat /\ h < NumStacks /\ NumStacks \in Nat
  BY StackFacts
<1>2. g \in First[h]..h /\ g + 1 \in First[h]..h
  BY <1>1
<1>3. First[g] = First[h] /\ First[g + 1] = First[h] /\ g + 1 \in Stacks
  BY <1>2, StackFacts
<1>4. First[h] # g + 1 /\ g + 1 # NumStacks /\ First[h] # h
  BY <1>1
<1> QED BY <1>3, <1>4 DEF IsLast

(* 64 rows are at most four row loops and two chunks.                      *)
LEMMA LoopCounts ==
    ASSUME NEW g \in Stacks
    PROVE  /\ Rows[g] \in 0..64
           /\ rowLoopNum(g) \in 0..4 /\ (rowLoopNum(g) = 0 <=> Rows[g] = 0)
           /\ LseChunks(g) \in 0..2 /\ (LseChunks(g) = 0 <=> Rows[g] = 0)
<1>1. Rows[g] \in 0..64 /\ Columns[g] \in 1..512
  BY EpilogueAssumption
<1> PICK r, n : r = Rows[g] /\ n = Columns[g]
  OBVIOUS
<1>2. r \in 0..64 /\ n \in 1..512
  BY <1>1
<1>3. PICK w : w = columnNumRound(g)
  OBVIOUS
<1>4. w \in 16..512
  <2>1. w = ((n + 16 - 1) \div 16) * 16
    BY <1>3 DEF columnNumRound, CeilDiv
  <2> QED BY <1>2, <2>1
<1>5. PICK t : t = rowNumTile(g)
  OBVIOUS
<1>6. t \in Nat /\ t >= 16
  <2>1. t = ((8192 \div w) \div 8) * 8
    BY <1>3, <1>5 DEF rowNumTile, MAX_UB_S_ELEM_NUM
  <2>2. PICK x : x = 8192 \div w
    OBVIOUS
  <2>3. x \in Nat /\ 8192 = x * w + (8192 % w) /\ 8192 % w \in 0..(w - 1)
    BY <1>4, <2>2, QuotientFacts
  <2>4. x >= 16
    <3>1. SUFFICES ASSUME x <= 15 PROVE FALSE
      BY <2>3
    <3>2. x * w <= 15 * w
      BY <1>4, <2>3, <3>1, ProductMonotone
    <3> QED BY <1>4, <2>3, <3>2
  <2> QED BY <2>1, <2>2, <2>3, <2>4
<1>7. PICK q : q = rowLoopNum(g)
  OBVIOUS
<1>8. q \in 0..4 /\ (q = 0 <=> r = 0)
  <2>1. q = (r + t - 1) \div t
    BY <1>5, <1>7 DEF rowLoopNum, CeilDiv
  <2>2. q \in Nat /\ (q - 1) * t < r /\ (q = 0 <=> r = 0)
    <3>1. r \in Nat /\ t \in Nat \ {0}
      BY <1>2, <1>6
    <3> QED BY <2>1, <3>1, CeilingFacts
  <2>3. q <= 4
    <3>1. SUFFICES ASSUME 4 <= q - 1 PROVE FALSE
      BY <2>2
    <3>2. 4 * t <= (q - 1) * t /\ (q - 1) * t \in Int
      BY <1>6, <2>2, <3>1, ProductMonotone
    <3> QED BY <1>2, <1>6, <2>2, <3>2
  <2> QED BY <2>2, <2>3
<1>9. LseChunks(g) = (r + 32 - 1) \div 32
  BY DEF LseChunks, LSE_CHUNK_ROWS, CeilDiv
<1>10. LseChunks(g) \in 0..2 /\ (LseChunks(g) = 0 <=> r = 0)
  BY <1>2, <1>9
<1> QED BY <1>1, <1>7, <1>8, <1>10

CycleAt(m, j, t) == 32 * m + 8 * j + t
LEMMA CycleOf ==
    ASSUME NEW m \in Nat, NEW j \in Nat, j <= 3, NEW t \in Nat, t <= 7
    PROVE  /\ CycleAt(m, j, t) \in Nat /\ StackAt(CycleAt(m, j, t)) = m
           /\ Part(CycleAt(m, j, t)) = j /\ Turn(CycleAt(m, j, t)) = t
<1>1. PICK c : c = CycleAt(m, j, t)
  OBVIOUS
<1>2. c = 32 * m + 8 * j + t
  BY <1>1 DEF CycleAt
<1>3. c \in Nat /\ StackAt(c) = m /\ Part(c) = j /\ Turn(c) = t
  BY <1>2 DEF StackAt, Part, Turn
<1> QED BY <1>1, <1>3

LEMMA CycleSplit ==
    ASSUME NEW c \in Nat
    PROVE  /\ StackAt(c) \in Nat /\ Part(c) \in 0..3 /\ Turn(c) \in 0..7
           /\ c = 32 * StackAt(c) + 8 * Part(c) + Turn(c)
  BY DEF StackAt, Part, Turn

LEMMA PlaceOf ==
    ASSUME NEW c \in Nat, NEW k \in Nat, k <= 7
    PROVE  8 * c + k \in Nat /\ Cycle(8 * c + k) = c /\ Step(8 * c + k) = k
  BY DEF Cycle, Step

LEMMA PlaceSplit ==
    ASSUME NEW p \in Nat
    PROVE  Cycle(p) \in Nat /\ Step(p) \in 0..7 /\ p = 8 * Cycle(p) + Step(p)
  BY DEF Cycle, Step

(* What there is in a cycle.                                               *)
LEMMA LoopFacts ==
    ASSUME NEW c \in Nat, IsLoop(c), NEW m, m = StackAt(c), NEW i, i = Turn(c)
    PROVE  /\ m \in Stacks /\ i \in 0..3 /\ i < rowLoopNum(m) /\ rowLoopNum(m) \in 1..4
           /\ Rows[m] # 0 /\ c = 32 * m + i /\ Part(c) = 0
<1>1. m \in Stacks /\ i < rowLoopNum(m) /\ Part(c) = 0
  BY DEF IsLoop
<1>2. rowLoopNum(m) \in 0..4 /\ (rowLoopNum(m) = 0 <=> Rows[m] = 0)
  BY <1>1, LoopCounts
<1>3. m \in Nat /\ i \in 0..7 /\ c = 32 * m + 8 * Part(c) + i
  BY CycleSplit
<1> QED BY <1>1, <1>2, <1>3

LEMMA ReadyFacts ==
    ASSUME NEW c \in Nat, IsReady(c)
    PROVE  /\ StackAt(c) \in Stacks /\ c = 32 * StackAt(c) + 7
           /\ Part(c) = 0 /\ Turn(c) = 7
  BY CycleSplit DEF IsReady

RescaleCycle(m, g, t) == 8 * (3 * m + 3 + g) + t
LEMMA RescaleFacts ==
    ASSUME NEW c \in Nat, IsRescale(c), NEW m, m = StackAt(c), NEW g, g = FoldedAt(c)
    PROVE  /\ m \in Stacks /\ g \in Stacks /\ First[m] <= g /\ g <= m /\ m <= g + 2
           /\ First[g] = First[m] /\ Rows[g] = Rows[m] /\ Rows[g] # 0
           /\ Part(c) = g - m + 3 /\ Part(c) \in 1..3
           /\ g = m - 2 \/ IsLast(m)
           /\ c = RescaleCycle(m, g, Turn(c)) /\ Turn(c) \in 0..7
<1>1. /\ m \in Stacks /\ Part(c) # 0 /\ First[m] <= g /\ Rows[g] # 0
      /\ Part(c) = 1 \/ IsLast(m)
  BY DEF IsRescale
<1>2. m \in Nat /\ Part(c) \in 1..3 /\ c = 32 * m + 8 * Part(c) + Turn(c) /\ Turn(c) \in 0..7
  BY <1>1, CycleSplit
<1>3. g = m + Part(c) - 3
  BY DEF FoldedAt
<1>4. /\ First[m] \in Nat
      /\ \A h \in First[m]..m : h \in Stacks /\ First[h] = First[m] /\ Rows[h] = Rows[m]
  BY <1>1, StackFacts
<1>5. g \in First[m]..m
  BY <1>1, <1>2, <1>3, <1>4
<1>6. g \in Stacks /\ First[g] = First[m] /\ Rows[g] = Rows[m]
  BY <1>4, <1>5
<1>7. m <= g + 2 /\ g <= m /\ Part(c) = g - m + 3 /\ (Part(c) = 1 => g = m - 2)
  BY <1>2, <1>3, <1>4, <1>5
<1>8. c = RescaleCycle(m, g, Turn(c))
  BY <1>2, <1>3, <1>4, <1>5 DEF RescaleCycle
<1> QED BY <1>1, <1>2, <1>6, <1>7, <1>8

(* O goes out with the rescale of the last stack of a task.                *)
LEMMA OutFacts ==
    ASSUME NEW c \in Nat, IsRescale(c), Part(c) = 3
    PROVE  /\ FoldedAt(c) = StackAt(c) /\ StackAt(c) \in Stacks /\ IsLast(StackAt(c))
           /\ c = 32 * StackAt(c) + 24 + Turn(c)
<1>1. StackAt(c) \in Nat
  BY CycleSplit
<1>2. FoldedAt(c) = StackAt(c)
  BY <1>1 DEF FoldedAt
<1> QED BY <1>1, <1>2, CycleSplit DEF IsRescale

LEMMA RescaleCycleFacts ==
    ASSUME NEW m \in Nat, NEW g \in Nat, g <= m, m <= g + 2, NEW t \in Nat, t <= 7,
           NEW c, c = RescaleCycle(m, g, t)
    PROVE  /\ c \in Nat /\ StackAt(c) = m /\ FoldedAt(c) = g /\ Turn(c) = t
           /\ Part(c) = g - m + 3 /\ Part(c) \in 1..3
<1>1. PICK j \in Nat : j <= 3 /\ j = g - m + 3 /\ j # 0
  OBVIOUS
<1>2. c = CycleAt(m, j, t)
  BY <1>1 DEF RescaleCycle, CycleAt
<1>3. c \in Nat /\ StackAt(c) = m /\ Part(c) = j /\ Turn(c) = t
  BY <1>1, <1>2, CycleOf
<1>4. FoldedAt(c) = g
  BY <1>1, <1>3 DEF FoldedAt
<1> QED BY <1>1, <1>3, <1>4

(* The rescale of stack g comes behind the softmax of m.                   *)
LEMMA RescaleAt ==
    ASSUME NEW m \in Stacks, NEW g \in Stacks, First[m] <= g, g <= m, m <= g + 2,
           g = m - 2 \/ IsLast(m), Rows[g] # 0, NEW t \in Nat, t <= 7,
           NEW c, c = RescaleCycle(m, g, t)
    PROVE  /\ c \in Nat /\ IsRescale(c) /\ StackAt(c) = m /\ FoldedAt(c) = g /\ Turn(c) = t
           /\ Part(c) = g - m + 3
<1>1. m \in Nat /\ g \in Nat
  BY StackFacts
<1>2. /\ c \in Nat /\ StackAt(c) = m /\ FoldedAt(c) = g /\ Turn(c) = t
      /\ Part(c) = g - m + 3 /\ Part(c) \in 1..3
  BY <1>1, RescaleCycleFacts
<1>3. Part(c) = 1 \/ IsLast(m)
  BY <1>1, <1>2
<1>4. Part(c) # 0
  BY <1>2
<1> QED BY <1>2, <1>3, <1>4 DEF IsRescale

LEMMA ChunkFacts ==
    ASSUME NEW c \in Nat, IsChunk(c)
    PROVE  /\ FoldedAt(c) = StackAt(c) /\ StackAt(c) \in Stacks /\ IsLast(StackAt(c))
           /\ c = 32 * StackAt(c) + 24 + Turn(c) /\ Turn(c) \in 1..2
           /\ Turn(c) <= LseChunks(StackAt(c)) /\ Part(c) = 3 /\ IsRescale(c)
<1>1. /\ FoldedAt(c) = StackAt(c) /\ StackAt(c) \in Stacks /\ IsLast(StackAt(c))
      /\ c = 32 * StackAt(c) + 24 + Turn(c)
  BY OutFacts DEF IsChunk
<1>2. Turn(c) # 0 /\ Turn(c) <= LseChunks(StackAt(c)) /\ Turn(c) \in 0..7
  BY <1>1, CycleSplit DEF IsChunk
<1>3. LseChunks(StackAt(c)) \in 0..2
  BY <1>1, LoopCounts
<1> QED BY <1>1, <1>2, <1>3 DEF IsChunk

(* A cycle is of one kind.                                                 *)
LEMMA Kinds ==
    ASSUME NEW c \in Nat
    PROVE  /\ IsLoop(c) => ~IsReady(c) /\ ~IsFold(c) /\ ~IsChunk(c) /\ c # LastCycle
           /\ IsReady(c) => ~IsFold(c) /\ ~IsChunk(c) /\ c # LastCycle
           /\ IsFold(c) => ~IsChunk(c) /\ c # LastCycle
           /\ IsChunk(c) => c # LastCycle
           /\ IsOutput(c) => IsFold(c)
<1>1. IsLoop(c) => Part(c) = 0 /\ Turn(c) # 7
  BY LoopFacts
<1>2. IsReady(c) => Part(c) = 0 /\ Turn(c) = 7
  BY ReadyFacts
<1>3. /\ IsFold(c) => Part(c) # 0 /\ Turn(c) = 0 /\ StackAt(c) \in Stacks
      /\ IsChunk(c) => Part(c) # 0 /\ Turn(c) # 0 /\ StackAt(c) \in Stacks
      /\ IsLoop(c) \/ IsReady(c) => StackAt(c) \in Stacks
  BY DEF IsFold, IsChunk, IsRescale, IsLoop, IsReady
<1>4. c = LastCycle => StackAt(c) \notin Stacks
  <2>1. NumStacks \in Nat
    BY StackAssumption
  <2>2. c = LastCycle => c = CycleAt(NumStacks, 0, 0)
    BY <2>1 DEF LastCycle, CycleAt
  <2>3. c = LastCycle => StackAt(c) = NumStacks
    BY <2>1, <2>2, CycleOf
  <2> QED BY <2>1, <2>3 DEF Stacks
<1> QED BY <1>1, <1>2, <1>3, <1>4 DEF IsOutput

LEMMA CodeOf ==
    ASSUME NEW p \in Nat, NEW c, c = Cycle(p), NEW k, k = Step(p)
    PROVE  /\ IsLoop(c) => Code(p) = LoopCode(StackAt(c), Turn(c), k)
           /\ IsReady(c) => Code(p) = Instruction({}, {}, {}, {softmaxReady})
           /\ IsFold(c) => Code(p) = FoldCode(FoldedAt(c), k)
           /\ IsChunk(c) => Code(p) = ChunkCode(FoldedAt(c), Turn(c) - 1, Bank(c), k)
           /\ c = LastCycle => Code(p) = FinalCode(k)
<1>1. c \in Nat
  BY PlaceSplit
<1> QED BY <1>1, Kinds DEF Code

-----------------------------------------------------------------------------
(* Which instructions raise and await an event.                            *)
Half(c) == Turn(c) % 2
LoopsOf(i) == {c \in Loops : Turn(c) % 2 = i}

LEMMA EventKinds ==
    ASSUME NEW e \in Events
    PROVE  \/ \E i \in 0..2 : e = V_MTE2(i)
           \/ e = V_MTE2(3)
           \/ \E i \in 0..2 : e = MTE3_V(i)
           \/ \E i \in 2..5 : e = MTE3_MTE2(i)
           \/ \E i \in 0..1 : e = MTE2_V(i)
           \/ \E i \in 0..1 : e = V_MTE3(i)
           \/ e = softmaxReady
<1>1. ASSUME e \in V_MTE2_Initial
      PROVE  (\E i \in 0..2 : e = V_MTE2(i)) \/ e = V_MTE2(3)
  <2>1. PICK i \in 0..3 : e = V_MTE2(i)
    BY <1>1 DEF V_MTE2_Initial
  <2>2. i \in 0..2 \/ i = 3
    BY <2>1
  <2> QED BY <2>1, <2>2
<1> QED BY <1>1 DEF Events, Initial, MTE3_V_Initial, MTE3_MTE2_Initial

LEMMA EventTable ==
    /\ \A i \in 0..2 : LET e == V_MTE2(i) IN
          /\ RaisedIn(e) = LoopsOf(i) /\ AwaitedIn(e) = LoopsOf(i) \cup {LastCycle}
          /\ RaisedAt(e) = 3 /\ AwaitedAt(e) = 0 /\ Credit(e) = 1
    /\ LET e == V_MTE2(3) IN
          /\ RaisedIn(e) = Rescales /\ AwaitedIn(e) = Rescales \cup {LastCycle}
          /\ RaisedAt(e) = 1 /\ AwaitedAt(e) = 0 /\ Credit(e) = 1
    /\ \A i \in 0..2 : LET e == MTE3_V(i) IN
          /\ RaisedIn(e) = LoopsOf(i) /\ AwaitedIn(e) = LoopsOf(i) \cup {LastCycle}
          /\ RaisedAt(e) = 5 /\ AwaitedAt(e) = 2 /\ Credit(e) = 1
    /\ \A i \in 2..5 : LET e == MTE3_MTE2(i) IN
          /\ RaisedIn(e) = {} /\ AwaitedIn(e) = {LastCycle}
          /\ RaisedAt(e) = 5 /\ AwaitedAt(e) = 0 /\ Credit(e) = 1
    /\ \A i \in 0..1 : LET e == MTE2_V(i) IN
          /\ RaisedIn(e) = LoopsOf(i) \cup (IF i = 0 THEN Rescales ELSE {})
          /\ AwaitedIn(e) = RaisedIn(e)
          /\ RaisedAt(e) = 0 /\ AwaitedAt(e) = 1 /\ Credit(e) = 0
    /\ \A i \in 0..1 : LET e == V_MTE3(i) IN
          /\ RaisedIn(e) = LoopsOf(i) \cup (IF i = 0 THEN Outputs \cup Chunks ELSE {})
          /\ AwaitedIn(e) = RaisedIn(e)
          /\ RaisedAt(e) = 2 /\ AwaitedAt(e) = 5 /\ Credit(e) = 0
    /\ LET e == softmaxReady IN
          /\ RaisedIn(e) = Readies /\ AwaitedIn(e) = {}
          /\ RaisedAt(e) = 5 /\ AwaitedAt(e) = 0 /\ Credit(e) = 0
<1>1. ASSUME NEW i \in 0..2, NEW e, e = V_MTE2(i)
      PROVE  /\ RaisedIn(e) = LoopsOf(i) /\ AwaitedIn(e) = LoopsOf(i) \cup {LastCycle}
             /\ RaisedAt(e) = 3 /\ AwaitedAt(e) = 0 /\ Credit(e) = 1
  <2>1. /\ e # softmaxReady /\ e[1] = "V_MTE2" /\ e[2] = i /\ e # V_MTE2(3)
        /\ e # MTE2_V(0) /\ e # V_MTE3(0) /\ e \in V_MTE2_Initial
    BY <1>1 DEF V_MTE2, softmaxReady, MTE2_V, V_MTE3, V_MTE2_Initial
  <2>2. e \in Initial
    BY <2>1 DEF Initial
  <2> QED BY <2>1, <2>2 DEF RaisedIn, AwaitedIn, RaisedAt, AwaitedAt, Credit, LoopsOf
<1>2. ASSUME NEW e, e = V_MTE2(3)
      PROVE  /\ RaisedIn(e) = Rescales /\ AwaitedIn(e) = Rescales \cup {LastCycle}
             /\ RaisedAt(e) = 1 /\ AwaitedAt(e) = 0 /\ Credit(e) = 1
  <2>1. /\ e # softmaxReady /\ e[1] = "V_MTE2" /\ e \in V_MTE2_Initial
    BY <1>2 DEF V_MTE2, softmaxReady, V_MTE2_Initial
  <2>2. e \in Initial
    BY <2>1 DEF Initial
  <2> QED BY <1>2, <2>1, <2>2 DEF RaisedIn, AwaitedIn, RaisedAt, AwaitedAt, Credit
<1>3. ASSUME NEW i \in 0..2, NEW e, e = MTE3_V(i)
      PROVE  /\ RaisedIn(e) = LoopsOf(i) /\ AwaitedIn(e) = LoopsOf(i) \cup {LastCycle}
             /\ RaisedAt(e) = 5 /\ AwaitedAt(e) = 2 /\ Credit(e) = 1
  <2>1. /\ e # softmaxReady /\ e[1] = "MTE3_V" /\ e[2] = i /\ e # V_MTE2(3)
        /\ e # MTE2_V(0) /\ e # V_MTE3(0) /\ e \in MTE3_V_Initial
    BY <1>3 DEF V_MTE2, softmaxReady, MTE2_V, V_MTE3, MTE3_V, MTE3_V_Initial
  <2>2. e \in Initial
    BY <2>1 DEF Initial
  <2> QED BY <2>1, <2>2 DEF RaisedIn, AwaitedIn, RaisedAt, AwaitedAt, Credit, LoopsOf
<1>4. ASSUME NEW i \in 2..5, NEW e, e = MTE3_MTE2(i)
      PROVE  /\ RaisedIn(e) = {} /\ AwaitedIn(e) = {LastCycle}
             /\ RaisedAt(e) = 5 /\ AwaitedAt(e) = 0 /\ Credit(e) = 1
  <2>1. /\ e # softmaxReady /\ e[1] = "MTE3_MTE2" /\ e # V_MTE2(3) /\ e \in MTE3_MTE2_Initial
    BY <1>4 DEF V_MTE2, softmaxReady, MTE3_MTE2, MTE3_MTE2_Initial
  <2>2. e \in Initial
    BY <2>1 DEF Initial
  <2> QED BY <2>1, <2>2 DEF RaisedIn, AwaitedIn, RaisedAt, AwaitedAt, Credit
<1> DEFINE Late == MTE3_V_Initial \cup MTE3_MTE2_Initial
<1>9. ASSUME NEW e \in Initial PROVE e[1] \in {"V_MTE2", "MTE3_V", "MTE3_MTE2"}
  BY DEF Initial, V_MTE2_Initial, MTE3_V_Initial, MTE3_MTE2_Initial, V_MTE2, MTE3_V, MTE3_MTE2
<1>5. ASSUME NEW i \in 0..1, NEW e, e = MTE2_V(i)
      PROVE  /\ RaisedIn(e) = LoopsOf(i) \cup (IF i = 0 THEN Rescales ELSE {})
             /\ AwaitedIn(e) = RaisedIn(e)
             /\ RaisedAt(e) = 0 /\ AwaitedAt(e) = 1 /\ Credit(e) = 0
  <2>1. /\ e # softmaxReady /\ e[1] = "MTE2_V" /\ e[2] = i /\ e # V_MTE2(3)
        /\ (e = MTE2_V(0) <=> i = 0) /\ e # V_MTE3(0)
    BY <1>5 DEF V_MTE2, softmaxReady, MTE2_V, V_MTE3
  <2>2. e \notin Initial
    BY <1>9, <2>1
  <2>3. AwaitedIn(e) = RaisedIn(e) /\ Credit(e) = 0
    BY <2>1, <2>2 DEF AwaitedIn, Credit
  <2>4. RaisedIn(e) = LoopsOf(i) \cup (IF i = 0 THEN Rescales ELSE {})
    BY <2>1 DEF RaisedIn, LoopsOf
  <2> QED BY <2>1, <2>3, <2>4 DEF RaisedAt, AwaitedAt
<1>6. ASSUME NEW i \in 0..1, NEW e, e = V_MTE3(i)
      PROVE  /\ RaisedIn(e) = LoopsOf(i) \cup (IF i = 0 THEN Outputs \cup Chunks ELSE {})
             /\ AwaitedIn(e) = RaisedIn(e)
             /\ RaisedAt(e) = 2 /\ AwaitedAt(e) = 5 /\ Credit(e) = 0
  <2>1. /\ e # softmaxReady /\ e[1] = "V_MTE3" /\ e[2] = i /\ e # V_MTE2(3)
        /\ (e = V_MTE3(0) <=> i = 0) /\ e # MTE2_V(0)
    BY <1>6 DEF V_MTE2, softmaxReady, MTE2_V, V_MTE3
  <2>2. e \notin Initial
    BY <1>9, <2>1
  <2>3. AwaitedIn(e) = RaisedIn(e) /\ Credit(e) = 0
    BY <2>1, <2>2 DEF AwaitedIn, Credit
  <2>4. RaisedIn(e) = LoopsOf(i) \cup (IF i = 0 THEN Outputs \cup Chunks ELSE {})
    BY <2>1 DEF RaisedIn, LoopsOf
  <2> QED BY <2>1, <2>3, <2>4 DEF RaisedAt, AwaitedAt
<1>7. ASSUME NEW e, e = softmaxReady
      PROVE  /\ RaisedIn(e) = Readies /\ AwaitedIn(e) = {}
             /\ RaisedAt(e) = 5 /\ AwaitedAt(e) = 0 /\ Credit(e) = 0
  <2>1. e[1] = "softmaxReady" /\ e # V_MTE2(3)
    BY <1>7 DEF softmaxReady, V_MTE2
  <2>2. e \notin Initial
    BY <1>9, <2>1
  <2> QED BY <1>7, <2>1, <2>2 DEF RaisedIn, AwaitedIn, RaisedAt, AwaitedAt, Credit
<1> QED BY <1>1, <1>2, <1>3, <1>4, <1>5, <1>6, <1>7, Zenon

LEMMA CycleSets ==
    /\ Loops \subseteq Nat /\ Readies \subseteq Nat /\ Rescales \subseteq Nat
    /\ Outputs \subseteq Nat /\ Chunks \subseteq Nat /\ LastCycle \in Nat
    /\ \A i : LoopsOf(i) \subseteq Nat
    /\ \A c \in Nat : /\ c \in Loops <=> IsLoop(c)
                      /\ c \in Readies <=> IsReady(c)
                      /\ c \in Rescales <=> IsFold(c)
                      /\ c \in Outputs <=> IsOutput(c)
                      /\ c \in Chunks <=> IsChunk(c)
                      /\ \A i : c \in LoopsOf(i) <=> IsLoop(c) /\ Half(c) = i
<1>1. LastCycle \in Nat
  BY StackAssumption DEF LastCycle
<1> QED BY <1>1 DEF Loops, Readies, Rescales, Outputs, Chunks, LoopsOf, Half

LEMMA EventSets ==
    ASSUME NEW e \in Events
    PROVE  /\ RaisedIn(e) \subseteq Nat /\ AwaitedIn(e) \subseteq Nat
           /\ RaisedAt(e) \in Nat /\ RaisedAt(e) <= 7 /\ AwaitedAt(e) \in Nat /\ AwaitedAt(e) <= 7
           /\ Credit(e) \in 0..1
           /\ RaisedIn(e) \subseteq AwaitedIn(e) \/ e = softmaxReady
<1>1. CASE \E i \in 0..2 : e = V_MTE2(i)
  <2>1. PICK i \in 0..2 : e = V_MTE2(i)
    BY <1>1
  <2>2. /\ RaisedIn(e) = LoopsOf(i) /\ AwaitedIn(e) = LoopsOf(i) \cup {LastCycle}
        /\ RaisedAt(e) = 3 /\ AwaitedAt(e) = 0 /\ Credit(e) = 1
    BY <2>1, EventTable, Zenon
  <2>3. /\ LoopsOf(i) \subseteq Nat /\ LastCycle \in Nat
        /\ Rescales \subseteq Nat /\ Outputs \subseteq Nat /\ Chunks \subseteq Nat
    BY CycleSets
  <2> QED BY <2>2, <2>3
<1>2. CASE e = V_MTE2(3)
  <2>1. /\ RaisedIn(e) = Rescales /\ AwaitedIn(e) = Rescales \cup {LastCycle}
        /\ RaisedAt(e) = 1 /\ AwaitedAt(e) = 0 /\ Credit(e) = 1
    BY <1>2, EventTable, Zenon
  <2> QED BY <2>1, CycleSets
<1>3. CASE \E i \in 0..2 : e = MTE3_V(i)
  BY <1>3, EventTable, CycleSets
<1>4. CASE \E i \in 2..5 : e = MTE3_MTE2(i)
  BY <1>4, EventTable, CycleSets
<1>5. CASE \E i \in 0..1 : e = MTE2_V(i)
  <2>1. PICK i \in 0..1 : e = MTE2_V(i)
    BY <1>5
  <2>2. /\ RaisedIn(e) = LoopsOf(i) \cup (IF i = 0 THEN Rescales ELSE {})
        /\ AwaitedIn(e) = RaisedIn(e)
        /\ RaisedAt(e) = 0 /\ AwaitedAt(e) = 1 /\ Credit(e) = 0
    BY <2>1, EventTable, Zenon
  <2>3. /\ LoopsOf(i) \subseteq Nat /\ LastCycle \in Nat
        /\ Rescales \subseteq Nat /\ Outputs \subseteq Nat /\ Chunks \subseteq Nat
    BY CycleSets
  <2>4. RaisedIn(e) \subseteq Nat
    <3>1. CASE i = 0
      BY <2>2, <2>3, <3>1
    <3>2. CASE i # 0
      BY <2>2, <2>3, <3>2
    <3> QED BY <3>1, <3>2
  <2> QED BY <2>2, <2>4
<1>6. CASE \E i \in 0..1 : e = V_MTE3(i)
  <2>1. PICK i \in 0..1 : e = V_MTE3(i)
    BY <1>6
  <2>2. /\ RaisedIn(e) = LoopsOf(i) \cup (IF i = 0 THEN Outputs \cup Chunks ELSE {})
        /\ AwaitedIn(e) = RaisedIn(e)
        /\ RaisedAt(e) = 2 /\ AwaitedAt(e) = 5 /\ Credit(e) = 0
    BY <2>1, EventTable, Zenon
  <2>3. /\ LoopsOf(i) \subseteq Nat /\ LastCycle \in Nat
        /\ Rescales \subseteq Nat /\ Outputs \subseteq Nat /\ Chunks \subseteq Nat
    BY CycleSets
  <2>4. RaisedIn(e) \subseteq Nat
    <3>1. CASE i = 0
      BY <2>2, <2>3, <3>1
    <3>2. CASE i # 0
      BY <2>2, <2>3, <3>2
    <3> QED BY <3>1, <3>2
  <2> QED BY <2>2, <2>4
<1>7. CASE e = softmaxReady
  BY <1>7, EventTable, CycleSets
<1> QED BY <1>1, <1>2, <1>3, <1>4, <1>5, <1>6, <1>7, EventKinds

LEMMA LoopCodeFacts ==
    ASSUME NEW g, NEW i, NEW k, NEW h, h = i % 2
    PROVE  /\ k = 0 => /\ LoopCode(g, i, k).waits = {V_MTE2(h)}
                       /\ LoopCode(g, i, k).sets = {MTE2_V(h)}
           /\ k = 1 => /\ LoopCode(g, i, k).waits = {MTE2_V(h)}
                       /\ LoopCode(g, i, k).sets = {}
           /\ k = 2 => /\ LoopCode(g, i, k).waits = {MTE3_V(h)}
                       /\ LoopCode(g, i, k).sets = {V_MTE3(h)}
           /\ k = 3 => /\ LoopCode(g, i, k).waits = {}
                       /\ LoopCode(g, i, k).sets = {V_MTE2(h)}
           /\ k = 4 => /\ LoopCode(g, i, k).waits = {}
                       /\ LoopCode(g, i, k).sets = {}
           /\ k = 5 => /\ LoopCode(g, i, k).waits = {V_MTE3(h)}
                       /\ LoopCode(g, i, k).sets = {MTE3_V(h)}
  BY DEF LoopCode, Instruction

LEMMA FoldCodeFacts ==
    ASSUME NEW g, NEW k
    PROVE  /\ k = 0 => /\ FoldCode(g, k).waits = {V_MTE2(3)}
                       /\ FoldCode(g, k).sets = {MTE2_V(0)}
           /\ k = 1 => /\ FoldCode(g, k).waits = {MTE2_V(0)}
                       /\ FoldCode(g, k).sets = {V_MTE2(3)}
           /\ k = 2 => /\ FoldCode(g, k).waits = {}
                       /\ FoldCode(g, k).sets = {V_MTE3(0)}
           /\ k = 3 => /\ FoldCode(g, k).waits = {}
                       /\ FoldCode(g, k).sets = {}
           /\ k = 5 => /\ FoldCode(g, k).waits = {V_MTE3(0)}
                       /\ FoldCode(g, k).sets = {}
  BY DEF FoldCode, Instruction

LEMMA ChunkCodeFacts ==
    ASSUME NEW g, NEW i, NEW bank, NEW k
    PROVE  /\ k = 2 => /\ ChunkCode(g, i, bank, k).waits = {}
                       /\ ChunkCode(g, i, bank, k).sets = {V_MTE3(0)}
           /\ k = 5 => /\ ChunkCode(g, i, bank, k).waits = {V_MTE3(0)}
                       /\ ChunkCode(g, i, bank, k).sets = {}
  BY DEF ChunkCode, Instruction

LEMMA FinalCodeFacts ==
    /\ FinalCode(0).waits = MTE3_MTE2_Initial \cup V_MTE2_Initial /\ FinalCode(0).sets = {}
    /\ FinalCode(2).waits = MTE3_V_Initial /\ FinalCode(2).sets = {}
  BY DEF FinalCode, Instruction

LEMMA HalfOf ==
    ASSUME NEW c \in Nat
    PROVE  Half(c) \in 0..1 /\ Half(c) = Turn(c) % 2
<1>1. Turn(c) \in 0..7
  BY CycleSplit
<1> QED BY <1>1 DEF Half

(* The events of one instruction are those of its cycle and step.          *)
UsedAt(p, e) ==
    /\ e \in Code(p).sets <=> Step(p) = RaisedAt(e) /\ Cycle(p) \in RaisedIn(e)
    /\ e \in Code(p).waits <=> Step(p) = AwaitedAt(e) /\ Cycle(p) \in AwaitedIn(e)

(* What an event says of a place of a kind: where it is raised and awaited *)
(* in the cycles of this kind.                                             *)
LEMMA LoopUse ==
    ASSUME NEW p \in Nat, IsLoop(Cycle(p)), Step(p) \in 0..5, NEW e \in Events
    PROVE  UsedAt(p, e)
<1> PICK c, k, h, i, m : c = Cycle(p) /\ k = Step(p) /\ h = Half(c) /\ i = Turn(c) /\ m = StackAt(c)
  OBVIOUS
<1>1. c \in Nat /\ IsLoop(c) /\ k \in 0..5
  BY PlaceSplit
<1>2. h \in 0..1 /\ h = i % 2
  BY <1>1, HalfOf
<1>3. Code(p) = LoopCode(m, i, k)
  BY <1>1, CodeOf
<1>4. /\ \A x : c \in LoopsOf(x) <=> h = x
      /\ c \notin Rescales /\ c \notin Outputs /\ c \notin Chunks /\ c \notin Readies
      /\ c # LastCycle
  BY <1>1, CycleSets, Kinds
<1>5. /\ k = 0 => Code(p).waits = {V_MTE2(h)} /\ Code(p).sets = {MTE2_V(h)}
      /\ k = 1 => Code(p).waits = {MTE2_V(h)} /\ Code(p).sets = {}
      /\ k = 2 => Code(p).waits = {MTE3_V(h)} /\ Code(p).sets = {V_MTE3(h)}
      /\ k = 3 => Code(p).waits = {} /\ Code(p).sets = {V_MTE2(h)}
      /\ k = 4 => Code(p).waits = {} /\ Code(p).sets = {}
      /\ k = 5 => Code(p).waits = {V_MTE3(h)} /\ Code(p).sets = {MTE3_V(h)}
  BY <1>2, <1>3, LoopCodeFacts
<1>6. ASSUME NEW a, NEW x, e = <<a, x>>
      PROVE  /\ e \in Code(p).sets <=> \/ k = 0 /\ a = "MTE2_V" /\ x = h
                                       \/ k = 2 /\ a = "V_MTE3" /\ x = h
                                       \/ k = 3 /\ a = "V_MTE2" /\ x = h
                                       \/ k = 5 /\ a = "MTE3_V" /\ x = h
             /\ e \in Code(p).waits <=> \/ k = 0 /\ a = "V_MTE2" /\ x = h
                                        \/ k = 1 /\ a = "MTE2_V" /\ x = h
                                        \/ k = 2 /\ a = "MTE3_V" /\ x = h
                                        \/ k = 5 /\ a = "V_MTE3" /\ x = h
  <2>1. k = 0 \/ k = 1 \/ k = 2 \/ k = 3 \/ k = 4 \/ k = 5
    BY <1>1
  <2> QED BY <1>5, <1>6, <2>1 DEF V_MTE2, MTE2_V, MTE3_V, V_MTE3
<1>7. CASE \E x \in 0..2 : e = V_MTE2(x)
  <2>1. PICK x \in 0..2 : e = V_MTE2(x)
    BY <1>7
  <2>2. /\ RaisedIn(e) = LoopsOf(x) /\ AwaitedIn(e) = LoopsOf(x) \cup {LastCycle}
        /\ RaisedAt(e) = 3 /\ AwaitedAt(e) = 0
    BY <2>1, EventTable, Zenon
  <2>3. /\ e \in Code(p).sets <=> k = 3 /\ x = h
        /\ e \in Code(p).waits <=> k = 0 /\ x = h
    BY <1>6, <2>1 DEF V_MTE2
  <2> QED BY <1>4, <2>2, <2>3 DEF UsedAt
<1>8. CASE e = V_MTE2(3)
  <2>2. /\ RaisedIn(e) = Rescales /\ AwaitedIn(e) = Rescales \cup {LastCycle}
    BY <1>8, EventTable, Zenon
  <2>3. e \notin Code(p).sets /\ e \notin Code(p).waits
    BY <1>2, <1>6, <1>8 DEF V_MTE2
  <2> QED BY <1>4, <2>2, <2>3 DEF UsedAt
<1>9. CASE \E x \in 0..2 : e = MTE3_V(x)
  <2>1. PICK x \in 0..2 : e = MTE3_V(x)
    BY <1>9
  <2>2. /\ RaisedIn(e) = LoopsOf(x) /\ AwaitedIn(e) = LoopsOf(x) \cup {LastCycle}
        /\ RaisedAt(e) = 5 /\ AwaitedAt(e) = 2
    BY <2>1, EventTable, Zenon
  <2>3. /\ e \in Code(p).sets <=> k = 5 /\ x = h
        /\ e \in Code(p).waits <=> k = 2 /\ x = h
    BY <1>6, <2>1 DEF MTE3_V
  <2> QED BY <1>4, <2>2, <2>3 DEF UsedAt
<1>10. CASE \E x \in 2..5 : e = MTE3_MTE2(x)
  <2>1. PICK x \in 2..5 : e = MTE3_MTE2(x)
    BY <1>10
  <2>2. RaisedIn(e) = {} /\ AwaitedIn(e) = {LastCycle}
    BY <2>1, EventTable, Zenon
  <2>3. e \notin Code(p).sets /\ e \notin Code(p).waits
    BY <1>6, <2>1 DEF MTE3_MTE2
  <2> QED BY <1>4, <2>2, <2>3 DEF UsedAt
<1>11. CASE \E x \in 0..1 : e = MTE2_V(x)
  <2>1. PICK x \in 0..1 : e = MTE2_V(x)
    BY <1>11
  <2>2. /\ RaisedIn(e) = LoopsOf(x) \cup (IF x = 0 THEN Rescales ELSE {})
        /\ AwaitedIn(e) = RaisedIn(e) /\ RaisedAt(e) = 0 /\ AwaitedAt(e) = 1
    BY <2>1, EventTable, Zenon
  <2>3. /\ e \in Code(p).sets <=> k = 0 /\ x = h
        /\ e \in Code(p).waits <=> k = 1 /\ x = h
    BY <1>6, <2>1 DEF MTE2_V
  <2>4. c \in RaisedIn(e) <=> h = x
    BY <1>4, <2>2
  <2> QED BY <2>2, <2>3, <2>4 DEF UsedAt
<1>12. CASE \E x \in 0..1 : e = V_MTE3(x)
  <2>1. PICK x \in 0..1 : e = V_MTE3(x)
    BY <1>12
  <2>2. /\ RaisedIn(e) = LoopsOf(x) \cup (IF x = 0 THEN Outputs \cup Chunks ELSE {})
        /\ AwaitedIn(e) = RaisedIn(e) /\ RaisedAt(e) = 2 /\ AwaitedAt(e) = 5
    BY <2>1, EventTable, Zenon
  <2>3. /\ e \in Code(p).sets <=> k = 2 /\ x = h
        /\ e \in Code(p).waits <=> k = 5 /\ x = h
    BY <1>6, <2>1 DEF V_MTE3
  <2>4. c \in RaisedIn(e) <=> h = x
    BY <1>4, <2>2
  <2> QED BY <2>2, <2>3, <2>4 DEF UsedAt
<1>13. CASE e = softmaxReady
  <2>2. RaisedIn(e) = Readies /\ AwaitedIn(e) = {}
    BY <1>13, EventTable, Zenon
  <2>3. e \notin Code(p).sets /\ e \notin Code(p).waits
    BY <1>6, <1>13 DEF softmaxReady
  <2> QED BY <1>4, <2>2, <2>3 DEF UsedAt
<1> QED BY <1>7, <1>8, <1>9, <1>10, <1>11, <1>12, <1>13, EventKinds

(* In a cycle without a row loop there are four events.                    *)
LEMMA OtherEvents ==
    ASSUME NEW c \in Nat, ~IsLoop(c), c # LastCycle, NEW e \in Events
    PROVE  /\ c \in RaisedIn(e) <=> \/ e = V_MTE2(3) /\ IsFold(c)
                                    \/ e = MTE2_V(0) /\ IsFold(c)
                                    \/ e = V_MTE3(0) /\ (IsOutput(c) \/ IsChunk(c))
                                    \/ e = softmaxReady /\ IsReady(c)
           /\ c \in AwaitedIn(e) <=> \/ e = V_MTE2(3) /\ IsFold(c)
                                     \/ e = MTE2_V(0) /\ IsFold(c)
                                     \/ e = V_MTE3(0) /\ (IsOutput(c) \/ IsChunk(c))
<1> DEFINE Right == /\ c \in RaisedIn(e) <=> \/ e = V_MTE2(3) /\ IsFold(c)
                                             \/ e = MTE2_V(0) /\ IsFold(c)
                                             \/ e = V_MTE3(0) /\ (IsOutput(c) \/ IsChunk(c))
                                             \/ e = softmaxReady /\ IsReady(c)
                    /\ c \in AwaitedIn(e) <=> \/ e = V_MTE2(3) /\ IsFold(c)
                                              \/ e = MTE2_V(0) /\ IsFold(c)
                                              \/ e = V_MTE3(0) /\ (IsOutput(c) \/ IsChunk(c))
<1>4. /\ \A x : c \notin LoopsOf(x)
      /\ c \in Rescales <=> IsFold(c)
      /\ c \in Outputs <=> IsOutput(c)
      /\ c \in Chunks <=> IsChunk(c)
      /\ c \in Readies <=> IsReady(c)
  BY CycleSets
<1>7. CASE \E x \in 0..2 : e = V_MTE2(x)
  <2>1. PICK x \in 0..2 : e = V_MTE2(x)
    BY <1>7
  <2>2. RaisedIn(e) = LoopsOf(x) /\ AwaitedIn(e) = LoopsOf(x) \cup {LastCycle}
    BY <2>1, EventTable, Zenon
  <2>3. e # V_MTE2(3) /\ e # MTE2_V(0) /\ e # V_MTE3(0) /\ e # softmaxReady
    BY <2>1 DEF V_MTE2, MTE2_V, V_MTE3, softmaxReady
  <2> QED BY <1>4, <2>2, <2>3
<1>8. CASE e = V_MTE2(3)
  <2>2. /\ RaisedIn(e) = Rescales /\ AwaitedIn(e) = Rescales \cup {LastCycle}
    BY <1>8, EventTable, Zenon
  <2>3. e # MTE2_V(0) /\ e # V_MTE3(0) /\ e # softmaxReady
    BY <1>8 DEF V_MTE2, MTE2_V, V_MTE3, softmaxReady
  <2> QED BY <1>4, <1>8, <2>2, <2>3
<1>9. CASE \E x \in 0..2 : e = MTE3_V(x)
  <2>1. PICK x \in 0..2 : e = MTE3_V(x)
    BY <1>9
  <2>2. RaisedIn(e) = LoopsOf(x) /\ AwaitedIn(e) = LoopsOf(x) \cup {LastCycle}
    BY <2>1, EventTable, Zenon
  <2>3. e # V_MTE2(3) /\ e # MTE2_V(0) /\ e # V_MTE3(0) /\ e # softmaxReady
    BY <2>1 DEF V_MTE2, MTE2_V, V_MTE3, MTE3_V, softmaxReady
  <2> QED BY <1>4, <2>2, <2>3
<1>10. CASE \E x \in 2..5 : e = MTE3_MTE2(x)
  <2>1. PICK x \in 2..5 : e = MTE3_MTE2(x)
    BY <1>10
  <2>2. RaisedIn(e) = {} /\ AwaitedIn(e) = {LastCycle}
    BY <2>1, EventTable, Zenon
  <2>3. e # V_MTE2(3) /\ e # MTE2_V(0) /\ e # V_MTE3(0) /\ e # softmaxReady
    BY <2>1 DEF V_MTE2, MTE2_V, V_MTE3, MTE3_MTE2, softmaxReady
  <2> QED BY <1>4, <2>2, <2>3
<1>11. CASE \E x \in 0..1 : e = MTE2_V(x)
  <2>1. PICK x \in 0..1 : e = MTE2_V(x)
    BY <1>11
  <2>2. /\ RaisedIn(e) = LoopsOf(x) \cup (IF x = 0 THEN Rescales ELSE {})
        /\ AwaitedIn(e) = RaisedIn(e)
    BY <2>1, EventTable, Zenon
  <2>3. e # V_MTE2(3) /\ e # V_MTE3(0) /\ e # softmaxReady /\ (e = MTE2_V(0) <=> x = 0)
    BY <2>1 DEF V_MTE2, MTE2_V, V_MTE3, softmaxReady
  <2> QED BY <1>4, <2>2, <2>3
<1>12. CASE \E x \in 0..1 : e = V_MTE3(x)
  <2>1. PICK x \in 0..1 : e = V_MTE3(x)
    BY <1>12
  <2>2. /\ RaisedIn(e) = LoopsOf(x) \cup (IF x = 0 THEN Outputs \cup Chunks ELSE {})
        /\ AwaitedIn(e) = RaisedIn(e)
    BY <2>1, EventTable, Zenon
  <2>3. e # V_MTE2(3) /\ e # MTE2_V(0) /\ e # softmaxReady /\ (e = V_MTE3(0) <=> x = 0)
    BY <2>1 DEF V_MTE2, MTE2_V, V_MTE3, softmaxReady
  <2> QED BY <1>4, <2>2, <2>3
<1>13. CASE e = softmaxReady
  <2>2. RaisedIn(e) = Readies /\ AwaitedIn(e) = {}
    BY <1>13, EventTable, Zenon
  <2>3. e # V_MTE2(3) /\ e # MTE2_V(0) /\ e # V_MTE3(0)
    BY <1>13 DEF V_MTE2, MTE2_V, V_MTE3, softmaxReady
  <2> QED BY <1>4, <1>13, <2>2, <2>3
<1> HIDE DEF Right
<1> QED BY <1>7, <1>8, <1>9, <1>10, <1>11, <1>12, <1>13, EventKinds DEF Right

LEMMA OtherPlaces ==
    /\ RaisedAt(V_MTE2(3)) = 1 /\ AwaitedAt(V_MTE2(3)) = 0
    /\ RaisedAt(MTE2_V(0)) = 0 /\ AwaitedAt(MTE2_V(0)) = 1
    /\ RaisedAt(V_MTE3(0)) = 2 /\ AwaitedAt(V_MTE3(0)) = 5
    /\ RaisedAt(softmaxReady) = 5 /\ AwaitedAt(softmaxReady) = 0
    /\ V_MTE2(3) # MTE2_V(0) /\ V_MTE2(3) # V_MTE3(0) /\ V_MTE2(3) # softmaxReady
    /\ MTE2_V(0) # V_MTE3(0) /\ MTE2_V(0) # softmaxReady /\ V_MTE3(0) # softmaxReady
  BY DEF V_MTE2, MTE2_V, V_MTE3, softmaxReady, RaisedAt, AwaitedAt

LEMMA OtherUse ==
    ASSUME NEW p \in Nat, Present(p), ~IsLoop(Cycle(p)), Cycle(p) # LastCycle, NEW e \in Events
    PROVE  UsedAt(p, e)
<1> PICK c, k : c = Cycle(p) /\ k = Step(p)
  OBVIOUS
<1>1. c \in Nat /\ ~IsLoop(c) /\ c # LastCycle
  BY PlaceSplit
<1>2. \/ IsReady(c) /\ k = 5
      \/ IsFold(c) /\ k \in {0, 1}
      \/ IsOutput(c) /\ k \in {2, 3, 5}
      \/ IsChunk(c) /\ k \in {2, 5}
  BY DEF Present
<1>3. CASE IsReady(c) /\ k = 5
  <2>1. Code(p) = Instruction({}, {}, {}, {softmaxReady})
    BY <1>3, CodeOf
  <2>2. Code(p).waits = {} /\ Code(p).sets = {softmaxReady}
    BY <2>1 DEF Instruction
  <2>3. ~IsFold(c) /\ ~IsOutput(c) /\ ~IsChunk(c)
    BY <1>1, <1>3, Kinds
  <2> QED BY <1>1, <1>3, <2>2, <2>3, OtherEvents, OtherPlaces DEF UsedAt
<1>4. CASE IsFold(c) /\ k \in {0, 1}
  <2>1. Code(p) = FoldCode(FoldedAt(c), k)
    BY <1>4, CodeOf
  <2>2. /\ k = 0 => Code(p).waits = {V_MTE2(3)} /\ Code(p).sets = {MTE2_V(0)}
        /\ k = 1 => Code(p).waits = {MTE2_V(0)} /\ Code(p).sets = {V_MTE2(3)}
    BY <2>1, FoldCodeFacts
  <2>3. ~IsReady(c) /\ ~IsChunk(c)
    BY <1>1, <1>4, Kinds
  <2> QED BY <1>1, <1>4, <2>2, <2>3, OtherEvents, OtherPlaces DEF UsedAt
<1>5. CASE IsOutput(c) /\ k \in {2, 3, 5}
  <2>3. IsFold(c) /\ ~IsReady(c) /\ ~IsChunk(c)
    BY <1>1, <1>5, Kinds
  <2>1. Code(p) = FoldCode(FoldedAt(c), k)
    BY <2>3, CodeOf
  <2>2. /\ k = 2 => Code(p).waits = {} /\ Code(p).sets = {V_MTE3(0)}
        /\ k = 3 => Code(p).waits = {} /\ Code(p).sets = {}
        /\ k = 5 => Code(p).waits = {V_MTE3(0)} /\ Code(p).sets = {}
    BY <2>1, FoldCodeFacts
  <2> QED BY <1>1, <1>5, <2>2, <2>3, OtherEvents, OtherPlaces DEF UsedAt
<1>6. CASE IsChunk(c) /\ k \in {2, 5}
  <2>1. Code(p) = ChunkCode(FoldedAt(c), Turn(c) - 1, Bank(c), k)
    BY <1>6, CodeOf
  <2>2. /\ k = 2 => Code(p).waits = {} /\ Code(p).sets = {V_MTE3(0)}
        /\ k = 5 => Code(p).waits = {V_MTE3(0)} /\ Code(p).sets = {}
    BY <2>1, ChunkCodeFacts
  <2>3. ~IsReady(c) /\ ~IsFold(c) /\ ~IsOutput(c)
    BY <1>1, <1>6, Kinds
  <2> QED BY <1>1, <1>6, <2>2, <2>3, OtherEvents, OtherPlaces DEF UsedAt
<1> QED BY <1>2, <1>3, <1>4, <1>5, <1>6

LEMMA FinalUse ==
    ASSUME NEW p \in Nat, Cycle(p) = LastCycle, Step(p) \in {0, 2}, NEW e \in Events
    PROVE  UsedAt(p, e)
<1> PICK c, k : c = Cycle(p) /\ k = Step(p)
  OBVIOUS
<1>1. c \in Nat /\ k \in {0, 2} /\ c = LastCycle
  BY PlaceSplit
<1>2. /\ \A x : c \notin LoopsOf(x)
      /\ c \notin Rescales /\ c \notin Outputs /\ c \notin Chunks /\ c \notin Readies
  BY <1>1, CycleSets, Kinds
<1>3. Code(p) = FinalCode(k)
  BY <1>1, CodeOf
<1>4. /\ k = 0 => Code(p).waits = MTE3_MTE2_Initial \cup V_MTE2_Initial
      /\ k = 2 => Code(p).waits = MTE3_V_Initial
      /\ Code(p).sets = {}
  BY <1>1, <1>3, FinalCodeFacts
<1>5. /\ e \in V_MTE2_Initial => e[1] = "V_MTE2"
      /\ e \in MTE3_V_Initial => e[1] = "MTE3_V"
      /\ e \in MTE3_MTE2_Initial => e[1] = "MTE3_MTE2"
  BY DEF V_MTE2_Initial, MTE3_V_Initial, MTE3_MTE2_Initial, V_MTE2, MTE3_V, MTE3_MTE2
<1>7. CASE \E x \in 0..2 : e = V_MTE2(x)
  <2>1. PICK x \in 0..2 : e = V_MTE2(x)
    BY <1>7
  <2>2. /\ RaisedIn(e) = LoopsOf(x) /\ AwaitedIn(e) = LoopsOf(x) \cup {LastCycle}
        /\ RaisedAt(e) = 3 /\ AwaitedAt(e) = 0
    BY <2>1, EventTable, Zenon
  <2>3. e \in V_MTE2_Initial /\ e[1] = "V_MTE2"
    BY <2>1 DEF V_MTE2, V_MTE2_Initial
  <2> QED BY <1>1, <1>2, <1>4, <1>5, <2>2, <2>3 DEF UsedAt
<1>8. CASE e = V_MTE2(3)
  <2>2. /\ RaisedIn(e) = Rescales /\ AwaitedIn(e) = Rescales \cup {LastCycle}
        /\ RaisedAt(e) = 1 /\ AwaitedAt(e) = 0
    BY <1>8, EventTable, Zenon
  <2>3. e \in V_MTE2_Initial /\ e[1] = "V_MTE2"
    BY <1>8 DEF V_MTE2, V_MTE2_Initial
  <2> QED BY <1>1, <1>2, <1>4, <1>5, <2>2, <2>3 DEF UsedAt
<1>9. CASE \E x \in 0..2 : e = MTE3_V(x)
  <2>1. PICK x \in 0..2 : e = MTE3_V(x)
    BY <1>9
  <2>2. /\ RaisedIn(e) = LoopsOf(x) /\ AwaitedIn(e) = LoopsOf(x) \cup {LastCycle}
        /\ RaisedAt(e) = 5 /\ AwaitedAt(e) = 2
    BY <2>1, EventTable, Zenon
  <2>3. e \in MTE3_V_Initial /\ e[1] = "MTE3_V"
    BY <2>1 DEF MTE3_V, MTE3_V_Initial
  <2> QED BY <1>1, <1>2, <1>4, <1>5, <2>2, <2>3 DEF UsedAt
<1>10. CASE \E x \in 2..5 : e = MTE3_MTE2(x)
  <2>1. PICK x \in 2..5 : e = MTE3_MTE2(x)
    BY <1>10
  <2>2. /\ RaisedIn(e) = {} /\ AwaitedIn(e) = {LastCycle}
        /\ RaisedAt(e) = 5 /\ AwaitedAt(e) = 0
    BY <2>1, EventTable, Zenon
  <2>3. e \in MTE3_MTE2_Initial /\ e[1] = "MTE3_MTE2"
    BY <2>1 DEF MTE3_MTE2, MTE3_MTE2_Initial
  <2> QED BY <1>1, <1>2, <1>4, <1>5, <2>2, <2>3 DEF UsedAt
<1>11. CASE \E x \in 0..1 : e = MTE2_V(x)
  <2>1. PICK x \in 0..1 : e = MTE2_V(x)
    BY <1>11
  <2>2. /\ RaisedIn(e) = LoopsOf(x) \cup (IF x = 0 THEN Rescales ELSE {})
        /\ AwaitedIn(e) = RaisedIn(e)
    BY <2>1, EventTable, Zenon
  <2>3. e[1] = "MTE2_V"
    BY <2>1 DEF MTE2_V
  <2>4. e \notin Code(p).waits
    BY <1>1, <1>4, <1>5, <2>3
  <2>5. c \notin RaisedIn(e)
    BY <1>2, <2>2
  <2> QED BY <1>4, <2>2, <2>4, <2>5 DEF UsedAt
<1>12. CASE \E x \in 0..1 : e = V_MTE3(x)
  <2>1. PICK x \in 0..1 : e = V_MTE3(x)
    BY <1>12
  <2>2. /\ RaisedIn(e) = LoopsOf(x) \cup (IF x = 0 THEN Outputs \cup Chunks ELSE {})
        /\ AwaitedIn(e) = RaisedIn(e)
    BY <2>1, EventTable, Zenon
  <2>3. e[1] = "V_MTE3"
    BY <2>1 DEF V_MTE3
  <2>4. e \notin Code(p).waits
    BY <1>1, <1>4, <1>5, <2>3
  <2>5. c \notin RaisedIn(e)
    BY <1>2, <2>2
  <2> QED BY <1>4, <2>2, <2>4, <2>5 DEF UsedAt
<1>13. CASE e = softmaxReady
  <2>2. RaisedIn(e) = Readies /\ AwaitedIn(e) = {}
    BY <1>13, EventTable, Zenon
  <2>3. e[1] = "softmaxReady"
    BY <1>13 DEF softmaxReady
  <2>4. e \notin Code(p).waits
    BY <1>1, <1>4, <1>5, <2>3
  <2> QED BY <1>2, <1>4, <2>2, <2>4 DEF UsedAt
<1> QED BY <1>7, <1>8, <1>9, <1>10, <1>11, <1>12, <1>13, EventKinds

LEMMA EventUse ==
    ASSUME NEW p \in Nat, Present(p), NEW e \in Events
    PROVE  UsedAt(p, e)
<1>1. CASE IsLoop(Cycle(p))
  <2>1. Cycle(p) \in Nat
    BY PlaceSplit
  <2>2. Step(p) \in 0..5
    BY <1>1, <2>1, Kinds DEF Present
  <2> QED BY <1>1, <2>2, LoopUse
<1>2. CASE Cycle(p) = LastCycle
  <2>1. Cycle(p) \in Nat
    BY PlaceSplit
  <2>2. Step(p) \in {0, 2}
    BY <1>2, <2>1, Kinds DEF Present
  <2> QED BY <1>2, <2>2, FinalUse
<1> QED BY <1>1, <1>2, OtherUse

(* And where an event is raised or awaited there is an instruction.        *)
LEMMA EventPlaces ==
    ASSUME NEW e \in Events
    PROVE  /\ \A c \in RaisedIn(e) : 8 * c + RaisedAt(e) \in Places(PipeOf(RaisedAt(e)))
           /\ \A c \in AwaitedIn(e) : 8 * c + AwaitedAt(e) \in Places(PipeOf(AwaitedAt(e)))
<1>1. ASSUME NEW c \in Nat, NEW k \in Nat, k <= 7,
             \/ IsLoop(c) /\ k \in 0..5
             \/ IsReady(c) /\ k = 5
             \/ IsFold(c) /\ k \in {0, 1}
             \/ IsOutput(c) /\ k \in {2, 3, 5}
             \/ IsChunk(c) /\ k \in {2, 5}
             \/ c = LastCycle /\ k \in {0, 2}
      PROVE  8 * c + k \in Places(PipeOf(k))
  <2>1. PICK p : p = 8 * c + k
    OBVIOUS
  <2>2. p \in Nat /\ Cycle(p) = c /\ Step(p) = k
    BY <1>1, <2>1 DEF Cycle, Step
  <2>3. Present(p)
    BY <1>1, <2>2 DEF Present
  <2> QED BY <2>1, <2>2, <2>3 DEF Places
<1>4. /\ \A x : \A c \in LoopsOf(x) : c \in Nat /\ IsLoop(c)
      /\ \A c \in Rescales : c \in Nat /\ IsFold(c)
      /\ \A c \in Outputs : c \in Nat /\ IsOutput(c)
      /\ \A c \in Chunks : c \in Nat /\ IsChunk(c)
      /\ \A c \in Readies : c \in Nat /\ IsReady(c)
      /\ LastCycle \in Nat
  <2>1. /\ \A x : LoopsOf(x) \subseteq Nat
        /\ Rescales \subseteq Nat /\ Outputs \subseteq Nat /\ Chunks \subseteq Nat
        /\ Readies \subseteq Nat /\ LastCycle \in Nat
    BY CycleSets
  <2> QED BY <2>1, CycleSets
<1>7. CASE \E x \in 0..2 : e = V_MTE2(x)
  <2>1. PICK x \in 0..2 : e = V_MTE2(x)
    BY <1>7
  <2>2. /\ RaisedIn(e) = LoopsOf(x) /\ AwaitedIn(e) = LoopsOf(x) \cup {LastCycle}
        /\ RaisedAt(e) = 3 /\ AwaitedAt(e) = 0
    BY <2>1, EventTable, Zenon
  <2> QED BY <1>1, <1>4, <2>2
<1>8. CASE e = V_MTE2(3)
  <2>2. /\ RaisedIn(e) = Rescales /\ AwaitedIn(e) = Rescales \cup {LastCycle}
        /\ RaisedAt(e) = 1 /\ AwaitedAt(e) = 0
    BY <1>8, EventTable, Zenon
  <2> QED BY <1>1, <1>4, <2>2
<1>9. CASE \E x \in 0..2 : e = MTE3_V(x)
  <2>1. PICK x \in 0..2 : e = MTE3_V(x)
    BY <1>9
  <2>2. /\ RaisedIn(e) = LoopsOf(x) /\ AwaitedIn(e) = LoopsOf(x) \cup {LastCycle}
        /\ RaisedAt(e) = 5 /\ AwaitedAt(e) = 2
    BY <2>1, EventTable, Zenon
  <2> QED BY <1>1, <1>4, <2>2
<1>10. CASE \E x \in 2..5 : e = MTE3_MTE2(x)
  <2>1. PICK x \in 2..5 : e = MTE3_MTE2(x)
    BY <1>10
  <2>2. /\ RaisedIn(e) = {} /\ AwaitedIn(e) = {LastCycle} /\ AwaitedAt(e) = 0
    BY <2>1, EventTable, Zenon
  <2> QED BY <1>1, <1>4, <2>2
<1>11. CASE \E x \in 0..1 : e = MTE2_V(x)
  <2>1. PICK x \in 0..1 : e = MTE2_V(x)
    BY <1>11
  <2>2. /\ RaisedIn(e) = LoopsOf(x) \cup (IF x = 0 THEN Rescales ELSE {})
        /\ AwaitedIn(e) = RaisedIn(e) /\ RaisedAt(e) = 0 /\ AwaitedAt(e) = 1
    BY <2>1, EventTable, Zenon
  <2>3. \A c \in RaisedIn(e) : c \in LoopsOf(x) \/ c \in Rescales
    BY <2>2
  <2> QED BY <1>1, <1>4, <2>2, <2>3
<1>12. CASE \E x \in 0..1 : e = V_MTE3(x)
  <2>1. PICK x \in 0..1 : e = V_MTE3(x)
    BY <1>12
  <2>2. /\ RaisedIn(e) = LoopsOf(x) \cup (IF x = 0 THEN Outputs \cup Chunks ELSE {})
        /\ AwaitedIn(e) = RaisedIn(e) /\ RaisedAt(e) = 2 /\ AwaitedAt(e) = 5
    BY <2>1, EventTable, Zenon
  <2>3. \A c \in RaisedIn(e) : c \in LoopsOf(x) \/ c \in Outputs \/ c \in Chunks
    BY <2>2
  <2> QED BY <1>1, <1>4, <2>2, <2>3
<1>13. CASE e = softmaxReady
  <2>2. RaisedIn(e) = Readies /\ AwaitedIn(e) = {} /\ RaisedAt(e) = 5
    BY <1>13, EventTable, Zenon
  <2> QED BY <1>1, <1>4, <2>2
<1> QED BY <1>7, <1>8, <1>9, <1>10, <1>11, <1>12, <1>13, EventKinds

-----------------------------------------------------------------------------
(* What an instruction writes and reads.                                   *)
LastLoop(c) == Turn(c) = rowLoopNum(StackAt(c)) - 1

(* Step k of cycle c writes x to b.                                        *)
WritesTo(c, k, b, x) ==
    LET m == StackAt(c)
        i == Turn(c)
        g == FoldedAt(c)
    IN  \/ IsLoop(c) /\ k = 0 /\ b = ls(Half(c)) /\ x = <<m, i>>
        \/ IsLoop(c) /\ k = 1 /\ LastLoop(c) /\ b = hm /\ x = Of(m)
        \/ IsLoop(c) /\ k = 1 /\ LastLoop(c) /\ First[m] # m /\ b = dm(Slot(m)) /\ x = Of(m)
        \/ IsLoop(c) /\ k = 2 /\ b = lp(Half(c)) /\ x = <<m, i>>
        \/ IsLoop(c) /\ k = 4 /\ LastLoop(c) /\ b = gl /\ x = Of(m)
        \/ IsFold(c) /\ k = 0 /\ First[g] # g /\ b = lo /\ x = Of(g)
        \/ IsFold(c) /\ k = 0 /\ First[g] = g /\ b = go /\ x = Of(g)
        \/ IsFold(c) /\ k = 1 /\ First[g] # g /\ b = go /\ x = Of(g)
        \/ IsOutput(c) /\ k = 2 /\ b = go /\ x = <<g, 1>>
        \/ IsOutput(c) /\ k = 3 /\ b = lseVal /\ x = Of(g)
        \/ IsChunk(c) /\ k = 2 /\ b = lseStage(Bank(c)) /\ x = <<g, i - 1>>

(* It reads b and is meant to find x in it.                                *)
ReadsFrom(c, k, b, x) ==
    LET m == StackAt(c)
        i == Turn(c)
        g == FoldedAt(c)
    IN  \/ IsLoop(c) /\ k \in 1..3 /\ b = ls(Half(c)) /\ x = <<m, i>>
        \/ IsLoop(c) /\ k = 1 /\ LastLoop(c) /\ First[m] # m /\ b = hm /\ x = Of(m - 1)
        \/ IsLoop(c) /\ k = 4 /\ LastLoop(c) /\ First[m] # m /\ b = gl /\ x = Of(m - 1)
        \/ IsLoop(c) /\ k = 4 /\ LastLoop(c) /\ First[m] # m /\ b = dm(Slot(m)) /\ x = Of(m)
        \/ IsLoop(c) /\ k = 5 /\ b = lp(Half(c)) /\ x = <<m, i>>
        \/ IsFold(c) /\ k = 1 /\ First[g] # g /\ b = dm(Slot(g)) /\ x = Of(g)
        \/ IsFold(c) /\ k = 1 /\ First[g] # g /\ b = go /\ x = Of(g - 1)
        \/ IsFold(c) /\ k = 1 /\ First[g] # g /\ b = lo /\ x = Of(g)
        \/ IsOutput(c) /\ k \in 2..3 /\ b = gl /\ x = Of(g)
        \/ IsOutput(c) /\ k = 2 /\ b = go /\ x = Of(g)
        \/ IsOutput(c) /\ k = 3 /\ b = hm /\ x = Of(g)
        \/ IsOutput(c) /\ k = 5 /\ b = go /\ x = <<g, 1>>
        \/ IsChunk(c) /\ k = 2 /\ b = lseVal /\ x = Of(g)
        \/ IsChunk(c) /\ k = 5 /\ b = lseStage(Bank(c)) /\ x = <<g, i - 1>>

LEMMA LoopMemory ==
    ASSUME NEW g, NEW i, NEW k, k \in 0..5, NEW h, h = i % 2, NEW w
    PROVE  LET last == i = rowLoopNum(g) - 1
           IN  /\ w \in LoopCode(g, i, k).writes <=>
                   \/ k = 0 /\ w = <<ls(h), <<g, i>>>>
                   \/ k = 1 /\ last /\ w = <<hm, Of(g)>>
                   \/ k = 1 /\ last /\ First[g] # g /\ w = <<dm(Slot(g)), Of(g)>>
                   \/ k = 2 /\ w = <<lp(h), <<g, i>>>>
                   \/ k = 4 /\ last /\ w = <<gl, Of(g)>>
               /\ w \in LoopCode(g, i, k).reads <=>
                   \/ k \in 1..3 /\ w = <<ls(h), <<g, i>>>>
                   \/ k = 1 /\ last /\ First[g] # g /\ w = <<hm, Of(g - 1)>>
                   \/ k = 4 /\ last /\ First[g] # g /\ w = <<gl, Of(g - 1)>>
                   \/ k = 4 /\ last /\ First[g] # g /\ w = <<dm(Slot(g)), Of(g)>>
                   \/ k = 5 /\ w = <<lp(h), <<g, i>>>>
<1>1. k = 0 \/ k = 1 \/ k = 2 \/ k = 3 \/ k = 4 \/ k = 5
  OBVIOUS
<1> QED BY <1>1 DEF LoopCode, Instruction, IfLastLoop, IfFirst

LEMMA FoldMemory ==
    ASSUME NEW g, NEW k, k \in {0, 1, 2, 3, 5}, NEW w
    PROVE  /\ w \in FoldCode(g, k).writes <=>
                   \/ k = 0 /\ First[g] # g /\ w = <<lo, Of(g)>>
                   \/ k = 0 /\ First[g] = g /\ w = <<go, Of(g)>>
                   \/ k = 1 /\ First[g] # g /\ w = <<go, Of(g)>>
                   \/ k = 2 /\ w = <<go, <<g, 1>>>>
                   \/ k = 3 /\ w = <<lseVal, Of(g)>>
           /\ w \in FoldCode(g, k).reads <=>
                   \/ k = 1 /\ First[g] # g /\ w = <<dm(Slot(g)), Of(g)>>
                   \/ k = 1 /\ First[g] # g /\ w = <<go, Of(g - 1)>>
                   \/ k = 1 /\ First[g] # g /\ w = <<lo, Of(g)>>
                   \/ k \in 2..3 /\ w = <<gl, Of(g)>>
                   \/ k = 2 /\ w = <<go, Of(g)>>
                   \/ k = 3 /\ w = <<hm, Of(g)>>
                   \/ k = 5 /\ w = <<go, <<g, 1>>>>
  BY DEF FoldCode, Instruction, IfFirst

LEMMA ChunkMemory ==
    ASSUME NEW g, NEW i, NEW bank, NEW k, k \in {2, 5}, NEW w
    PROVE  /\ w \in ChunkCode(g, i, bank, k).writes <=> k = 2 /\ w = <<lseStage(bank), <<g, i>>>>
           /\ w \in ChunkCode(g, i, bank, k).reads <=>
                   \/ k = 2 /\ w = <<lseVal, Of(g)>>
                   \/ k = 5 /\ w = <<lseStage(bank), <<g, i>>>>
  BY DEF ChunkCode, Instruction

LEMMA MemoryUse ==
    ASSUME NEW p \in Nat, Present(p), NEW w
    PROVE  /\ w \in Code(p).writes <=>
                  \E b, x : w = <<b, x>> /\ WritesTo(Cycle(p), Step(p), b, x)
           /\ w \in Code(p).reads <=>
                  \E b, x : w = <<b, x>> /\ ReadsFrom(Cycle(p), Step(p), b, x)
<1> PICK c, k, h, i, m, g : /\ c = Cycle(p) /\ k = Step(p) /\ h = Half(c)
                            /\ i = Turn(c) /\ m = StackAt(c) /\ g = FoldedAt(c)
  OBVIOUS
<1>1. c \in Nat /\ k \in 0..7
  BY PlaceSplit
<1>2. \/ IsLoop(c) /\ k \in 0..5
      \/ IsReady(c) /\ k = 5
      \/ IsFold(c) /\ k \in {0, 1}
      \/ IsOutput(c) /\ k \in {2, 3, 5}
      \/ IsChunk(c) /\ k \in {2, 5}
      \/ c = LastCycle /\ k \in {0, 2}
  BY DEF Present
<1>3. CASE IsLoop(c) /\ k \in 0..5
  <2>1. Code(p) = LoopCode(m, i, k) /\ h = i % 2
    BY <1>1, <1>3, CodeOf, HalfOf
  <2>2. ~IsFold(c) /\ ~IsOutput(c) /\ ~IsChunk(c)
    BY <1>1, <1>3, Kinds
  <2>3. \A b, x : WritesTo(c, k, b, x) <=>
                   \/ k = 0 /\ b = ls(h) /\ x = <<m, i>>
                   \/ k = 1 /\ i = rowLoopNum(m) - 1 /\ b = hm /\ x = Of(m)
                   \/ k = 1 /\ i = rowLoopNum(m) - 1 /\ First[m] # m /\ b = dm(Slot(m)) /\ x = Of(m)
                   \/ k = 2 /\ b = lp(h) /\ x = <<m, i>>
                   \/ k = 4 /\ i = rowLoopNum(m) - 1 /\ b = gl /\ x = Of(m)
    BY <1>3, <2>1, <2>2, SMT DEF WritesTo, LastLoop
  <2>4. \A b, x : ReadsFrom(c, k, b, x) <=>
                   \/ k \in 1..3 /\ b = ls(h) /\ x = <<m, i>>
                   \/ k = 1 /\ i = rowLoopNum(m) - 1 /\ First[m] # m /\ b = hm /\ x = Of(m - 1)
                   \/ k = 4 /\ i = rowLoopNum(m) - 1 /\ First[m] # m /\ b = gl /\ x = Of(m - 1)
                   \/ k = 4 /\ i = rowLoopNum(m) - 1 /\ First[m] # m /\ b = dm(Slot(m)) /\ x = Of(m)
                   \/ k = 5 /\ b = lp(h) /\ x = <<m, i>>
    BY <1>3, <2>1, <2>2, SMT DEF ReadsFrom, LastLoop
  <2> QED BY <1>3, <2>1, <2>3, <2>4, LoopMemory
<1>4. CASE IsReady(c) /\ k = 5
  <2>1. Code(p).writes = {} /\ Code(p).reads = {}
    BY <1>4, CodeOf DEF Instruction
  <2>2. ~IsFold(c) /\ ~IsOutput(c) /\ ~IsChunk(c) /\ ~IsLoop(c)
    BY <1>1, <1>4, Kinds
  <2> QED BY <2>1, <2>2 DEF WritesTo, ReadsFrom
<1>5. CASE (IsFold(c) /\ k \in {0, 1}) \/ (IsOutput(c) /\ k \in {2, 3, 5})
  <2>1. IsFold(c) /\ ~IsLoop(c) /\ ~IsChunk(c)
    BY <1>1, <1>5, Kinds
  <2>2. Code(p) = FoldCode(g, k) /\ k \in {0, 1, 2, 3, 5}
    BY <1>5, <2>1, CodeOf
  <2>5. k \in {2, 3, 5} => IsOutput(c)
    BY <1>5
  <2>3. \A b, x : WritesTo(c, k, b, x) <=>
                   \/ k = 0 /\ First[g] # g /\ b = lo /\ x = Of(g)
                   \/ k = 0 /\ First[g] = g /\ b = go /\ x = Of(g)
                   \/ k = 1 /\ First[g] # g /\ b = go /\ x = Of(g)
                   \/ k = 2 /\ b = go /\ x = <<g, 1>>
                   \/ k = 3 /\ b = lseVal /\ x = Of(g)
    BY <2>1, <2>2, <2>5 DEF WritesTo
  <2>4. \A b, x : ReadsFrom(c, k, b, x) <=>
                   \/ k = 1 /\ First[g] # g /\ b = dm(Slot(g)) /\ x = Of(g)
                   \/ k = 1 /\ First[g] # g /\ b = go /\ x = Of(g - 1)
                   \/ k = 1 /\ First[g] # g /\ b = lo /\ x = Of(g)
                   \/ k \in 2..3 /\ b = gl /\ x = Of(g)
                   \/ k = 2 /\ b = go /\ x = Of(g)
                   \/ k = 3 /\ b = hm /\ x = Of(g)
                   \/ k = 5 /\ b = go /\ x = <<g, 1>>
    BY <2>1, <2>2, <2>5 DEF ReadsFrom
  <2> QED BY <2>2, <2>3, <2>4, FoldMemory
<1>6. CASE IsChunk(c) /\ k \in {2, 5}
  <2>1. ~IsFold(c) /\ ~IsOutput(c) /\ ~IsLoop(c)
    BY <1>1, <1>6, Kinds
  <2>2. Code(p) = ChunkCode(g, i - 1, Bank(c), k)
    BY <1>6, CodeOf
  <2>3. \A b, x : WritesTo(c, k, b, x) <=>
                   k = 2 /\ b = lseStage(Bank(c)) /\ x = <<g, i - 1>>
    BY <1>6, <2>1, SMT DEF WritesTo
  <2>4. \A b, x : ReadsFrom(c, k, b, x) <=>
                   \/ k = 2 /\ b = lseVal /\ x = Of(g)
                   \/ k = 5 /\ b = lseStage(Bank(c)) /\ x = <<g, i - 1>>
    BY <1>6, <2>1, SMT DEF ReadsFrom
  <2> QED BY <1>6, <2>2, <2>3, <2>4, ChunkMemory
<1>7. CASE c = LastCycle /\ k \in {0, 2}
  <2>1. Code(p).writes = {} /\ Code(p).reads = {}
    <3>1. Code(p) = FinalCode(k)
      BY <1>7, CodeOf
    <3> QED BY <3>1 DEF Instruction, FinalCode
  <2>2. ~IsFold(c) /\ ~IsOutput(c) /\ ~IsChunk(c) /\ ~IsLoop(c)
    BY <1>1, <1>7, Kinds
  <2> QED BY <2>1, <2>2 DEF WritesTo, ReadsFrom
<1> QED BY <1>2, <1>3, <1>4, <1>5, <1>6, <1>7

(* Who writes to a buffer.                                                 *)
LEMMA WritersOf ==
    ASSUME NEW c, NEW k, NEW x
    PROVE  /\ \A h : WritesTo(c, k, ls(h), x) <=>
                  IsLoop(c) /\ k = 0 /\ Half(c) = h /\ x = <<StackAt(c), Turn(c)>>
           /\ \A h : WritesTo(c, k, lp(h), x) <=>
                  IsLoop(c) /\ k = 2 /\ Half(c) = h /\ x = <<StackAt(c), Turn(c)>>
           /\ \A s : WritesTo(c, k, dm(s), x) <=>
                  /\ IsLoop(c) /\ k = 1 /\ LastLoop(c) /\ First[StackAt(c)] # StackAt(c)
                  /\ Slot(StackAt(c)) = s /\ x = Of(StackAt(c))
           /\ WritesTo(c, k, hm, x) <=>
                  IsLoop(c) /\ k = 1 /\ LastLoop(c) /\ x = Of(StackAt(c))
           /\ WritesTo(c, k, gl, x) <=>
                  IsLoop(c) /\ k = 4 /\ LastLoop(c) /\ x = Of(StackAt(c))
           /\ WritesTo(c, k, lo, x) <=>
                  IsFold(c) /\ k = 0 /\ First[FoldedAt(c)] # FoldedAt(c) /\ x = Of(FoldedAt(c))
           /\ WritesTo(c, k, go, x) <=>
                  \/ IsFold(c) /\ k = 0 /\ First[FoldedAt(c)] = FoldedAt(c) /\ x = Of(FoldedAt(c))
                  \/ IsFold(c) /\ k = 1 /\ First[FoldedAt(c)] # FoldedAt(c) /\ x = Of(FoldedAt(c))
                  \/ IsOutput(c) /\ k = 2 /\ x = <<FoldedAt(c), 1>>
           /\ WritesTo(c, k, lseVal, x) <=>
                  IsOutput(c) /\ k = 3 /\ x = Of(FoldedAt(c))
           /\ \A s : WritesTo(c, k, lseStage(s), x) <=>
                  IsChunk(c) /\ k = 2 /\ Bank(c) = s /\ x = <<FoldedAt(c), Turn(c) - 1>>
<1> USE DEF WritesTo, ls, lp, dm, hm, gl, lo, go, lseVal, lseStage
<1>1. \A h : WritesTo(c, k, ls(h), x) <=>
                  IsLoop(c) /\ k = 0 /\ Half(c) = h /\ x = <<StackAt(c), Turn(c)>>
  OBVIOUS
<1>2. \A h : WritesTo(c, k, lp(h), x) <=>
                  IsLoop(c) /\ k = 2 /\ Half(c) = h /\ x = <<StackAt(c), Turn(c)>>
  OBVIOUS
<1>3. \A s : WritesTo(c, k, dm(s), x) <=>
                  /\ IsLoop(c) /\ k = 1 /\ LastLoop(c) /\ First[StackAt(c)] # StackAt(c)
                  /\ Slot(StackAt(c)) = s /\ x = Of(StackAt(c))
  OBVIOUS
<1>4. WritesTo(c, k, hm, x) <=>
                  IsLoop(c) /\ k = 1 /\ LastLoop(c) /\ x = Of(StackAt(c))
  OBVIOUS
<1>5. WritesTo(c, k, gl, x) <=>
                  IsLoop(c) /\ k = 4 /\ LastLoop(c) /\ x = Of(StackAt(c))
  OBVIOUS
<1>6. WritesTo(c, k, lo, x) <=>
                  IsFold(c) /\ k = 0 /\ First[FoldedAt(c)] # FoldedAt(c) /\ x = Of(FoldedAt(c))
  OBVIOUS
<1>7. WritesTo(c, k, go, x) <=>
                  \/ IsFold(c) /\ k = 0 /\ First[FoldedAt(c)] = FoldedAt(c) /\ x = Of(FoldedAt(c))
                  \/ IsFold(c) /\ k = 1 /\ First[FoldedAt(c)] # FoldedAt(c) /\ x = Of(FoldedAt(c))
                  \/ IsOutput(c) /\ k = 2 /\ x = <<FoldedAt(c), 1>>
  OBVIOUS
<1>8. WritesTo(c, k, lseVal, x) <=> IsOutput(c) /\ k = 3 /\ x = Of(FoldedAt(c))
  OBVIOUS
<1>9. \A s : WritesTo(c, k, lseStage(s), x) <=>
                  IsChunk(c) /\ k = 2 /\ Bank(c) = s /\ x = <<FoldedAt(c), Turn(c) - 1>>
  OBVIOUS
<1> QED BY <1>1, <1>2, <1>3, <1>4, <1>5, <1>6, <1>7, <1>8, <1>9, Zenon

-----------------------------------------------------------------------------
(* One instruction of a pipe: p is the place pipe P comes to next.         *)
IsNext(P, p, at) ==
    /\ p \in Places(P) /\ at[P] <= p /\ p < EndPlace
    /\ \A x \in Places(P) : at[P] <= x => ~(x < p)
Moved(P, p, at) == [Q \in Pipes |-> IF Q = P THEN p + 1 ELSE at[Q]]
AllPlaces(at) == \A Q \in Pipes : at[Q] \in Nat

LEMMA PipeNames ==
    /\ "MTE2" \in Pipes /\ "V" \in Pipes /\ "MTE3" \in Pipes
    /\ \A k : PipeOf(k) \in Pipes
    /\ PipeOf(0) = "MTE2" /\ PipeOf(1) = "V" /\ PipeOf(2) = "V" /\ PipeOf(3) = "V"
    /\ PipeOf(4) = "V" /\ PipeOf(5) = "MTE3"
  BY DEF Pipes, PipeOf

LEMMA NextFacts ==
    ASSUME NEW P \in Pipes, NEW at, AllPlaces(at), NEW p, IsNext(P, p, at)
    PROVE  /\ p \in Nat /\ Present(p) /\ PipeOf(Step(p)) = P
           /\ at[P] \in Nat /\ at[P] <= p
           /\ AllPlaces(Moved(P, p, at)) /\ Moved(P, p, at)[P] = p + 1
           /\ \A Q \in Pipes : at[Q] <= Moved(P, p, at)[Q]
           /\ \A Q \in Pipes \ {P} : Moved(P, p, at)[Q] = at[Q]
           /\ \A x \in Places(P) : x < p <=> x < at[P]
<1>1. p \in Nat /\ Present(p) /\ PipeOf(Step(p)) = P /\ at[P] \in Nat /\ at[P] <= p
  BY DEF IsNext, Places, AllPlaces
<1>2. AllPlaces(Moved(P, p, at)) /\ Moved(P, p, at)[P] = p + 1
      /\ \A Q \in Pipes \ {P} : Moved(P, p, at)[Q] = at[Q]
  BY <1>1 DEF Moved, AllPlaces
<1>3. ASSUME NEW Q \in Pipes PROVE at[Q] <= Moved(P, p, at)[Q]
  <2>1. at[Q] \in Nat
    BY DEF AllPlaces
  <2> QED BY <1>1, <1>2, <2>1
<1>4. ASSUME NEW x \in Places(P) PROVE x < p <=> x < at[P]
  <2>1. x \in Nat /\ (at[P] <= x => ~(x < p))
    BY DEF IsNext, Places
  <2> QED BY <1>1, <2>1
<1> QED BY <1>1, <1>2, <1>3, <1>4

(* A pipe that has been at place a and executes p next passes the          *)
(* instruction at p and nothing else.                                      *)
LEMMA CountNext ==
    ASSUME NEW S, S \subseteq Nat, NEW a \in Nat, NEW p \in Nat, a <= p,
           NoneFrom(S, Step(p), a, p), Cycle(p) \in S
    PROVE  Count(S, Step(p), p + 1) = Count(S, Step(p), a) + 1
<1> PICK d, k : d = Cycle(p) /\ k = Step(p)
  OBVIOUS
<1>0. d \in S /\ d \in Nat /\ k \in Nat /\ 8 * d + k = p
  BY PlaceSplit
<1>1. IsFiniteSet(Passed(S, k, a)) /\ Count(S, k, a) \in Nat
  BY <1>0, CountFacts
<1>2. Passed(S, k, p + 1) = Passed(S, k, a) \cup {d}
  <2>1. ASSUME NEW c \in S PROVE 8 * c + k < p + 1 <=> 8 * c + k < a \/ c = d
    <3>1. c \in Nat /\ d \in Nat
      BY <1>0
    <3> QED BY <1>0, <3>1 DEF NoneFrom
  <2> QED BY <1>0, <2>1 DEF Passed
<1>3. d \notin Passed(S, k, a)
  BY <1>0 DEF Passed
<1> QED BY <1>1, <1>2, <1>3, FS_AddElement DEF Count

HasPlaces(S, k) == \A c \in S : 8 * c + k \in Places(PipeOf(k))

LEMMA CountMoved ==
    ASSUME NEW P \in Pipes, NEW at, AllPlaces(at), NEW p, IsNext(P, p, at),
           NEW S, S \subseteq Nat, NEW k \in Nat, k <= 7,
           HasPlaces(S, k)
    PROVE  LET x == at[PipeOf(k)]
               y == Moved(P, p, at)[PipeOf(k)]
           IN  /\ Step(p) = k /\ Cycle(p) \in S => Count(S, k, y) = Count(S, k, x) + 1
               /\ ~(Step(p) = k /\ Cycle(p) \in S) => Count(S, k, y) = Count(S, k, x)
<1>1. /\ p \in Nat /\ PipeOf(Step(p)) = P
      /\ at[P] \in Nat /\ at[P] <= p /\ Moved(P, p, at)[P] = p + 1
      /\ \A Q \in Pipes \ {P} : Moved(P, p, at)[Q] = at[Q]
      /\ \A x \in Places(P) : x < p <=> x < at[P]
  BY NextFacts
<1>2. CASE PipeOf(k) # P
  BY <1>1, <1>2, PipeNames
<1>3. CASE PipeOf(k) = P /\ Step(p) = k /\ Cycle(p) \in S
  <2>1. 8 * Cycle(p) + k = p
    BY <1>1, <1>3, PlaceSplit
  <2>2. ASSUME NEW c \in S, at[P] <= 8 * c + k PROVE ~(8 * c + k < p)
    <3>1. c \in Nat /\ 8 * c + k \in Places(P)
      BY <1>3 DEF HasPlaces
    <3> QED BY <1>1, <2>2, <3>1
  <2>3. ASSUME NEW a \in Nat, a = at[P] PROVE Count(S, Step(p), p + 1) = Count(S, Step(p), a) + 1
    <3>1. p \in Nat /\ a <= p /\ Cycle(p) \in S /\ NoneFrom(S, Step(p), a, p)
      BY <1>1, <1>3, <2>1, <2>2, <2>3 DEF NoneFrom
    <3> QED BY <3>1, CountNext, Zenon
  <2> QED BY <1>1, <1>3, <2>3
<1>4. CASE PipeOf(k) = P /\ ~(Step(p) = k /\ Cycle(p) \in S)
  <2>1. ASSUME NEW c \in S, at[P] <= 8 * c + k PROVE ~(8 * c + k < p + 1)
    <3>1. c \in Nat /\ 8 * c + k \in Places(P)
      BY <1>4 DEF HasPlaces
    <3>2. ~(8 * c + k < p)
      BY <1>1, <2>1, <3>1
    <3>3. 8 * c + k # p
      <4>1. Cycle(8 * c + k) = c /\ Step(8 * c + k) = k
        BY <3>1, PlaceOf
      <4> QED BY <1>4, <4>1
    <3> QED BY <1>1, <3>1, <3>2, <3>3
  <2> PICK q, a : q = p + 1 /\ a = at[P]
    OBVIOUS
  <2>2. q \in Nat /\ a \in Nat /\ a <= q
        /\ NoneFrom(S, k, a, q)
    BY <1>1, <2>1 DEF NoneFrom
  <2>3. Count(S, k, q) = Count(S, k, a)
    BY <2>2, CountSame, Zenon
  <2> QED BY <1>1, <1>4, <2>3
<1> QED BY <1>2, <1>3, <1>4

LEMMA EventMoved ==
    ASSUME NEW P \in Pipes, NEW at, AllPlaces(at), NEW p, IsNext(P, p, at), NEW e \in Events
    PROVE  LET to == Moved(P, p, at)
           IN  /\ Raised(e, at) \in Nat /\ Raised(e, to) \in Nat
               /\ Awaited(e, at) \in Nat /\ Awaited(e, to) \in Nat
               /\ e \in Code(p).sets => Raised(e, to) = Raised(e, at) + 1
               /\ e \notin Code(p).sets => Raised(e, to) = Raised(e, at)
               /\ e \in Code(p).waits => Awaited(e, to) = Awaited(e, at) + 1
               /\ e \notin Code(p).waits => Awaited(e, to) = Awaited(e, at)
<1> DEFINE to == Moved(P, p, at)
<1>1. p \in Nat /\ Present(p) /\ AllPlaces(to)
  BY NextFacts
<1>2. UsedAt(p, e)
  BY <1>1, EventUse
<1>3. /\ RaisedIn(e) \subseteq Nat /\ AwaitedIn(e) \subseteq Nat
      /\ RaisedAt(e) \in Nat /\ RaisedAt(e) <= 7 /\ AwaitedAt(e) \in Nat /\ AwaitedAt(e) <= 7
  BY EventSets
<1>4. /\ \A c \in RaisedIn(e) : 8 * c + RaisedAt(e) \in Places(PipeOf(RaisedAt(e)))
      /\ \A c \in AwaitedIn(e) : 8 * c + AwaitedAt(e) \in Places(PipeOf(AwaitedAt(e)))
  BY EventPlaces
<1> PICK S, k, W, l : S = RaisedIn(e) /\ k = RaisedAt(e) /\ W = AwaitedIn(e) /\ l = AwaitedAt(e)
  OBVIOUS
<1>5. /\ S \subseteq Nat /\ W \subseteq Nat /\ k \in Nat /\ k <= 7 /\ l \in Nat /\ l <= 7
      /\ HasPlaces(S, k) /\ HasPlaces(W, l)
  BY <1>3, <1>4 DEF HasPlaces
<1>6. /\ at[PipeOf(k)] \in Nat /\ at[PipeOf(l)] \in Nat
      /\ to[PipeOf(k)] \in Nat /\ to[PipeOf(l)] \in Nat
  BY <1>1, PipeNames DEF AllPlaces
<1>7. /\ Step(p) = k /\ Cycle(p) \in S =>
            Count(S, k, to[PipeOf(k)]) = Count(S, k, at[PipeOf(k)]) + 1
      /\ ~(Step(p) = k /\ Cycle(p) \in S) =>
            Count(S, k, to[PipeOf(k)]) = Count(S, k, at[PipeOf(k)])
  BY <1>5, CountMoved
<1>8. /\ Step(p) = l /\ Cycle(p) \in W =>
            Count(W, l, to[PipeOf(l)]) = Count(W, l, at[PipeOf(l)]) + 1
      /\ ~(Step(p) = l /\ Cycle(p) \in W) =>
            Count(W, l, to[PipeOf(l)]) = Count(W, l, at[PipeOf(l)])
  BY <1>5, CountMoved
<1>9. /\ Count(S, k, at[PipeOf(k)]) \in Nat /\ Count(S, k, to[PipeOf(k)]) \in Nat
      /\ Count(W, l, at[PipeOf(l)]) \in Nat /\ Count(W, l, to[PipeOf(l)]) \in Nat
  BY <1>5, <1>6, CountFacts
<1>10. /\ Raised(e, at) = Count(S, k, at[PipeOf(k)]) /\ Raised(e, to) = Count(S, k, to[PipeOf(k)])
       /\ Awaited(e, at) = Count(W, l, at[PipeOf(l)])
       /\ Awaited(e, to) = Count(W, l, to[PipeOf(l)])
  BY DEF Raised, Awaited
<1>11. /\ e \in Code(p).sets <=> Step(p) = k /\ Cycle(p) \in S
       /\ e \in Code(p).waits <=> Step(p) = l /\ Cycle(p) \in W
  BY <1>2 DEF UsedAt
<1> HIDE DEF to
<1>12. /\ Raised(e, at) \in Nat /\ Raised(e, to) \in Nat
       /\ Awaited(e, at) \in Nat /\ Awaited(e, to) \in Nat
       /\ e \in Code(p).sets => Raised(e, to) = Raised(e, at) + 1
       /\ e \notin Code(p).sets => Raised(e, to) = Raised(e, at)
       /\ e \in Code(p).waits => Awaited(e, to) = Awaited(e, at) + 1
       /\ e \notin Code(p).waits => Awaited(e, to) = Awaited(e, at)
  BY <1>7, <1>8, <1>9, <1>10, <1>11
<1> QED BY <1>12 DEF to

(* What the instructions up to `nx' have waited for, those before `at'     *)
(* have raised.                                                            *)
Ordered(at, nx) == \A e \in Events : Awaited(e, nx) <= Credit(e) + Raised(e, at)

LEMMA RaisedFacts ==
    ASSUME NEW at, AllPlaces(at), NEW e \in Events
    PROVE  Raised(e, at) \in Nat /\ Awaited(e, at) \in Nat /\ Credit(e) \in 0..1
<1>1. /\ RaisedIn(e) \subseteq Nat /\ AwaitedIn(e) \subseteq Nat
      /\ RaisedAt(e) \in Nat /\ AwaitedAt(e) \in Nat /\ Credit(e) \in 0..1
  BY EventSets
<1>2. at[PipeOf(RaisedAt(e))] \in Nat /\ at[PipeOf(AwaitedAt(e))] \in Nat
  BY PipeNames DEF AllPlaces
<1> QED BY <1>1, <1>2, CountFacts DEF Raised, Awaited

LEMMA NowOrdered ==
    ASSUME NEW at, AllPlaces(at), Counted(at), events \in [Events -> Nat]
    PROVE  Ordered(at, at)
<1>1. ASSUME NEW e \in Events PROVE Awaited(e, at) <= Credit(e) + Raised(e, at)
  <2>1. Raised(e, at) \in Nat /\ Awaited(e, at) \in Nat /\ Credit(e) \in 0..1
    BY RaisedFacts
  <2>2. events[e] = Credit(e) + Raised(e, at) - Awaited(e, at) /\ events[e] \in Nat
    BY DEF Counted
  <2> QED BY <2>1, <2>2
<1> QED BY <1>1 DEF Ordered

LEMMA StepOrdered ==
    ASSUME NEW at, AllPlaces(at), Counted(at), events \in [Events -> Nat],
           NEW P \in Pipes, NEW p, IsNext(P, p, at), \A e \in Code(p).waits : events[e] > 0
    PROVE  Ordered(at, Moved(P, p, at))
<1> DEFINE to == Moved(P, p, at)
<1>1. ASSUME NEW e \in Events PROVE Awaited(e, to) <= Credit(e) + Raised(e, at)
  <2>1. Raised(e, at) \in Nat /\ Awaited(e, at) \in Nat /\ Credit(e) \in 0..1
    BY RaisedFacts
  <2>2. events[e] = Credit(e) + Raised(e, at) - Awaited(e, at) /\ events[e] \in Nat
    BY DEF Counted
  <2>3. /\ e \in Code(p).waits => Awaited(e, to) = Awaited(e, at) + 1
        /\ e \notin Code(p).waits => Awaited(e, to) = Awaited(e, at)
    BY EventMoved
  <2> HIDE DEF to
  <2>4. CASE e \in Code(p).waits
    BY <2>1, <2>2, <2>3, <2>4
  <2>5. CASE e \notin Code(p).waits
    BY <2>1, <2>2, <2>3, <2>5
  <2> QED BY <2>4, <2>5
<1> QED BY <1>1 DEF Ordered

LEMMA EventsStep ==
    ASSUME NEW at, AllPlaces(at), Counted(at), events \in [Events -> Nat],
           NEW P \in Pipes, NEW p, IsNext(P, p, at), \A e \in Code(p).waits : events[e] > 0,
           events' = [e \in Events |-> events[e] - (IF e \in Code(p).waits THEN 1 ELSE 0)
                                                 + (IF e \in Code(p).sets THEN 1 ELSE 0)]
    PROVE  /\ events' \in [Events -> Nat]
           /\ \A e \in Events : events'[e] = Credit(e) + Raised(e, Moved(P, p, at))
                                             - Awaited(e, Moved(P, p, at))
<1> DEFINE to == Moved(P, p, at)
<1>1. ASSUME NEW e \in Events
      PROVE  events'[e] \in Nat /\ events'[e] = Credit(e) + Raised(e, to) - Awaited(e, to)
  <2>1. Raised(e, at) \in Nat /\ Awaited(e, at) \in Nat /\ Credit(e) \in 0..1
    BY RaisedFacts
  <2>2. events[e] = Credit(e) + Raised(e, at) - Awaited(e, at) /\ events[e] \in Nat
    BY DEF Counted
  <2>3. /\ e \in Code(p).sets => Raised(e, to) = Raised(e, at) + 1
        /\ e \notin Code(p).sets => Raised(e, to) = Raised(e, at)
        /\ e \in Code(p).waits => Awaited(e, to) = Awaited(e, at) + 1
        /\ e \notin Code(p).waits => Awaited(e, to) = Awaited(e, at)
    BY EventMoved
  <2>4. events'[e] = events[e] - (IF e \in Code(p).waits THEN 1 ELSE 0)
                               + (IF e \in Code(p).sets THEN 1 ELSE 0)
    BY Zenon
  <2> HIDE DEF to
  <2> PICK E, nE, C, R, A, nR, nA : /\ E = events[e] /\ nE = events'[e] /\ C = Credit(e)
                                    /\ R = Raised(e, at) /\ A = Awaited(e, at)
                                    /\ nR = Raised(e, to) /\ nA = Awaited(e, to)
    OBVIOUS
  <2>5. E \in Nat /\ C \in 0..1 /\ R \in Nat /\ A \in Nat /\ E = C + R - A
    BY <2>1, <2>2
  <2>6. CASE e \in Code(p).waits
    <3>1. E > 0
      BY <2>6
    <3>2. CASE e \in Code(p).sets
      <4>1. nE = E - 1 + 1 /\ nR = R + 1 /\ nA = A + 1
        BY <2>3, <2>4, <2>6, <3>2
      <4> QED BY <2>5, <3>1, <4>1
    <3>3. CASE e \notin Code(p).sets
      <4>1. nE = E - 1 + 0 /\ nR = R /\ nA = A + 1
        BY <2>3, <2>4, <2>6, <3>3
      <4> QED BY <2>5, <3>1, <4>1
    <3> QED BY <3>2, <3>3
  <2>7. CASE e \notin Code(p).waits
    <3>2. CASE e \in Code(p).sets
      <4>1. nE = E - 0 + 1 /\ nR = R + 1 /\ nA = A
        BY <2>3, <2>4, <2>7, <3>2
      <4> QED BY <2>5, <4>1
    <3>3. CASE e \notin Code(p).sets
      <4>1. nE = E - 0 + 0 /\ nR = R /\ nA = A
        BY <2>3, <2>4, <2>7, <3>3
      <4> QED BY <2>5, <4>1
    <3> QED BY <3>2, <3>3
  <2> QED BY <2>6, <2>7
<1>2. events' = [e \in Events |-> events'[e]]
  OBVIOUS
<1>3. events' \in [Events -> Nat]
  BY <1>1, <1>2
<1> QED BY <1>1, <1>3

(* The instruction at the head of a queue is the one at the next place.    *)
LEMMA HeadIsNext ==
    ASSUME NEW at, Queues(at), EndPlace \in Nat, NEW P \in Pipes, queue[P] # <<>>
    PROVE  \E p \in Nat : /\ IsNext(P, p, at) /\ Head(queue[P]) = Code(p)
                          /\ Runs(Tail(queue[P]), Program, p + 1, EndPlace, Places(P))
<1>1. at[P] \in Nat /\ Runs(queue[P], Program, at[P], EndPlace, Places(P))
  BY DEF Queues
<1>2. Places(P) \subseteq Nat
  BY DEF Places
<1>3. PICK p \in Places(P) :
         /\ p \in Nat /\ at[P] <= p /\ p < EndPlace
         /\ Head(queue[P]) = Program[p]
         /\ \A x \in Places(P) : at[P] <= x => ~(x < p)
         /\ Runs(Tail(queue[P]), Program, p + 1, EndPlace, Places(P))
  BY <1>1, <1>2, RunsFirst
<1>4. Program[p] = Code(p)
  BY <1>3 DEF Program
<1>5. IsNext(P, p, at)
  BY <1>3 DEF IsNext
<1> QED BY <1>3, <1>4, <1>5, Zenon

-----------------------------------------------------------------------------
(* What the events say of the order of two instructions.                   *)
Done(at, c, k) == 8 * c + k < at[PipeOf(k)]

LEMMA Signalled ==
    ASSUME NEW at, NEW nx, AllPlaces(at), AllPlaces(nx), Ordered(at, nx),
           NEW e \in Events, Credit(e) = 0, NEW k \in Nat, k = RaisedAt(e),
           NEW l \in Nat, l = AwaitedAt(e), AwaitedIn(e) = RaisedIn(e),
           NEW c \in Nat, c \in RaisedIn(e), Done(nx, c, l)
    PROVE  Done(at, c, k)
<1> PICK S, x, y : S = RaisedIn(e) /\ x = at[PipeOf(k)] /\ y = nx[PipeOf(l)]
  OBVIOUS
<1>1. S \subseteq Nat /\ x \in Nat /\ y \in Nat
  BY EventSets, PipeNames DEF AllPlaces
<1>2. Count(S, l, y) <= 0 + Count(S, k, x)
  BY DEF Ordered, Raised, Awaited
<1>3. Count(S, k, x) \in Nat /\ Count(S, l, y) \in Nat
  BY <1>1, CountFacts
<1>4. Count(S, l, y) <= Count(S, k, x) /\ 8 * c + l < y
  BY <1>2, <1>3 DEF Done
<1>5. 8 * c + k < x
  BY <1>1, <1>4, SignalOrder, Zenon
<1> QED BY <1>5 DEF Done

LEMMA Credited ==
    ASSUME NEW at, NEW nx, AllPlaces(at), AllPlaces(nx), Ordered(at, nx),
           NEW e \in Events, Credit(e) = 1, NEW k \in Nat, k = RaisedAt(e),
           NEW l \in Nat, l = AwaitedAt(e), RaisedIn(e) \subseteq AwaitedIn(e),
           NEW c \in Nat, c \in AwaitedIn(e), Done(nx, c, l),
           NEW d \in Nat, d \in RaisedIn(e), d < c
    PROVE  Done(at, d, k)
<1> PICK S, W, x, y : S = RaisedIn(e) /\ W = AwaitedIn(e) /\ x = at[PipeOf(k)] /\ y = nx[PipeOf(l)]
  OBVIOUS
<1>1. S \subseteq Nat /\ W \subseteq Nat /\ S \subseteq W /\ x \in Nat /\ y \in Nat
  BY EventSets, PipeNames DEF AllPlaces
<1>2. Count(W, l, y) <= 1 + Count(S, k, x)
  BY DEF Ordered, Raised, Awaited
<1>4. 8 * c + l < y
  BY DEF Done
<1>5. 8 * d + k < x
  BY <1>1, <1>2, <1>4, CreditOrder, Zenon
<1> QED BY <1>5 DEF Done

Orders(at, nx) ==
    /\ \A c \in Nat : IsLoop(c) =>
          (Done(nx, c, 1) => Done(at, c, 0)) /\ (Done(nx, c, 5) => Done(at, c, 2))
    /\ \A c \in Nat : IsFold(c) => (Done(nx, c, 1) => Done(at, c, 0))
    /\ \A c \in Nat : IsOutput(c) \/ IsChunk(c) => (Done(nx, c, 5) => Done(at, c, 2))
    /\ \A c, d \in Nat : IsLoop(c) /\ IsLoop(d) /\ Half(c) = Half(d) /\ d < c =>
          (Done(nx, c, 0) => Done(at, d, 3)) /\ (Done(nx, c, 2) => Done(at, d, 5))
    /\ \A c, d \in Nat : IsFold(c) /\ IsFold(d) /\ d < c =>
          (Done(nx, c, 0) => Done(at, d, 1))

LEMMA OrdersHold ==
    ASSUME NEW at, NEW nx, AllPlaces(at), AllPlaces(nx), Ordered(at, nx)
    PROVE  Orders(at, nx)
<1>1. ASSUME NEW c \in Nat, IsLoop(c)
      PROVE (Done(nx, c, 1) => Done(at, c, 0)) /\ (Done(nx, c, 5) => Done(at, c, 2))
  <2> PICK i : i = Half(c)
    OBVIOUS
  <2>1. i \in 0..1 /\ c \in LoopsOf(i)
    BY <1>1, HalfOf, CycleSets
  <2> PICK e : e = MTE2_V(i)
    OBVIOUS
  <2> PICK f : f = V_MTE3(i)
    OBVIOUS
  <2>2. e \in Events /\ f \in Events
    BY <2>1 DEF Events
  <2>3. /\ c \in RaisedIn(e) /\ AwaitedIn(e) = RaisedIn(e)
        /\ 0 = RaisedAt(e) /\ 1 = AwaitedAt(e) /\ Credit(e) = 0
    <3>1. /\ RaisedIn(e) = LoopsOf(i) \cup (IF i = 0 THEN Rescales ELSE {})
          /\ AwaitedIn(e) = RaisedIn(e)
          /\ RaisedAt(e) = 0 /\ AwaitedAt(e) = 1 /\ Credit(e) = 0
      BY <2>1, EventTable, Zenon
    <3> QED BY <2>1, <3>1
  <2>4. /\ c \in RaisedIn(f) /\ AwaitedIn(f) = RaisedIn(f)
        /\ 2 = RaisedAt(f) /\ 5 = AwaitedAt(f) /\ Credit(f) = 0
    <3>1. /\ RaisedIn(f) = LoopsOf(i) \cup (IF i = 0 THEN Outputs \cup Chunks ELSE {})
          /\ AwaitedIn(f) = RaisedIn(f)
          /\ RaisedAt(f) = 2 /\ AwaitedAt(f) = 5 /\ Credit(f) = 0
      BY <2>1, EventTable, Zenon
    <3> QED BY <2>1, <3>1
  <2>5. 0 \in Nat /\ 1 \in Nat /\ 2 \in Nat /\ 5 \in Nat
    OBVIOUS
  <2>6. Done(nx, c, 1) => Done(at, c, 0)
    BY <2>2, <2>3, <2>5, Signalled, Zenon
  <2>7. Done(nx, c, 5) => Done(at, c, 2)
    BY <2>2, <2>4, <2>5, Signalled
  <2> QED BY <2>6, <2>7
<1>2. ASSUME NEW c \in Nat, IsFold(c), Done(nx, c, 1) PROVE Done(at, c, 0)
  <2> PICK e : e = MTE2_V(0)
    OBVIOUS
  <2>1. e \in Events /\ c \in Rescales
    BY <1>2, CycleSets DEF Events
  <2>2. /\ RaisedIn(e) = LoopsOf(0) \cup (IF 0 = 0 THEN Rescales ELSE {})
        /\ AwaitedIn(e) = RaisedIn(e)
        /\ RaisedAt(e) = 0 /\ AwaitedAt(e) = 1 /\ Credit(e) = 0
    <3>1. 0 \in 0..1
      OBVIOUS
    <3> QED BY <3>1, EventTable, Zenon
  <2>3. 0 \in Nat /\ 1 \in Nat /\ c \in RaisedIn(e) /\ 0 = RaisedAt(e) /\ 1 = AwaitedAt(e)
    BY <2>1, <2>2
  <2> QED BY <1>2, <2>1, <2>2, <2>3, Signalled, Zenon
<1>3. ASSUME NEW c \in Nat, IsOutput(c) \/ IsChunk(c), Done(nx, c, 5) PROVE Done(at, c, 2)
  <2> PICK e : e = V_MTE3(0)
    OBVIOUS
  <2>1. e \in Events /\ c \in Outputs \cup Chunks
    BY <1>3, CycleSets DEF Events
  <2>2. /\ RaisedIn(e) = LoopsOf(0) \cup (IF 0 = 0 THEN Outputs \cup Chunks ELSE {})
        /\ AwaitedIn(e) = RaisedIn(e)
        /\ RaisedAt(e) = 2 /\ AwaitedAt(e) = 5 /\ Credit(e) = 0
    <3>1. 0 \in 0..1
      OBVIOUS
    <3> QED BY <3>1, EventTable, Zenon
  <2>3. 2 \in Nat /\ 5 \in Nat /\ c \in RaisedIn(e) /\ 2 = RaisedAt(e) /\ 5 = AwaitedAt(e)
    BY <2>1, <2>2
  <2> QED BY <1>3, <2>1, <2>2, <2>3, Signalled
<1>4. ASSUME NEW c \in Nat, NEW d \in Nat, IsLoop(c), IsLoop(d), Half(c) = Half(d), d < c
      PROVE (Done(nx, c, 0) => Done(at, d, 3)) /\ (Done(nx, c, 2) => Done(at, d, 5))
  <2> PICK i : i = Half(c)
    OBVIOUS
  <2>1. i \in 0..1 /\ i \in 0..2 /\ c \in LoopsOf(i) /\ d \in LoopsOf(i)
    BY <1>4, HalfOf, CycleSets
  <2> PICK e : e = V_MTE2(i)
    OBVIOUS
  <2> PICK f : f = MTE3_V(i)
    OBVIOUS
  <2>2. e \in Events /\ f \in Events
    BY <2>1 DEF Events, Initial, V_MTE2_Initial, MTE3_V_Initial
  <2>3. /\ d \in RaisedIn(e) /\ c \in AwaitedIn(e) /\ RaisedIn(e) \subseteq AwaitedIn(e)
        /\ 3 = RaisedAt(e) /\ 0 = AwaitedAt(e) /\ Credit(e) = 1
    <3>1. /\ RaisedIn(e) = LoopsOf(i) /\ AwaitedIn(e) = LoopsOf(i) \cup {LastCycle}
          /\ RaisedAt(e) = 3 /\ AwaitedAt(e) = 0 /\ Credit(e) = 1
      BY <2>1, EventTable, Zenon
    <3> QED BY <2>1, <3>1
  <2>4. /\ d \in RaisedIn(f) /\ c \in AwaitedIn(f) /\ RaisedIn(f) \subseteq AwaitedIn(f)
        /\ 5 = RaisedAt(f) /\ 2 = AwaitedAt(f) /\ Credit(f) = 1
    <3>1. /\ RaisedIn(f) = LoopsOf(i) /\ AwaitedIn(f) = LoopsOf(i) \cup {LastCycle}
          /\ RaisedAt(f) = 5 /\ AwaitedAt(f) = 2 /\ Credit(f) = 1
      BY <2>1, EventTable, Zenon
    <3> QED BY <2>1, <3>1
  <2>5. 0 \in Nat /\ 3 \in Nat /\ 2 \in Nat /\ 5 \in Nat
    OBVIOUS
  <2>6. Done(nx, c, 0) => Done(at, d, 3)
    BY <1>4, <2>2, <2>3, <2>5, Credited, Zenon
  <2>7. Done(nx, c, 2) => Done(at, d, 5)
    BY <1>4, <2>2, <2>4, <2>5, Credited, Zenon
  <2> QED BY <2>6, <2>7
<1>5. ASSUME NEW c \in Nat, NEW d \in Nat, IsFold(c), IsFold(d), d < c, Done(nx, c, 0)
      PROVE Done(at, d, 1)
  <2> PICK e : e = V_MTE2(3)
    OBVIOUS
  <2>1. e \in Events /\ c \in Rescales /\ d \in Rescales
    BY <1>5, CycleSets DEF Events, Initial, V_MTE2_Initial
  <2>2. /\ RaisedIn(e) = Rescales /\ AwaitedIn(e) = Rescales \cup {LastCycle}
        /\ RaisedAt(e) = 1 /\ AwaitedAt(e) = 0 /\ Credit(e) = 1
    BY EventTable, Zenon
  <2>3. /\ 0 \in Nat /\ 1 \in Nat /\ d \in RaisedIn(e) /\ c \in AwaitedIn(e)
        /\ RaisedIn(e) \subseteq AwaitedIn(e) /\ 1 = RaisedAt(e) /\ 0 = AwaitedAt(e)
    BY <2>1, <2>2
  <2> QED BY <1>5, <2>1, <2>2, <2>3, Credited, Zenon
<1>6. \A c \in Nat : IsLoop(c) =>
          (Done(nx, c, 1) => Done(at, c, 0)) /\ (Done(nx, c, 5) => Done(at, c, 2))
  BY <1>1, Zenon
<1>7. \A c \in Nat : IsFold(c) => (Done(nx, c, 1) => Done(at, c, 0))
  BY <1>2, Zenon
<1>8. \A c \in Nat : IsOutput(c) \/ IsChunk(c) => (Done(nx, c, 5) => Done(at, c, 2))
  BY <1>3, Zenon
<1>9. \A c, d \in Nat : IsLoop(c) /\ IsLoop(d) /\ Half(c) = Half(d) /\ d < c =>
          (Done(nx, c, 0) => Done(at, d, 3)) /\ (Done(nx, c, 2) => Done(at, d, 5))
  BY <1>4, Zenon
<1>10. \A c, d \in Nat : IsFold(c) /\ IsFold(d) /\ d < c => (Done(nx, c, 0) => Done(at, d, 1))
  BY <1>5, Zenon
<1> QED BY <1>6, <1>7, <1>8, <1>9, <1>10, Zenon DEF Orders

-----------------------------------------------------------------------------
(* Writes to a buffer come in the order of the program.                    *)
LEMMA DoneExecuted ==
    ASSUME NEW at, NEW c \in Nat, NEW k \in Nat, k <= 7
    PROVE  Executed(8 * c + k, at) <=> Done(at, c, k)
<1>1. Step(8 * c + k) = k
  BY PlaceOf
<1> QED BY <1>1 DEF Executed, Done

LEMMA PassedPlace ==
    ASSUME NEW at, AllPlaces(at), NEW P \in Pipes, NEW p, IsNext(P, p, at),
           NEW d \in Nat, NEW l \in Nat, l <= 7, Present(8 * d + l), PipeOf(l) = P
    PROVE  Done(at, d, l) <=> 8 * d + l < p
<1> PICK x : x = 8 * d + l
  OBVIOUS
<1>1. x \in Nat /\ Step(x) = l
  BY PlaceOf
<1>2. x \in Places(P)
  BY <1>1 DEF Places
<1>3. x < p <=> x < at[P]
  BY <1>2, NextFacts
<1> QED BY <1>3 DEF Done

WriterPipe(b) == IF b[1] \in {"ls", "lo"} THEN "MTE2" ELSE "V"

LEMMA WritesFacts ==
    ASSUME NEW c \in Nat, NEW k \in Nat, NEW b, NEW x, WritesTo(c, k, b, x)
    PROVE  /\ Present(8 * c + k) /\ k <= 4
           /\ b # go => PipeOf(k) = WriterPipe(b)
           /\ b = go => \/ k = 0 /\ IsFold(c) /\ First[FoldedAt(c)] = FoldedAt(c)
                        \/ k = 1 /\ IsFold(c) /\ First[FoldedAt(c)] # FoldedAt(c)
                        \/ k = 2 /\ IsFold(c) /\ IsOutput(c)
<1>1. \/ IsLoop(c) /\ k \in {0, 1, 2, 4}
      \/ IsFold(c) /\ k \in {0, 1}
      \/ IsOutput(c) /\ k \in {2, 3}
      \/ IsChunk(c) /\ k = 2
  BY DEF WritesTo
<1>2. k <= 4
  BY <1>1
<1>3. Cycle(8 * c + k) = c /\ Step(8 * c + k) = k
  BY <1>2, PlaceOf
<1>4. Present(8 * c + k)
  BY <1>1, <1>3 DEF Present
<1>5. b # go => PipeOf(k) = WriterPipe(b)
  BY DEF WritesTo, WriterPipe, PipeOf, ls, lp, dm, hm, gl, lo, go, lseVal, lseStage
<1>6. b = go => \/ k = 0 /\ IsFold(c) /\ First[FoldedAt(c)] = FoldedAt(c)
                \/ k = 1 /\ IsFold(c) /\ First[FoldedAt(c)] # FoldedAt(c)
                \/ k = 2 /\ IsFold(c) /\ IsOutput(c)
  <2>1. IsOutput(c) => IsFold(c)
    BY Kinds
  <2> QED BY <2>1, WritersOf
<1> QED BY <1>2, <1>4, <1>5, <1>6

(* Rescales come in the order of the stacks.                               *)
LEMMA FoldOrder ==
    ASSUME NEW c \in Nat, NEW d \in Nat, IsFold(c), IsFold(d), c < d
    PROVE  FoldedAt(c) < FoldedAt(d)
<1> PICK m, n, g, h : m = StackAt(c) /\ n = StackAt(d) /\ g = FoldedAt(c) /\ h = FoldedAt(d)
  OBVIOUS
<1>1. IsRescale(c) /\ IsRescale(d) /\ Turn(c) = 0 /\ Turn(d) = 0
  BY DEF IsFold
<1>2. /\ m \in Stacks /\ g \in Stacks /\ First[m] <= g /\ g <= m /\ m <= g + 2
      /\ g = m - 2 \/ IsLast(m)
      /\ c = RescaleCycle(m, g, Turn(c))
  BY <1>1, RescaleFacts
<1>3. /\ n \in Stacks /\ h \in Stacks /\ First[n] <= h /\ h <= n /\ n <= h + 2
      /\ h = n - 2 \/ IsLast(n)
      /\ d = RescaleCycle(n, h, Turn(d))
  BY <1>1, RescaleFacts
<1>4. m \in Nat /\ n \in Nat /\ g \in Nat /\ h \in Nat /\ First[n] \in Nat
  BY <1>2, <1>3, StackFacts
<1>5. 3 * m + g < 3 * n + h
  BY <1>1, <1>2, <1>3, <1>4 DEF RescaleCycle
<1> SUFFICES ASSUME h <= g PROVE FALSE
  BY <1>4
<1>6. m < n
  BY <1>4, <1>5
<1>7. First[n] <= m
  BY <1>2, <1>3, <1>4
<1>8. ~IsLast(m)
  BY <1>2, <1>3, <1>6, <1>7, SameTask
<1> QED BY <1>2, <1>3, <1>4, <1>6, <1>8

(* A rescale of a later stack is issued only when nothing is left to do of *)
(* the stacks before.                                                      *)
LEMMA LaterFold ==
    ASSUME NEW at, AllPlaces(at), Orders(at, at), Issued(at), EndPlace \in Nat,
           NEW d \in Nat, IsFold(d), 8 * d < EndPlace,
           NEW g \in Stacks, g < FoldedAt(d), NEW c \in Nat, c < 32 * g + 32
    PROVE  Done(at, c, 5) /\ Done(at, c, 3)
<1> PICK h : h = FoldedAt(d)
  OBVIOUS
<1>1. h \in Stacks /\ Rows[h] # 0
  BY RescaleFacts DEF IsFold
<1>2. h \in Nat /\ g \in Nat
  BY <1>1, StackFacts
<1>3. 8 * (32 * h + 7) + 5 < at["MTE3"]
  BY CycleSets DEF Issued
<1>4. at["MTE3"] \in Nat /\ at["V"] \in Nat
  BY PipeNames DEF AllPlaces
<1> DEFINE f == CycleAt(h, 0, 0)
<1>5. f \in Nat /\ IsLoop(f) /\ f = 32 * h
  <2>1. f \in Nat /\ StackAt(f) = h /\ Part(f) = 0 /\ Turn(f) = 0
    BY <1>2, CycleOf
  <2>2. rowLoopNum(h) \in 0..4 /\ rowLoopNum(h) # 0
    BY <1>1, LoopCounts
  <2> QED BY <1>1, <1>2, <2>1, <2>2 DEF IsLoop, CycleAt
<1> HIDE DEF f
<1>6. Done(at, f, 5)
  BY <1>2, <1>3, <1>4, <1>5, PipeNames DEF Done
<1>7. Done(at, f, 2)
  BY <1>5, <1>6 DEF Orders
<1>8. 8 * f + 2 < at["V"]
  BY <1>7, PipeNames DEF Done
<1>9. Done(at, c, 5)
  BY <1>2, <1>3, <1>4, PipeNames DEF Done
<1>10. Done(at, c, 3)
  BY <1>2, <1>4, <1>5, <1>8, PipeNames DEF Done
<1> QED BY <1>9, <1>10

(* Pipe P executes the instruction at p next, and can.                     *)
Ready(P, p, at) ==
    /\ AllPlaces(at) /\ IsNext(P, p, at) /\ EndPlace \in Nat
    /\ \A Q \in Pipes : at[Q] <= EndPlace
    /\ Orders(at, at) /\ Orders(at, Moved(P, p, at)) /\ Issued(at) /\ Held(at)

LEMMA ReadyStep ==
    ASSUME NEW P \in Pipes, NEW p, NEW at, Ready(P, p, at),
           NEW c, c = Cycle(p), NEW k, k = Step(p)
    PROVE  /\ p \in Nat /\ c \in Nat /\ k \in Nat /\ k <= 7 /\ p = 8 * c + k /\ PipeOf(k) = P
           /\ Present(p) /\ ~Done(at, c, k) /\ Done(Moved(P, p, at), c, k)
           /\ AllPlaces(Moved(P, p, at))
           /\ \A d \in Nat, l \in Nat : Done(at, d, l) =>
                 Done(Moved(P, p, at), d, l) /\ 8 * d + l < EndPlace
<1>1. /\ p \in Nat /\ Present(p) /\ PipeOf(Step(p)) = P /\ at[P] \in Nat /\ at[P] <= p
      /\ AllPlaces(Moved(P, p, at)) /\ Moved(P, p, at)[P] = p + 1
      /\ \A Q \in Pipes : at[Q] <= Moved(P, p, at)[Q]
  BY NextFacts DEF Ready
<1>2. c \in Nat /\ k \in Nat /\ k <= 7 /\ p = 8 * c + k
  BY <1>1, PlaceSplit
<1>3. ~Done(at, c, k) /\ Done(Moved(P, p, at), c, k)
  BY <1>1, <1>2 DEF Done
<1>4. ASSUME NEW d \in Nat, NEW l \in Nat, Done(at, d, l)
      PROVE  Done(Moved(P, p, at), d, l) /\ 8 * d + l < EndPlace
  <2> PICK x, y, z : x = at[PipeOf(l)] /\ y = Moved(P, p, at)[PipeOf(l)] /\ z = 8 * d + l
    OBVIOUS
  <2>1. x \in Nat /\ y \in Nat /\ x <= y /\ x <= EndPlace /\ z \in Nat
    BY <1>1, PipeNames DEF AllPlaces, Ready
  <2>2. z < x
    BY <1>4 DEF Done
  <2>3. z < y /\ z < EndPlace
    BY <2>1, <2>2 DEF Ready
  <2> QED BY <2>3 DEF Done
<1> QED BY <1>1, <1>2, <1>3, <1>4

LEMMA WriteOrder ==
    ASSUME NEW P \in Pipes, NEW p, NEW at, Ready(P, p, at),
           NEW c, c = Cycle(p), NEW k, k = Step(p), NEW b, NEW x, WritesTo(c, k, b, x),
           NEW d \in Nat, NEW l \in Nat, NEW y, WritesTo(d, l, b, y), Done(at, d, l)
    PROVE  8 * d + l < 8 * c + k
<1> DEFINE nx == Moved(P, p, at)
<1>1. /\ p \in Nat /\ c \in Nat /\ k \in Nat /\ k <= 7 /\ p = 8 * c + k /\ PipeOf(k) = P
      /\ ~Done(at, c, k) /\ Done(nx, c, k)
      /\ AllPlaces(nx) /\ 8 * d + l < EndPlace /\ Done(nx, d, l)
  BY ReadyStep
<1>2. Orders(at, at) /\ Orders(at, nx) /\ Issued(at) /\ AllPlaces(at) /\ EndPlace \in Nat
  BY DEF Ready
<1> HIDE DEF nx
<1>3. Present(8 * d + l) /\ l <= 4
  BY WritesFacts
<1>4. CASE PipeOf(l) = P
  <2>1. Done(at, d, l) <=> 8 * d + l < p
    BY <1>3, <1>4, PassedPlace DEF Ready
  <2> QED BY <1>1, <2>1
<1>5. CASE PipeOf(l) # P
  <2>1. b = go
    BY <1>1, <1>5, WritesFacts
  <2>2. /\ IsFold(c) /\ IsFold(d)
        /\ \/ k = 0 /\ First[FoldedAt(c)] = FoldedAt(c)
           \/ k = 1 /\ First[FoldedAt(c)] # FoldedAt(c)
           \/ k = 2 /\ IsOutput(c)
        /\ \/ l = 0 /\ First[FoldedAt(d)] = FoldedAt(d)
           \/ l = 1 /\ First[FoldedAt(d)] # FoldedAt(d)
           \/ l = 2 /\ IsOutput(d)
    BY <1>1, <2>1, WritesFacts
  <2> SUFFICES ASSUME ~(8 * d + l < 8 * c + k) PROVE FALSE
    OBVIOUS
  <2>3. CASE k = 0
    <3>1. l = 1 \/ l = 2
      BY <1>1, <1>5, <2>2, <2>3, PipeNames
    <3>2. c <= d
      BY <1>1, <2>3, <3>1
    <3>3. Done(at, c, 1)
      <4>1. 8 * d + l < at["V"] /\ at["V"] \in Nat
        BY <1>2, <3>1, PipeNames DEF Done, AllPlaces
      <4>2. 8 * c + 1 < at["V"]
        BY <1>1, <3>1, <3>2, <4>1
      <4> QED BY <4>2, PipeNames DEF Done
    <3>4. Done(at, c, 0)
      BY <1>1, <1>2, <2>2, <3>3 DEF Orders
    <3> QED BY <1>1, <2>3, <3>4
  <2>4. CASE k = 1 \/ k = 2
    <3>1. l = 0 /\ P = "V"
      BY <1>1, <1>5, <2>2, <2>4, PipeNames
    <3>2. c < d
      BY <1>1, <2>4, <3>1
    <3>3. CASE k = 1
      <4>0. \A u, v \in Nat : IsFold(u) /\ IsFold(v) /\ v < u =>
               (Done(at, u, 0) => Done(at, v, 1))
        BY <1>2, Zenon DEF Orders
      <4>1. Done(at, d, 0) => Done(at, c, 1)
        <5>1. IsFold(c) /\ IsFold(d) /\ c \in Nat
          BY <1>1, <2>2
        <5> QED BY <3>2, <4>0, <5>1, Zenon
      <4>2. Done(at, d, 0)
        BY <3>1, Zenon
      <4>3. ~Done(at, c, 1)
        BY <1>1, <3>3, Zenon
      <4> QED BY <4>1, <4>2, <4>3, Zenon
    <3>4. CASE k = 2
      <4> PICK g : g = FoldedAt(c)
        OBVIOUS
      <4>1. IsRescale(c) /\ Part(c) = 3 /\ Turn(c) = 0
        BY <2>2, <3>4 DEF IsOutput, IsFold
      <4>2. g \in Stacks /\ g \in Nat /\ c = 32 * g + 24
        <5>1. c \in Nat
          BY <1>1
        <5>2. g = StackAt(c) /\ StackAt(c) \in Stacks /\ c = 32 * StackAt(c) + 24 + Turn(c)
          BY <4>1, <5>1, OutFacts, Zenon
        <5>3. g \in Stacks /\ c = 32 * g + 24 + 0
          BY <4>1, <5>2
        <5>4. g \in Nat
          BY <5>3, StackFacts
        <5> QED BY <5>3, <5>4
      <4>3. g < FoldedAt(d)
        BY <1>1, <2>2, <3>2, FoldOrder
      <4>4. Done(at, c, 3)
        <5>1. c < 32 * g + 32 /\ 8 * d < EndPlace
          BY <1>1, <3>1, <4>2
        <5> QED BY <1>1, <1>2, <2>2, <4>2, <4>3, <5>1, LaterFold
      <4>5. 8 * c + 3 < at["V"] /\ at["V"] \in Nat
        BY <1>2, <4>4, PipeNames DEF Done, AllPlaces
      <4>6. 8 * c + 2 < at["V"]
        BY <1>1, <4>5
      <4> QED BY <1>1, <3>4, <4>6, PipeNames DEF Done
    <3> QED BY <2>4, <3>3, <3>4
  <2> QED BY <2>2, <2>3, <2>4
<1> QED BY <1>4, <1>5

(* What a buffer holds after an instruction.                               *)
LEMMA WritersFacts ==
    ASSUME NEW b, NEW q
    PROVE  q \in Writers(b) <=> q \in Nat /\ \E x : WritesTo(Cycle(q), Step(q), b, x)
<1>1. ASSUME q \in Writers(b) PROVE q \in Nat /\ \E x : WritesTo(Cycle(q), Step(q), b, x)
  <2>1. q \in Nat /\ Present(q)
    BY <1>1 DEF Writers
  <2>2. PICK x : <<b, x>> \in Code(q).writes
    BY <1>1 DEF Writers
  <2>3. PICK b1, x1 : <<b, x>> = <<b1, x1>> /\ WritesTo(Cycle(q), Step(q), b1, x1)
    BY <2>1, <2>2, MemoryUse, Zenon
  <2>4. b = b1 /\ x = x1
    BY <2>3
  <2> QED BY <2>1, <2>3, <2>4
<1>2. ASSUME q \in Nat, NEW x, WritesTo(Cycle(q), Step(q), b, x) PROVE q \in Writers(b)
  <2> PICK c, k : c = Cycle(q) /\ k = Step(q)
    OBVIOUS
  <2>1. c \in Nat /\ k \in Nat /\ q = 8 * c + k
    BY <1>2, PlaceSplit
  <2>2. Present(q)
    BY <1>2, <2>1, WritesFacts
  <2>3. <<b, x>> \in Code(q).writes
    BY <1>2, <2>2, MemoryUse, Zenon
  <2> QED BY <1>2, <2>2, <2>3 DEF Writers
<1> QED BY <1>1, <1>2

LEMMA WriteOnce ==
    ASSUME NEW c \in Nat, NEW k, NEW b, NEW x, NEW y, WritesTo(c, k, b, x), WritesTo(c, k, b, y)
    PROVE  x = y
<1>1. IsLoop(c) => ~IsFold(c) /\ ~IsOutput(c) /\ ~IsChunk(c)
  BY Kinds
<1>2. IsOutput(c) => IsFold(c) /\ ~IsChunk(c)
  BY Kinds
<1>3. IsFold(c) => ~IsChunk(c)
  BY Kinds
<1>4. CASE IsLoop(c)
  BY <1>1, <1>4 DEF WritesTo
<1>5. CASE IsFold(c)
  BY <1>1, <1>3, <1>5 DEF WritesTo
<1>6. CASE IsChunk(c)
  BY <1>1, <1>2, <1>3, <1>6 DEF WritesTo
<1>7. IsLoop(c) \/ IsFold(c) \/ IsChunk(c)
  BY <1>2 DEF WritesTo
<1> QED BY <1>4, <1>5, <1>6, <1>7

(* A buffer whose last writer is known holds what this one has written.    *)
LEMMA Finding ==
    ASSUME NEW at, Held(at), NEW b \in Buffers, NEW c \in Nat, NEW k \in Nat, NEW x,
           WritesTo(c, k, b, x), Done(at, c, k),
           \A d \in Nat, l \in Nat : \A y :
              WritesTo(d, l, b, y) /\ Done(at, d, l) => 8 * d + l <= 8 * c + k
    PROVE  ub[b] = x
<1> PICK w : w = 8 * c + k
  OBVIOUS
<1>0. k <= 7
  BY WritesFacts
<1>1. w \in Nat /\ Cycle(w) = c /\ Step(w) = k
  BY <1>0, PlaceOf
<1>2. w \in Writers(b) /\ Executed(w, at)
  BY <1>0, <1>1, WritersFacts, DoneExecuted
<1>3. ASSUME NEW q \in Writers(b), Executed(q, at) PROVE q <= w
  <2> PICK d, l : d = Cycle(q) /\ l = Step(q)
    OBVIOUS
  <2>1. q \in Nat /\ \E y : WritesTo(d, l, b, y)
    BY WritersFacts
  <2>2. d \in Nat /\ l \in Nat /\ l <= 7 /\ q = 8 * d + l
    <3>1. q \in Nat
      BY <2>1
    <3>2. Cycle(q) \in Nat /\ Step(q) \in 0..7 /\ q = 8 * Cycle(q) + Step(q)
      BY <3>1, PlaceSplit
    <3> QED BY <3>2
  <2>3. Done(at, d, l)
    BY <1>3, <2>2, DoneExecuted
  <2> QED BY <2>1, <2>2, <2>3
<1>4. <<b, ub[b]>> \in Code(w).writes
  BY <1>2, <1>3 DEF Held
<1>5. Present(w)
  BY WritesFacts
<1>6. PICK b1, x1 : <<b, ub[b]>> = <<b1, x1>> /\ WritesTo(Cycle(w), Step(w), b1, x1)
  BY <1>1, <1>4, <1>5, MemoryUse, Zenon
<1>7. WritesTo(c, k, b, ub[b])
  BY <1>1, <1>6
<1> QED BY <1>7, WriteOnce

LEMMA HeldStep ==
    ASSUME NEW P \in Pipes, NEW p, NEW at, Ready(P, p, at), ub = [b \in Buffers |-> ub[b]],
           ub' = IF Code(p).writes = {} THEN ub
                 ELSE [b \in Buffers |->
                         IF b \in {w[1] : w \in Code(p).writes}
                         THEN (CHOOSE w \in Code(p).writes : w[1] = b)[2]
                         ELSE ub[b]]
    PROVE  /\ ub' = [b \in Buffers |-> ub'[b]]
           /\ \A b \in Buffers : \A q \in Writers(b) :
                /\ Executed(q, Moved(P, p, at))
                /\ \A r \in Writers(b) : Executed(r, Moved(P, p, at)) => r <= q
                => <<b, ub'[b]>> \in Code(q).writes
<1> DEFINE to == Moved(P, p, at)
<1> PICK c, k : c = Cycle(p) /\ k = Step(p)
  OBVIOUS
<1>1. /\ p \in Nat /\ c \in Nat /\ k \in Nat /\ k <= 7 /\ p = 8 * c + k /\ Present(p)
      /\ AllPlaces(to) /\ ~Done(at, c, k) /\ Done(to, c, k)
      /\ \A d \in Nat, l \in Nat : Done(at, d, l) => Done(to, d, l)
  BY ReadyStep
<1>2. ub' = [b \in Buffers |-> ub'[b]]
  <2>1. CASE Code(p).writes = {}
    <3>1. ub' = ub
      BY <2>1
    <3> QED BY <3>1
  <2>2. CASE Code(p).writes # {}
    <3>1. ub' = [b \in Buffers |->
                         IF b \in {w[1] : w \in Code(p).writes}
                         THEN (CHOOSE w \in Code(p).writes : w[1] = b)[2]
                         ELSE ub[b]]
      BY <2>2
    <3> QED BY <3>1
  <2> QED BY <2>1, <2>2
<1>3. ASSUME NEW b \in Buffers, p \in Writers(b) PROVE <<b, ub'[b]>> \in Code(p).writes
  <2>1. PICK x : <<b, x>> \in Code(p).writes
    BY <1>3 DEF Writers
  <2>2. Code(p).writes # {} /\ b \in {w[1] : w \in Code(p).writes}
    <3>1. <<b, x>>[1] = b
      OBVIOUS
    <3> QED BY <2>1, <3>1
  <2> DEFINE v == CHOOSE w \in Code(p).writes : w[1] = b
  <2>3. v \in Code(p).writes /\ v[1] = b
    BY <2>2
  <2>4. ub'[b] = v[2]
    BY <2>2
  <2> HIDE DEF v
  <2>5. PICK b1, x1 : v = <<b1, x1>> /\ WritesTo(Cycle(p), Step(p), b1, x1)
    BY <1>1, <2>3, MemoryUse, Zenon
  <2>6. v = <<b, ub'[b]>>
    BY <2>3, <2>4, <2>5
  <2> QED BY <2>3, <2>6
<1>4. ASSUME NEW b \in Buffers, p \notin Writers(b) PROVE ub'[b] = ub[b]
  <2>1. CASE Code(p).writes = {}
    BY <2>1
  <2>2. CASE Code(p).writes # {}
    <3>1. b \notin {w[1] : w \in Code(p).writes}
      <4> SUFFICES ASSUME NEW v \in Code(p).writes, v[1] = b PROVE FALSE
        OBVIOUS
      <4>1. PICK b1, x1 : v = <<b1, x1>> /\ WritesTo(Cycle(p), Step(p), b1, x1)
        BY <1>1, MemoryUse, Zenon
      <4>2. v = <<b, x1>>
        BY <4>1
      <4> QED BY <1>1, <1>4, <4>2 DEF Writers
    <3> QED BY <2>2, <3>1
  <2> QED BY <2>1, <2>2
<1>5. ASSUME NEW b \in Buffers, NEW q \in Writers(b), Executed(q, to),
             \A r \in Writers(b) : Executed(r, to) => r <= q
      PROVE  <<b, ub'[b]>> \in Code(q).writes
  <2> HIDE DEF to
  <2>1. ASSUME NEW r \in Writers(b)
        PROVE  /\ r \in Nat
               /\ Executed(r, at) => Executed(r, to)
               /\ Executed(r, to) /\ r # p => Executed(r, at)
    <3> PICK d, l : d = Cycle(r) /\ l = Step(r)
      OBVIOUS
    <3>1. r \in Nat /\ Present(r)
      BY DEF Writers
    <3>2. d \in Nat /\ l \in Nat /\ l <= 7 /\ r = 8 * d + l
      BY <3>1, PlaceSplit
    <3>3. Executed(r, at) <=> Done(at, d, l)
      BY <3>2, DoneExecuted
    <3>4. Executed(r, to) <=> Done(to, d, l)
      BY <3>2, DoneExecuted
    <3>5. ASSUME Done(to, d, l), r # p PROVE Done(at, d, l)
      <4>1. PipeOf(l) \in Pipes
        BY PipeNames
      <4>2. CASE PipeOf(l) = P
        <5>1. Done(at, d, l) <=> 8 * d + l < p
          BY <3>1, <3>2, <4>2, PassedPlace DEF Ready
        <5>2. to[P] = p + 1
          BY NextFacts DEF to, Ready
        <5>3. 8 * d + l < p + 1
          BY <3>5, <4>2, <5>2 DEF Done
        <5> QED BY <1>1, <3>1, <3>2, <3>5, <5>1, <5>3
      <4>3. CASE PipeOf(l) # P
        <5>1. to[PipeOf(l)] = at[PipeOf(l)]
          BY <4>1, <4>3, NextFacts DEF to, Ready
        <5> QED BY <3>5, <5>1 DEF Done
      <4> QED BY <4>2, <4>3
    <3> QED BY <1>1, <3>1, <3>2, <3>3, <3>4, <3>5
  <2>2. CASE q = p
    BY <1>3, <2>2
  <2>3. CASE q # p
    <3>1. Executed(q, at) /\ q \in Nat
      BY <1>5, <2>1, <2>3
    <3>2. p \notin Writers(b)
      <4> SUFFICES ASSUME p \in Writers(b) PROVE FALSE
        OBVIOUS
      <4> PICK d, l : d = Cycle(q) /\ l = Step(q)
        OBVIOUS
      <4>1. d \in Nat /\ l \in Nat /\ l <= 7 /\ q = 8 * d + l
        BY <3>1, PlaceSplit
      <4>2. Done(at, d, l)
        BY <3>1, <4>1, DoneExecuted
      <4>3. PICK x, y : WritesTo(c, k, b, x) /\ WritesTo(d, l, b, y)
        BY WritersFacts
      <4>4. 8 * d + l < 8 * c + k
        BY <4>1, <4>2, <4>3, WriteOrder
      <4>5. Executed(p, to)
        BY <1>1, DoneExecuted
      <4>6. p <= q
        BY <1>5, <4>5
      <4> QED BY <1>1, <4>1, <4>4, <4>6
    <3>3. ub'[b] = ub[b]
      BY <1>4, <3>2
    <3>4. \A r \in Writers(b) : Executed(r, at) => r <= q
      BY <1>5, <2>1
    <3>5. <<b, ub[b]>> \in Code(q).writes
      BY <3>1, <3>4 DEF Ready, Held
    <3> QED BY <3>3, <3>5
  <2> QED BY <2>2, <2>3
<1> QED BY <1>2, <1>5

-----------------------------------------------------------------------------
(* Every read finds what it is meant to.                                   *)
LEMMA SameLane ==
    ASSUME NEW P \in Pipes, NEW p, NEW at, Ready(P, p, at),
           NEW c, c = Cycle(p), NEW k, k = Step(p),
           NEW d \in Nat, NEW l \in Nat, l <= 7, Present(8 * d + l), PipeOf(l) = PipeOf(k)
    PROVE  Done(at, d, l) <=> 8 * d + l < 8 * c + k
<1>1. p = 8 * c + k /\ PipeOf(k) = P
  BY ReadyStep
<1>2. Done(at, d, l) <=> 8 * d + l < p
  BY <1>1, PassedPlace DEF Ready
<1> QED BY <1>1, <1>2

LEMMA BankFacts ==
    ASSUME NEW c \in Nat
    PROVE  Bank(c) \in 0..1
<1> PICK x \in Nat : x = 8 * c
  OBVIOUS
<1>1. 0 \in Nat /\ Chunks \subseteq Nat
  BY CycleSets
<1>2. Count(Chunks, 0, x) \in Nat
  BY <1>1, CountFacts, Zenon
<1> QED BY <1>2 DEF Bank

LEMMA BufferNames ==
    /\ \A h \in 0..1 : ls(h) \in Buffers /\ lp(h) \in Buffers /\ lseStage(h) \in Buffers
    /\ hm \in Buffers /\ gl \in Buffers /\ lo \in Buffers /\ go \in Buffers /\ lseVal \in Buffers
    /\ \A g \in Stacks : dm(Slot(g)) \in Buffers
<1>1. \A h \in 0..1 : ls(h) \in Buffers /\ lp(h) \in Buffers /\ lseStage(h) \in Buffers
  BY DEF Buffers
<1>2. hm \in Buffers /\ gl \in Buffers /\ lo \in Buffers /\ go \in Buffers /\ lseVal \in Buffers
  BY DEF Buffers
<1>3. ASSUME NEW g \in Stacks PROVE dm(Slot(g)) \in Buffers
  <2> PICK s : s = Slot(g)
    OBVIOUS
  <2>1. s \in 0..Slots-1
    <3>1. g \in Nat /\ First[g] \in Nat /\ First[g] <= g
      BY StackFacts
    <3>2. g - First[g] \in Nat
      BY <3>1
    <3> QED BY <3>2 DEF Slot, Slots, PreLaunch
  <2> QED BY <2>1 DEF Buffers
<1> QED BY <1>1, <1>2, <1>3

LastLoopAt(g) == CycleAt(g, 0, rowLoopNum(g) - 1)

LEMMA LastOfStack ==
    ASSUME NEW g \in Stacks, Rows[g] # 0, NEW c, c = LastLoopAt(g)
    PROVE  /\ c \in Nat /\ IsLoop(c) /\ LastLoop(c) /\ StackAt(c) = g
           /\ 32 * g <= c /\ c <= 32 * g + 3
<1> PICK n : n = rowLoopNum(g)
  OBVIOUS
<1>1. n \in 1..4 /\ g \in Nat
  BY LoopCounts, StackFacts
<1>2. n - 1 \in Nat /\ n - 1 <= 7 /\ n - 1 <= 3
  BY <1>1
<1>3. c \in Nat /\ StackAt(c) = g /\ Part(c) = 0 /\ Turn(c) = n - 1
  BY <1>1, <1>2, CycleOf DEF LastLoopAt
<1>4. IsLoop(c) /\ LastLoop(c)
  BY <1>1, <1>2, <1>3 DEF IsLoop, LastLoop
<1>5. c = 32 * g + 8 * 0 + (n - 1)
  BY DEF LastLoopAt, CycleAt
<1> QED BY <1>1, <1>3, <1>4, <1>5

LEMMA LastUnique ==
    ASSUME NEW d \in Nat, IsLoop(d), LastLoop(d)
    PROVE  /\ StackAt(d) \in Stacks /\ Rows[StackAt(d)] # 0 /\ d = LastLoopAt(StackAt(d))
           /\ 32 * StackAt(d) <= d /\ d <= 32 * StackAt(d) + 3
<1> PICK m, i : m = StackAt(d) /\ i = Turn(d)
  OBVIOUS
<1>1. m \in Stacks /\ i \in 0..3 /\ d = 32 * m + i /\ Rows[m] # 0
  BY LoopFacts
<1>2. m \in Nat
  BY <1>1, StackFacts
<1>3. LastLoopAt(m) = 32 * m + 8 * 0 + i
  BY DEF LastLoop, LastLoopAt, CycleAt
<1> QED BY <1>1, <1>2, <1>3

(* Up to step k of cycle c, only last row loops of stacks up to g write b. *)
LastWritten(b, l, g, c, k) ==
    \A d \in Nat, j \in Nat : \A y : WritesTo(d, j, b, y) =>
        j = l /\ IsLoop(d) /\ LastLoop(d) /\ (8 * d + l < 8 * c + k => StackAt(d) <= g)

Before(d, l, c, k) == 8 * d + l < 8 * c + k

(* What the vector unit accumulates over the row loops of a stack.         *)
LEMMA Accumulated ==
    ASSUME NEW P \in Pipes, NEW p, NEW at, Ready(P, p, at),
           NEW c, c = Cycle(p), NEW k, k = Step(p), PipeOf(k) = "V",
           NEW b \in Buffers, NEW l \in {1, 4}, NEW g \in Stacks, NEW w, w = LastLoopAt(g),
           Rows[g] # 0, WritesTo(w, l, b, Of(g)), Before(w, l, c, k),
           LastWritten(b, l, g, c, k)
    PROVE  ub[b] = Of(g)
<1>1. c \in Nat /\ k \in Nat
  BY ReadyStep
<1>2. w \in Nat /\ IsLoop(w) /\ LastLoop(w) /\ StackAt(w) = g /\ 32 * g <= w /\ w <= 32 * g + 3
  BY LastOfStack
<1>3. l \in Nat /\ l <= 7 /\ PipeOf(l) = PipeOf(k) /\ g \in Nat
  BY PipeNames, StackFacts
<1>4. Done(at, w, l)
  BY <1>2, <1>3, SameLane, WritesFacts DEF Before
<1>5. ASSUME NEW d \in Nat, NEW j \in Nat, NEW y, WritesTo(d, j, b, y), Done(at, d, j)
      PROVE  8 * d + j <= 8 * w + l
  <2>1. j = l /\ IsLoop(d) /\ LastLoop(d) /\ (8 * d + l < 8 * c + k => StackAt(d) <= g)
    BY <1>5 DEF LastWritten
  <2>2. 8 * d + l < 8 * c + k
    BY <1>3, <1>5, <2>1, SameLane, WritesFacts
  <2> PICK s : s = StackAt(d)
    OBVIOUS
  <2>3. s \in Stacks /\ d = LastLoopAt(s) /\ 32 * s <= d /\ d <= 32 * s + 3 /\ s <= g
    BY <2>1, <2>2, LastUnique
  <2>4. s \in Nat
    BY <2>3, StackFacts
  <2>5. CASE s = g
    BY <1>2, <1>3, <2>1, <2>3, <2>5
  <2>6. CASE s # g
    <3>1. s + 1 <= g
      BY <1>3, <2>3, <2>4, <2>6
    <3>2. d <= w
      BY <1>2, <1>3, <2>3, <2>4, <3>1
    <3> QED BY <1>2, <1>3, <2>1, <3>2
  <2> QED BY <2>5, <2>6
<1> QED BY <1>2, <1>3, <1>4, <1>5, Finding DEF Ready

LEMMA StackBefore ==
    ASSUME NEW m \in Stacks, First[m] # m
    PROVE  /\ m - 1 \in Stacks /\ m - 1 \in Nat /\ First[m - 1] = First[m] /\ Rows[m - 1] = Rows[m]
           /\ ~IsLast(m - 1) /\ First[m] <= m - 1
<1>1. m \in Nat /\ m < NumStacks /\ NumStacks \in Nat /\ First[m] \in Nat /\ First[m] <= m
      /\ \A h \in First[m]..m : h \in Stacks /\ First[h] = First[m] /\ Rows[h] = Rows[m]
  BY StackFacts
<1>2. m - 1 \in First[m]..m
  BY <1>1
<1>3. m - 1 \in Stacks /\ First[m - 1] = First[m] /\ Rows[m - 1] = Rows[m]
  BY <1>1, <1>2
<1>4. m - 1 < m /\ First[m] <= m - 1 /\ m - 1 \in Nat
  BY <1>1, <1>2
<1>5. ~IsLast(m - 1)
  BY <1>3, <1>4, SameTask
<1> QED BY <1>3, <1>4, <1>5

(* ls: loaded in this row loop, and the next load of the half waits.       *)
LEMMA LsFound ==
    ASSUME NEW P \in Pipes, NEW p, NEW at, Ready(P, p, at),
           NEW c, c = Cycle(p), NEW k, k = Step(p), IsLoop(c), k \in 1..3
    PROVE  ub[ls(Half(c))] = <<StackAt(c), Turn(c)>>
<1> DEFINE nx == Moved(P, p, at)
<1> PICK h, x : h = Half(c) /\ x = <<StackAt(c), Turn(c)>>
  OBVIOUS
<1>1. c \in Nat /\ k \in Nat /\ Done(nx, c, k) /\ ~Done(at, c, k) /\ AllPlaces(nx) /\ AllPlaces(at)
      /\ \A d \in Nat, l \in Nat : Done(at, d, l) => Done(nx, d, l)
  BY ReadyStep DEF Ready
<1>2. Orders(at, nx)
  BY DEF Ready
<1> HIDE DEF nx
<1>3. PipeOf(k) = "V"
  BY PipeNames
<1>4. Done(nx, c, 1) /\ ~Done(at, c, 3)
  <2>1. nx["V"] \in Nat /\ at["V"] \in Nat
    BY <1>1, PipeNames DEF AllPlaces
  <2>2. 8 * c + k < nx["V"] /\ ~(8 * c + k < at["V"])
    BY <1>1, <1>3 DEF Done
  <2>3. 8 * c + 1 < nx["V"] /\ ~(8 * c + 3 < at["V"])
    BY <1>1, <2>1, <2>2
  <2> QED BY <2>3, PipeNames DEF Done
<1>5. Done(at, c, 0)
  BY <1>1, <1>2, <1>4 DEF Orders
<1>6. h \in 0..1 /\ ls(h) \in Buffers /\ WritesTo(c, 0, ls(h), x)
  BY <1>1, HalfOf, BufferNames, WritersOf
<1>7. ASSUME NEW d \in Nat, NEW l \in Nat, NEW y, WritesTo(d, l, ls(h), y), Done(at, d, l)
      PROVE  8 * d + l <= 8 * c + 0
  <2>1. IsLoop(d) /\ l = 0 /\ Half(d) = h
    BY <1>7 DEF WritesTo, ls, lp, dm, hm, gl, lo, go, lseVal, lseStage
  <2> SUFFICES ASSUME c < d PROVE FALSE
    BY <1>1, <2>1
  <2>2. Done(nx, d, 0)
    BY <1>1, <1>7, <2>1
  <2>3. Done(nx, d, 0) => Done(at, c, 3)
    BY <1>1, <1>2, <2>1, Zenon DEF Orders
  <2> QED BY <1>4, <2>2, <2>3
<1>8. 0 \in Nat /\ Held(at)
  BY DEF Ready
<1> QED BY <1>1, <1>5, <1>6, <1>7, <1>8, Finding, Zenon

(* lp: cast in this row loop, and the next cast into the half waits.       *)
LEMMA LpFound ==
    ASSUME NEW P \in Pipes, NEW p, NEW at, Ready(P, p, at),
           NEW c, c = Cycle(p), NEW k, k = Step(p), IsLoop(c), k = 5
    PROVE  ub[lp(Half(c))] = <<StackAt(c), Turn(c)>>
<1> DEFINE nx == Moved(P, p, at)
<1> PICK h, x : h = Half(c) /\ x = <<StackAt(c), Turn(c)>>
  OBVIOUS
<1>1. c \in Nat /\ k \in Nat /\ Done(nx, c, 5) /\ ~Done(at, c, 5)
      /\ \A d \in Nat, l \in Nat : Done(at, d, l) => Done(nx, d, l)
  <2>1. c \in Nat /\ k \in Nat /\ Done(nx, c, k) /\ ~Done(at, c, k)
        /\ \A d \in Nat, l \in Nat : Done(at, d, l) => Done(nx, d, l)
    BY ReadyStep
  <2> QED BY <2>1
<1>2. Orders(at, nx)
  BY DEF Ready
<1> HIDE DEF nx
<1>5. Done(at, c, 2)
  BY <1>1, <1>2 DEF Orders
<1>6. h \in 0..1 /\ lp(h) \in Buffers /\ WritesTo(c, 2, lp(h), x)
  BY <1>1, HalfOf, BufferNames, WritersOf
<1>7. ASSUME NEW d \in Nat, NEW l \in Nat, NEW y, WritesTo(d, l, lp(h), y), Done(at, d, l)
      PROVE  8 * d + l <= 8 * c + 2
  <2>1. IsLoop(d) /\ l = 2 /\ Half(d) = h
    BY <1>7, WritersOf
  <2> SUFFICES ASSUME c < d PROVE FALSE
    BY <1>1, <2>1
  <2>2. Done(nx, d, 2)
    BY <1>1, <1>7, <2>1
  <2>3. Done(nx, d, 2) => Done(at, c, 5)
    BY <1>1, <1>2, <2>1, Zenon DEF Orders
  <2> QED BY <1>1, <2>2, <2>3
<1>8. 2 \in Nat /\ Held(at)
  BY DEF Ready
<1> QED BY <1>1, <1>5, <1>6, <1>7, <1>8, Finding, Zenon

(* hm, gl: the maximum and the sum up to the stack before.                 *)
LEMMA SumsFound ==
    ASSUME NEW P \in Pipes, NEW p, NEW at, Ready(P, p, at),
           NEW c, c = Cycle(p), NEW k, k = Step(p), IsLoop(c), LastLoop(c),
           NEW m, m = StackAt(c), First[m] # m
    PROVE  /\ k = 1 => ub[hm] = Of(m - 1)
           /\ k = 4 => ub[gl] = Of(m - 1) /\ ub[dm(Slot(m))] = Of(m)
<1> PICK g : g = m - 1
  OBVIOUS
<1> PICK w : w = LastLoopAt(g)
  OBVIOUS
<1>1. c \in Nat /\ k \in Nat
  BY ReadyStep
<1>2. m \in Stacks /\ Rows[m] # 0 /\ c = LastLoopAt(m) /\ 32 * m <= c /\ c <= 32 * m + 3
  BY <1>1, LastUnique
<1>3. g \in Stacks /\ g \in Nat /\ Rows[g] # 0 /\ m = g + 1
  <2>1. m - 1 \in Stacks /\ m - 1 \in Nat /\ Rows[m - 1] = Rows[m]
    BY <1>2, StackBefore, Zenon
  <2>2. m \in Nat
    BY <1>2, StackFacts
  <2>3. g \in Stacks /\ g \in Nat /\ Rows[g] = Rows[m]
    BY <2>1
  <2>4. m = g + 1
    BY <2>2
  <2> QED BY <1>2, <2>3, <2>4
<1>4. w \in Nat /\ IsLoop(w) /\ LastLoop(w) /\ StackAt(w) = g /\ 32 * g <= w /\ w <= 32 * g + 3
  BY <1>3, LastOfStack
<1>5. ASSUME NEW d \in Nat, IsLoop(d), LastLoop(d), d <= c
      PROVE  StackAt(d) <= m /\ (d # c => StackAt(d) <= g)
  <2> PICK s : s = StackAt(d)
    OBVIOUS
  <2>1. s \in Stacks /\ d = LastLoopAt(s) /\ 32 * s <= d
    BY <1>5, LastUnique
  <2>2. s \in Nat
    BY <2>1, StackFacts
  <2>3. s <= m
    BY <1>1, <1>2, <1>3, <1>5, <2>1, <2>2
  <2> QED BY <1>2, <1>3, <2>1, <2>2, <2>3
<1>6. CASE k = 1
  <2>1. WritesTo(w, 1, hm, Of(g))
    BY <1>4, WritersOf
  <2>2. Before(w, 1, c, k)
    BY <1>1, <1>2, <1>3, <1>4, <1>6 DEF Before
  <2>3. ASSUME NEW d \in Nat, NEW j \in Nat, NEW y, WritesTo(d, j, hm, y)
        PROVE  j = 1 /\ IsLoop(d) /\ LastLoop(d) /\ (8 * d + 1 < 8 * c + k => StackAt(d) <= g)
    <3>1. j = 1 /\ IsLoop(d) /\ LastLoop(d)
      BY <2>3, WritersOf
    <3>2. 8 * d + 1 < 8 * c + k => d <= c /\ d # c
      BY <1>1, <1>6
    <3> QED BY <1>5, <3>1, <3>2
  <2>6. LastWritten(hm, 1, g, c, k)
    BY <2>3 DEF LastWritten
  <2>4. hm \in Buffers /\ PipeOf(k) = "V" /\ 1 \in {1, 4}
    BY <1>6, BufferNames, PipeNames
  <2>5. ub[hm] = Of(g)
    BY <1>3, <2>1, <2>2, <2>6, <2>4, Accumulated
  <2> QED BY <1>6, <2>5
<1>7. CASE k = 4
  <2>1. WritesTo(w, 4, gl, Of(g))
    BY <1>4, WritersOf
  <2>2. Before(w, 4, c, k)
    BY <1>1, <1>2, <1>3, <1>4, <1>7 DEF Before
  <2>3. ASSUME NEW d \in Nat, NEW j \in Nat, NEW y, WritesTo(d, j, gl, y)
        PROVE  j = 4 /\ IsLoop(d) /\ LastLoop(d) /\ (8 * d + 4 < 8 * c + k => StackAt(d) <= g)
    <3>1. j = 4 /\ IsLoop(d) /\ LastLoop(d)
      BY <2>3, WritersOf
    <3>2. 8 * d + 4 < 8 * c + k => d <= c /\ d # c
      BY <1>1, <1>7
    <3> QED BY <1>5, <3>1, <3>2
  <2>11. LastWritten(gl, 4, g, c, k)
    BY <2>3 DEF LastWritten
  <2>4. gl \in Buffers /\ PipeOf(k) = "V" /\ 4 \in {1, 4}
    BY <1>7, BufferNames, PipeNames
  <2>5. ub[gl] = Of(g)
    BY <1>3, <2>1, <2>2, <2>11, <2>4, Accumulated
  <2> PICK b, u, v : b = dm(Slot(m)) /\ u = m /\ v = LastLoopAt(u)
    OBVIOUS
  <2>6. u \in Stacks /\ u \in Nat /\ Rows[u] # 0 /\ v = c /\ WritesTo(v, 1, b, Of(u))
    BY <1>2, <1>3, <1>7, WritersOf
  <2>7. Before(v, 1, c, k)
    BY <1>1, <1>7, <2>6 DEF Before
  <2>8. ASSUME NEW d \in Nat, NEW j \in Nat, NEW y, WritesTo(d, j, b, y)
        PROVE  j = 1 /\ IsLoop(d) /\ LastLoop(d) /\ (8 * d + 1 < 8 * c + k => StackAt(d) <= u)
    <3>1. j = 1 /\ IsLoop(d) /\ LastLoop(d)
      BY <2>8, WritersOf
    <3>2. 8 * d + 1 < 8 * c + k => d <= c
      BY <1>1, <1>7
    <3> QED BY <1>5, <3>1, <3>2
  <2>12. LastWritten(b, 1, u, c, k)
    BY <2>8 DEF LastWritten
  <2>9. b \in Buffers /\ PipeOf(k) = "V" /\ 1 \in {1, 4}
    BY <1>2, <1>7, BufferNames, PipeNames
  <2>13. u \in Stacks /\ u \in Nat /\ Rows[u] # 0 /\ WritesTo(v, 1, b, Of(u))
    BY <2>6
  <2>10. ub[b] = Of(u)
    BY <2>13, <2>7, <2>12, <2>9, Accumulated
  <2> QED BY <1>7, <2>5, <2>10
<1> QED BY <1>6, <1>7

LEMMA FoldPresent ==
    ASSUME NEW c \in Nat, IsFold(c)
    PROVE  /\ Present(8 * c + 1)
           /\ IsOutput(c) => Present(8 * c + 2) /\ Present(8 * c + 3)
<1>1. Cycle(8 * c + 1) = c /\ Step(8 * c + 1) = 1
  BY PlaceOf
<1>2. Cycle(8 * c + 2) = c /\ Step(8 * c + 2) = 2
  BY PlaceOf
<1>3. Cycle(8 * c + 3) = c /\ Step(8 * c + 3) = 3
  BY PlaceOf
<1> QED BY <1>1, <1>2, <1>3 DEF Present

LEMMA FoldFacts ==
    ASSUME NEW c \in Nat, IsFold(c), NEW m, m = StackAt(c), NEW g, g = FoldedAt(c)
    PROVE  /\ m \in Stacks /\ g \in Stacks /\ m \in Nat /\ g \in Nat /\ Rows[g] # 0
           /\ First[m] <= g /\ g <= m /\ m <= g + 2 /\ First[g] = First[m]
           /\ c = 24 * m + 8 * g + 24
           /\ IsOutput(c) => m = g /\ IsLast(g) /\ c = 32 * g + 24
<1>1. IsRescale(c) /\ Turn(c) = 0
  BY DEF IsFold
<1>2. /\ m \in Stacks /\ g \in Stacks /\ First[m] <= g /\ g <= m /\ m <= g + 2
      /\ First[g] = First[m] /\ Rows[g] # 0 /\ c = RescaleCycle(m, g, Turn(c))
  BY <1>1, RescaleFacts
<1>3. m \in Nat /\ g \in Nat
  BY <1>2, StackFacts
<1>4. c = 24 * m + 8 * g + 24
  BY <1>1, <1>2, <1>3 DEF RescaleCycle
<1>5. IsOutput(c) => m = g /\ IsLast(m)
  <2>1. IsOutput(c) => Part(c) = 3
    BY DEF IsOutput
  <2> QED BY <1>1, <2>1, OutFacts
<1> QED BY <1>2, <1>3, <1>4, <1>5

(* dm of a stack is still there when O is rescaled by it.                  *)
LEMMA ScaleFound ==
    ASSUME NEW P \in Pipes, NEW p, NEW at, Ready(P, p, at),
           NEW c, c = Cycle(p), NEW k, k = Step(p), IsFold(c), Step(p) = 1,
           NEW g, g = FoldedAt(c), First[g] # g
    PROVE  ub[dm(Slot(g))] = Of(g)
<1> PICK b, m, w : b = dm(Slot(g)) /\ m = StackAt(c) /\ w = LastLoopAt(g)
  OBVIOUS
<1>1. c \in Nat /\ k \in Nat
  BY ReadyStep
<1>0. k = 1
  OBVIOUS
<1>2. /\ m \in Stacks /\ g \in Stacks /\ m \in Nat /\ g \in Nat /\ Rows[g] # 0
      /\ First[m] <= g /\ g <= m /\ m <= g + 2 /\ First[g] = First[m]
      /\ c = 24 * m + 8 * g + 24
  BY <1>1, FoldFacts
<1>3. w \in Nat /\ IsLoop(w) /\ LastLoop(w) /\ StackAt(w) = g /\ w <= 32 * g + 3
  BY <1>2, LastOfStack
<1>4. WritesTo(w, 1, b, Of(g))
  BY <1>3 DEF WritesTo
<1>5. Before(w, 1, c, k)
  <2>1. w < c
    <3>1. m \in Nat /\ g \in Nat /\ g <= m /\ c = 24 * m + 8 * g + 24
      BY <1>2
    <3>2. 32 * g + 24 <= c
      BY <3>1
    <3>3. w \in Nat /\ w <= 32 * g + 3
      BY <1>3
    <3> QED BY <1>1, <3>1, <3>2, <3>3
  <2>2. 8 * w + 1 < 8 * c + 1
    BY <1>1, <1>3, <2>1
  <2> QED BY <1>0, <2>2, Zenon DEF Before
<1>6. ASSUME NEW d \in Nat, NEW j \in Nat, NEW y, WritesTo(d, j, b, y)
      PROVE  j = 1 /\ IsLoop(d) /\ LastLoop(d) /\ (8 * d + 1 < 8 * c + k => StackAt(d) <= g)
  <2> PICK s : s = StackAt(d)
    OBVIOUS
  <2>1. j = 1 /\ IsLoop(d) /\ LastLoop(d) /\ First[s] # s /\ Slot(s) = Slot(g)
    <3>1. WritesTo(d, j, dm(Slot(g)), y)
      BY <1>6
    <3>2. /\ IsLoop(d) /\ j = 1 /\ LastLoop(d) /\ First[StackAt(d)] # StackAt(d)
          /\ dm(Slot(StackAt(d))) = dm(Slot(g))
      BY <3>1 DEF WritesTo, ls, lp, dm, hm, gl, lo, go, lseVal, lseStage
    <3>3. Slot(StackAt(d)) = Slot(g)
      BY <3>2 DEF dm
    <3> QED BY <3>2, <3>3
  <2>2. s \in Stacks /\ s \in Nat /\ 32 * s <= d
    BY <2>1, LastUnique, StackFacts
  <2>3. ASSUME 8 * d + 1 < 8 * c + k, g < s PROVE FALSE
    <3>1. 32 * s < 24 * m + 8 * g + 24
      BY <1>0, <1>1, <1>2, <2>2, <2>3
    <3>2. s <= m
      BY <1>2, <2>2, <2>3, <3>1
    <3> PICK f : f = First[m]
      OBVIOUS
    <3>3. f \in Nat /\ s \in First[m]..m
      BY <1>2, <2>2, <2>3, <3>2, StackFacts
    <3>4. First[s] = f
      BY <1>2, <3>3, StackFacts
    <3>5. s - f \in Nat /\ g - f \in Nat
      BY <1>2, <2>2, <2>3, <3>3
    <3> PICK u \in Nat, v \in Nat : u = s - f /\ v = g - f
      BY <3>5
    <3>6. u % 3 = v % 3
      <4>1. Slot(s) = u % 3
        BY <3>4 DEF Slot, Slots, PreLaunch
      <4>2. Slot(g) = v % 3
        BY <1>2 DEF Slot, Slots, PreLaunch
      <4> QED BY <2>1, <4>1, <4>2
    <3>7. u = v + 1 \/ u = v + 2
      BY <1>2, <2>2, <2>3, <3>2, <3>3
    <3> QED BY <3>6, <3>7
  <2> QED BY <1>2, <2>1, <2>2, <2>3
<1>7. LastWritten(b, 1, g, c, k)
  BY <1>6 DEF LastWritten
<1>8. b \in Buffers /\ PipeOf(k) = "V" /\ 1 \in {1, 4}
  BY <1>0, <1>2, BufferNames, PipeNames
<1>10. g \in Stacks /\ g \in Nat /\ Rows[g] # 0
  BY <1>2
<1>9. ub[b] = Of(g)
  BY <1>10, <1>4, <1>5, <1>7, <1>8, Accumulated
<1> QED BY <1>9

(* lo: loaded for this rescale, and the next load waits.                   *)
LEMMA PieceFound ==
    ASSUME NEW P \in Pipes, NEW p, NEW at, Ready(P, p, at),
           NEW c, c = Cycle(p), NEW k, k = Step(p), IsFold(c), k = 1,
           NEW g, g = FoldedAt(c), First[g] # g
    PROVE  ub[lo] = Of(g)
<1> DEFINE nx == Moved(P, p, at)
<1>1. c \in Nat /\ Done(nx, c, 1) /\ ~Done(at, c, 1)
  <2>1. c \in Nat /\ Done(nx, c, k) /\ ~Done(at, c, k)
    BY ReadyStep
  <2> QED BY <2>1
<1>2. Orders(at, nx) /\ Orders(at, at) /\ Held(at)
  BY DEF Ready
<1> HIDE DEF nx
<1>3. Done(at, c, 0)
  BY <1>1, <1>2 DEF Orders
<1>4. 0 \in Nat /\ lo \in Buffers /\ WritesTo(c, 0, lo, Of(g))
  BY BufferNames, WritersOf
<1>5. ASSUME NEW d \in Nat, NEW l \in Nat, NEW y, WritesTo(d, l, lo, y), Done(at, d, l)
      PROVE  8 * d + l <= 8 * c + 0
  <2>1. IsFold(d) /\ l = 0
    BY <1>5, WritersOf
  <2> SUFFICES ASSUME c < d PROVE FALSE
    BY <1>1, <2>1
  <2>2. Done(at, d, 0)
    BY <1>5, <2>1, Zenon
  <2>3. Done(at, d, 0) => Done(at, c, 1)
    BY <1>1, <1>2, <2>1, Zenon DEF Orders
  <2> QED BY <1>1, <2>2, <2>3
<1> QED BY <1>1, <1>2, <1>3, <1>4, <1>5, Finding, Zenon

(* The rescale before: there is one unless the stack is the first.         *)
LEMMA FoldBefore ==
    ASSUME NEW g \in Stacks, First[g] # g, Rows[g] # 0
    PROVE  \E c \in Nat : IsFold(c) /\ FoldedAt(c) = g - 1
<1>1. g \in Nat /\ g < NumStacks /\ NumStacks \in Nat /\ First[g] \in Nat
  BY StackFacts
<1> PICK h : h = g - 1
  OBVIOUS
<1>2. h \in Stacks /\ h \in Nat /\ Rows[h] # 0 /\ First[g] <= h /\ g = h + 1
  <2>1. g - 1 \in Stacks /\ g - 1 \in Nat /\ Rows[g - 1] = Rows[g] /\ First[g] <= g - 1
    BY StackBefore, Zenon
  <2>2. h \in Stacks /\ h \in Nat /\ Rows[h] = Rows[g] /\ First[g] <= h
    BY <2>1
  <2>3. g = h + 1
    BY <1>1
  <2> QED BY <2>2, <2>3
<1>3. PICK m : /\ m \in Stacks /\ First[m] <= h /\ h <= m /\ m <= h + 2
               /\ h = m - 2 \/ IsLast(m)
  <2>1. CASE IsLast(g)
    BY <1>1, <1>2, <2>1
  <2>2. CASE ~IsLast(g)
    <3> PICK n : n = g + 1
      OBVIOUS
    <3>1. n \in Stacks /\ First[n] # n /\ n \in Nat
      BY <1>1, <2>2 DEF IsLast, Stacks
    <3>2. First[n] \in Nat /\ First[n] <= n /\ \A x \in First[n]..n : First[x] = First[n]
      BY <3>1, StackFacts
    <3>3. g \in First[n]..n
      BY <1>1, <3>1, <3>2
    <3>4. First[n] = First[g]
      BY <3>2, <3>3
    <3> QED BY <1>1, <1>2, <3>1, <3>4
  <2> QED BY <2>1, <2>2
<1> PICK c : c = RescaleCycle(m, h, 0)
  OBVIOUS
<1>4. c \in Nat /\ IsRescale(c) /\ FoldedAt(c) = h /\ Turn(c) = 0
  <2>1. 0 \in Nat /\ 0 <= 7
    OBVIOUS
  <2> QED BY <1>2, <1>3, <2>1, RescaleAt
<1> QED BY <1>4 DEF IsFold

(* go: O of the stacks before.                                             *)
LEMMA SoFarFound ==
    ASSUME NEW P \in Pipes, NEW p, NEW at, Ready(P, p, at),
           NEW c, c = Cycle(p), Step(p) = 1, IsFold(c),
           NEW g, g = FoldedAt(c), First[g] # g
    PROVE  ub[go] = Of(g - 1)
<1> PICK k, h : k = Step(p) /\ h = g - 1
  OBVIOUS
<1>1. c \in Nat /\ ~Done(at, c, 1) /\ PipeOf(Step(p)) = "V" /\ AllPlaces(at) /\ p = 8 * c + 1
  <2>1. c \in Nat /\ ~Done(at, c, Step(p)) /\ p = 8 * c + Step(p)
    BY ReadyStep
  <2> QED BY <2>1, PipeNames DEF Ready
<1>2. Orders(at, at) /\ Held(at)
  BY DEF Ready
<1>3. g \in Stacks /\ g \in Nat /\ Rows[g] # 0
  BY <1>1, FoldFacts
<1>4. PICK e \in Nat : IsFold(e) /\ FoldedAt(e) = h
  BY <1>3, FoldBefore, Zenon
<1>5. h \in Stacks /\ h \in Nat /\ ~IsLast(h) /\ First[h] \in Stacks /\ g = h + 1
  <2>1. h \in Stacks /\ ~IsLast(h)
    BY <1>3, StackBefore, Zenon
  <2> QED BY <1>3, <2>1, StackFacts
<1>6. e < c
  BY <1>1, <1>3, <1>4, <1>5, FoldOrder
<1>7. ASSUME NEW d \in Nat, NEW l \in Nat, l <= 7, Present(8 * d + l), PipeOf(l) = "V"
      PROVE  Done(at, d, l) <=> 8 * d + l < 8 * c + 1
  <2>1. Done(at, d, l) <=> 8 * d + l < 8 * c + Step(p)
    BY <1>1, <1>7, SameLane, Zenon
  <2> QED BY <2>1
<1>8. Done(at, e, 1) /\ Done(at, e, 0)
  <2>1. Present(8 * e + 1)
    BY <1>4, FoldPresent
  <2>2. 8 * e + 1 < 8 * c + 1 /\ 1 \in Nat /\ 1 <= 7
    BY <1>1, <1>6
  <2>3. Done(at, e, 1)
    BY <1>7, <2>1, <2>2, PipeNames
  <2> QED BY <1>2, <1>4, <2>3 DEF Orders
<1>9. ASSUME NEW d \in Nat, NEW l \in Nat, NEW y, WritesTo(d, l, go, y), Done(at, d, l)
      PROVE  /\ l \in 0..2 /\ IsFold(d)
             /\ d < e \/ (d = e /\ l \in 0..1)
             /\ l = 0 => First[FoldedAt(d)] = FoldedAt(d)
             /\ l = 1 => First[FoldedAt(d)] # FoldedAt(d)
  <2>1. /\ Present(8 * d + l)
        /\ \/ l = 0 /\ IsFold(d) /\ First[FoldedAt(d)] = FoldedAt(d)
           \/ l = 1 /\ IsFold(d) /\ First[FoldedAt(d)] # FoldedAt(d)
           \/ l = 2 /\ IsFold(d) /\ IsOutput(d)
    BY <1>9, WritesFacts
  <2>2. d < c
    <3>1. CASE l = 0
      <4>1. d # c
        BY <2>1, <3>1
      <4>2. Done(at, d, 0)
        BY <1>9, <3>1, Zenon
      <4>3. c < d => (Done(at, d, 0) => Done(at, c, 1))
        BY <1>1, <1>2, <2>1, Zenon DEF Orders
      <4> QED BY <1>1, <4>1, <4>2, <4>3
    <3>2. CASE l # 0
      <4>1. PipeOf(l) = "V" /\ l <= 7
        BY <2>1, <3>2, PipeNames
      <4>2. 8 * d + l < 8 * c + 1
        BY <1>7, <1>9, <2>1, <4>1
      <4> QED BY <1>1, <2>1, <3>2, <4>2
    <3> QED BY <3>1, <3>2
  <2> PICK s : s = FoldedAt(d)
    OBVIOUS
  <2>3. s \in Nat /\ (IsOutput(d) => IsLast(s))
    BY <2>1, FoldFacts
  <2>4. s < g
    BY <1>1, <2>1, <2>2, FoldOrder
  <2>5. s = h => l # 2
    BY <1>5, <2>1, <2>3
  <2>6. e < d => h < s
    BY <1>4, <2>1, FoldOrder
  <2>7. d < e \/ d = e
    BY <1>4, <1>5, <2>3, <2>4, <2>6
  <2> QED BY <1>4, <2>1, <2>5, <2>7
<1>10. go \in Buffers /\ 0 \in Nat /\ 1 \in Nat
  BY BufferNames
<1>11. CASE First[h] = h
  <2>1. WritesTo(e, 0, go, Of(h))
    BY <1>4, <1>11, WritersOf
  <2>2. ASSUME NEW d \in Nat, NEW l \in Nat, NEW y, WritesTo(d, l, go, y), Done(at, d, l)
        PROVE  8 * d + l <= 8 * e + 0
    <3>1. l \in 0..2 /\ (d < e \/ (d = e /\ l = 0))
      BY <1>4, <1>9, <1>11, <2>2
    <3> QED BY <1>4, <3>1
  <2>3. ub[go] = Of(h)
    BY <1>2, <1>4, <1>8, <1>10, <2>1, <2>2, Finding, Zenon
  <2> QED BY <2>3
<1>12. CASE First[h] # h
  <2>1. WritesTo(e, 1, go, Of(h))
    BY <1>4, <1>12, WritersOf
  <2>2. ASSUME NEW d \in Nat, NEW l \in Nat, NEW y, WritesTo(d, l, go, y), Done(at, d, l)
        PROVE  8 * d + l <= 8 * e + 1
    <3>1. l \in 0..2 /\ (d < e \/ (d = e /\ l \in 0..1))
      BY <1>4, <1>9, <2>2
    <3> QED BY <1>4, <3>1
  <2>3. ub[go] = Of(h)
    BY <1>2, <1>4, <1>8, <1>10, <2>1, <2>2, Finding
  <2> QED BY <2>3
<1> QED BY <1>11, <1>12

(* The last stack: gl and hm are the sum and the maximum of its task.      *)
LEMMA TotalsFound ==
    ASSUME NEW P \in Pipes, NEW p, NEW at, Ready(P, p, at),
           NEW c, c = Cycle(p), NEW k, k = Step(p), IsOutput(c), k \in 2..3,
           NEW g, g = FoldedAt(c)
    PROVE  ub[gl] = Of(g) /\ ub[hm] = Of(g)
<1> PICK w : w = LastLoopAt(g)
  OBVIOUS
<1>1. c \in Nat /\ k \in Nat /\ PipeOf(k) = "V" /\ IsFold(c)
  <2>1. c \in Nat
    BY ReadyStep
  <2> QED BY <2>1, Kinds, PipeNames
<1>2. g \in Stacks /\ g \in Nat /\ Rows[g] # 0 /\ c = 32 * g + 24
  BY <1>1, FoldFacts
<1>3. w \in Nat /\ IsLoop(w) /\ LastLoop(w) /\ StackAt(w) = g /\ w <= 32 * g + 3
  BY <1>2, LastOfStack
<1>4. WritesTo(w, 4, gl, Of(g)) /\ WritesTo(w, 1, hm, Of(g))
  BY <1>3 DEF WritesTo
<1>5. w < c
  BY <1>1, <1>2, <1>3
<1>6. Before(w, 4, c, k) /\ Before(w, 1, c, k)
  BY <1>1, <1>3, <1>5 DEF Before
<1>7. ASSUME NEW d \in Nat, IsLoop(d), LastLoop(d), d <= c PROVE StackAt(d) <= g
  <2> PICK s : s = StackAt(d)
    OBVIOUS
  <2>1. s \in Stacks /\ 32 * s <= d
    BY <1>7, LastUnique
  <2>2. s \in Nat
    BY <2>1, StackFacts
  <2>3. s <= g
    BY <1>1, <1>2, <1>7, <2>1, <2>2
  <2> QED BY <2>3
<1>8. LastWritten(gl, 4, g, c, k)
  <2>1. ASSUME NEW d \in Nat, NEW j \in Nat, NEW y, WritesTo(d, j, gl, y)
        PROVE  j = 4 /\ IsLoop(d) /\ LastLoop(d) /\ (8 * d + 4 < 8 * c + k => StackAt(d) <= g)
    <3>1. j = 4 /\ IsLoop(d) /\ LastLoop(d)
      BY <2>1, WritersOf
    <3>2. 8 * d + 4 < 8 * c + k => d <= c
      BY <1>1
    <3> QED BY <1>7, <3>1, <3>2
  <2> QED BY <2>1 DEF LastWritten
<1>9. LastWritten(hm, 1, g, c, k)
  <2>1. ASSUME NEW d \in Nat, NEW j \in Nat, NEW y, WritesTo(d, j, hm, y)
        PROVE  j = 1 /\ IsLoop(d) /\ LastLoop(d) /\ (8 * d + 1 < 8 * c + k => StackAt(d) <= g)
    <3>1. j = 1 /\ IsLoop(d) /\ LastLoop(d)
      BY <2>1, WritersOf
    <3>2. 8 * d + 1 < 8 * c + k => d <= c
      BY <1>1
    <3> QED BY <1>7, <3>1, <3>2
  <2> QED BY <2>1 DEF LastWritten
<1>10. g \in Stacks /\ g \in Nat /\ Rows[g] # 0 /\ PipeOf(k) = "V"
       /\ hm \in Buffers /\ gl \in Buffers /\ 1 \in {1, 4} /\ 4 \in {1, 4}
  BY <1>1, <1>2, BufferNames
<1>11. ub[gl] = Of(g)
  BY <1>4, <1>6, <1>8, <1>10, Accumulated
<1>12. ub[hm] = Of(g)
  BY <1>4, <1>6, <1>9, <1>10, Accumulated
<1> QED BY <1>11, <1>12

LEMMA OutputOf ==
    ASSUME NEW c \in Nat, IsOutput(c) \/ IsChunk(c), NEW g, g = FoldedAt(c)
    PROVE  /\ g \in Stacks /\ g \in Nat /\ IsLast(g) /\ Rows[g] # 0
           /\ c = 32 * g + 24 + Turn(c) /\ Turn(c) \in 0..2
           /\ IsOutput(c) => Turn(c) = 0
           /\ IsChunk(c) => Turn(c) \in 1..2
<1>1. IsRescale(c) /\ Part(c) = 3
  BY DEF IsOutput, IsFold, IsChunk
<1>2. g = StackAt(c) /\ StackAt(c) \in Stacks /\ IsLast(StackAt(c))
      /\ c = 32 * StackAt(c) + 24 + Turn(c)
  BY <1>1, OutFacts, Zenon
<1>3. g \in Stacks /\ IsLast(g) /\ c = 32 * g + 24 + Turn(c)
  BY <1>2
<1>4. g \in Nat
  BY <1>3, StackFacts
<1>5. Rows[g] # 0
  BY <1>1 DEF IsRescale
<1>6. IsOutput(c) => Turn(c) = 0
  BY DEF IsOutput, IsFold
<1>7. IsChunk(c) => Turn(c) \in 1..2
  BY ChunkFacts
<1> QED BY <1>3, <1>4, <1>5, <1>6, <1>7

(* Nothing of a later stack is written while an output is under way.       *)
LEMMA NothingLater ==
    ASSUME NEW P \in Pipes, NEW p, NEW at, Ready(P, p, at),
           NEW c, c = Cycle(p), IsOutput(c) \/ IsChunk(c), Step(p) \in {2, 3, 5},
           NEW d \in Nat, IsFold(d), 8 * d < EndPlace
    PROVE  ~(FoldedAt(c) < FoldedAt(d)) /\ FoldedAt(d) \in Nat
<1> PICK g, s, k : g = FoldedAt(c) /\ s = FoldedAt(d) /\ k = Step(p)
  OBVIOUS
<1>1. c \in Nat /\ k \in Nat /\ ~Done(at, c, k) /\ AllPlaces(at)
  BY ReadyStep DEF Ready
<1>2. g \in Stacks /\ g \in Nat /\ c = 32 * g + 24 + Turn(c) /\ Turn(c) \in 0..2
  BY <1>1, OutputOf
<1>3. s \in Nat
  BY FoldFacts
<1> SUFFICES ASSUME g < s PROVE FALSE
  BY <1>3
<1>4. c < 32 * g + 32
  BY <1>2
<1>5. Done(at, c, 5) /\ Done(at, c, 3)
  BY <1>1, <1>2, <1>4, LaterFold DEF Ready
<1>6. 8 * c + 3 < at["V"] /\ 8 * c + 5 < at["MTE3"]
  BY <1>5, PipeNames DEF Done
<1>7. at["V"] \in Nat /\ at["MTE3"] \in Nat
  BY <1>1, PipeNames DEF AllPlaces
<1>8. CASE Step(p) = 5
  BY <1>1, <1>5, <1>8
<1>9. CASE Step(p) \in {2, 3}
  <2>1. 8 * c + 2 < at["V"]
    BY <1>1, <1>6, <1>7
  <2>2. Done(at, c, 2)
    BY <2>1, PipeNames DEF Done
  <2> QED BY <1>1, <1>5, <1>9, <2>2
<1> QED BY <1>8, <1>9

(* A chunk counts one; the next takes the other bank.                      *)
LEMMA OneMore ==
    ASSUME NEW c \in Nat, IsChunk(c)
    PROVE  /\ Count(Chunks, 0, 8 * c) \in Nat
           /\ Count(Chunks, 0, 8 * (c + 1)) = Count(Chunks, 0, 8 * c) + 1
<1> PICK a, b : a = 8 * c /\ b = 8 * (c + 1)
  OBVIOUS
<1>1. a \in Nat /\ b \in Nat /\ Chunks \subseteq Nat /\ c \in Chunks
  BY CycleSets
<1>2. IsFiniteSet(Passed(Chunks, 0, a)) /\ Count(Chunks, 0, a) \in Nat
  <2>1. 0 \in Nat
    OBVIOUS
  <2> QED BY <1>1, <2>1, CountFacts, Zenon
<1>3. Passed(Chunks, 0, b) = Passed(Chunks, 0, a) \cup {c}
  <2>1. ASSUME NEW d \in Chunks PROVE 8 * d + 0 < b <=> 8 * d + 0 < a \/ d = c
    <3>1. d \in Nat
      BY <1>1
    <3> QED BY <1>1, <3>1
  <2>2. c \in Chunks
    BY <1>1
  <2> QED BY <2>1, <2>2 DEF Passed
<1>4. c \notin Passed(Chunks, 0, a)
  <2>1. ~(8 * c + 0 < a)
    BY <1>1
  <2> QED BY <2>1 DEF Passed
<1>5. Cardinality(Passed(Chunks, 0, a) \cup {c}) = Count(Chunks, 0, a) + 1
  BY <1>2, <1>4, FS_AddElement DEF Count
<1> QED BY <1>2, <1>3, <1>5 DEF Count

LEMMA NextBank ==
    ASSUME NEW c \in Nat, IsChunk(c)
    PROVE  Bank(c + 1) # Bank(c)
<1> PICK x : x = Count(Chunks, 0, 8 * c)
  OBVIOUS
<1>1. x \in Nat /\ Count(Chunks, 0, 8 * (c + 1)) = x + 1
  BY OneMore
<1>2. Bank(c) = x % 2 /\ Bank(c + 1) = (x + 1) % 2
  BY <1>1 DEF Bank
<1>3. (x + 1) % 2 # x % 2
  BY <1>1
<1> QED BY <1>2, <1>3

(* go: O of the whole task, when it is divided.                            *)
LEMMA WholeFound ==
    ASSUME NEW P \in Pipes, NEW p, NEW at, Ready(P, p, at),
           NEW c, c = Cycle(p), Step(p) = 2, IsOutput(c),
           NEW g, g = FoldedAt(c)
    PROVE  ub[go] = Of(g)
<1>1. c \in Nat /\ ~Done(at, c, 2) /\ PipeOf(Step(p)) = "V" /\ AllPlaces(at) /\ p = 8 * c + 2
  <2>1. c \in Nat /\ ~Done(at, c, Step(p)) /\ p = 8 * c + Step(p)
    BY ReadyStep
  <2> QED BY <2>1, PipeNames DEF Ready
<1>2. Orders(at, at) /\ Held(at)
  BY DEF Ready
<1>3. IsFold(c) /\ g \in Stacks /\ g \in Nat
  <2>1. IsFold(c)
    BY DEF IsOutput
  <2> QED BY <1>1, <2>1, FoldFacts
<1>4. ASSUME NEW d \in Nat, NEW l \in Nat, l <= 7, Present(8 * d + l), PipeOf(l) = "V"
      PROVE  Done(at, d, l) <=> 8 * d + l < 8 * c + 2
  <2>1. Done(at, d, l) <=> 8 * d + l < 8 * c + Step(p)
    BY <1>1, <1>4, SameLane, Zenon
  <2> QED BY <2>1
<1>5. Done(at, c, 1) /\ Done(at, c, 0)
  <2>1. Present(8 * c + 1)
    BY <1>1, <1>3, FoldPresent
  <2>2. 8 * c + 1 < 8 * c + 2 /\ 1 \in Nat /\ 1 <= 7
    BY <1>1
  <2>3. Done(at, c, 1)
    BY <1>1, <1>4, <2>1, <2>2, PipeNames
  <2> QED BY <1>1, <1>2, <1>3, <2>3 DEF Orders
<1>6. ASSUME NEW d \in Nat, NEW l \in Nat, NEW y, WritesTo(d, l, go, y), Done(at, d, l)
      PROVE  /\ l \in 0..2 /\ IsFold(d)
             /\ d < c \/ (d = c /\ l \in 0..1)
             /\ l = 0 => First[FoldedAt(d)] = FoldedAt(d)
             /\ l = 1 => First[FoldedAt(d)] # FoldedAt(d)
  <2>1. /\ Present(8 * d + l)
        /\ \/ l = 0 /\ IsFold(d) /\ First[FoldedAt(d)] = FoldedAt(d)
           \/ l = 1 /\ IsFold(d) /\ First[FoldedAt(d)] # FoldedAt(d)
           \/ l = 2 /\ IsFold(d) /\ IsOutput(d)
    BY <1>6, WritesFacts
  <2>2. CASE l = 0
    <3>1. 8 * d + l < EndPlace
      BY <1>6, ReadyStep
    <3>2. EndPlace \in Nat
      BY DEF Ready
    <3> PICK z : z = EndPlace
      OBVIOUS
    <3>3. 8 * d < EndPlace
      <4>1. 8 * d < z
        BY <2>2, <3>1, <3>2
      <4> QED BY <4>1
    <3>4. ~(FoldedAt(c) < FoldedAt(d))
      BY <2>1, <3>3, NothingLater
    <3>5. ~(c < d)
      BY <1>1, <1>3, <2>1, <3>4, FoldOrder
    <3> QED BY <1>1, <2>1, <2>2, <3>5
  <2>3. CASE l # 0
    <3>1. PipeOf(l) = "V" /\ l <= 7
      BY <2>1, <2>3, PipeNames
    <3>2. 8 * d + l < 8 * c + 2
      BY <1>4, <1>6, <2>1, <3>1
    <3> QED BY <1>1, <2>1, <2>3, <3>2
  <2> QED BY <2>2, <2>3
<1>7. go \in Buffers /\ 0 \in Nat /\ 1 \in Nat
  BY BufferNames
<1>8. CASE First[g] = g
  <2>1. WritesTo(c, 0, go, Of(g))
    BY <1>3, <1>8, WritersOf
  <2>2. ASSUME NEW d \in Nat, NEW l \in Nat, NEW y, WritesTo(d, l, go, y), Done(at, d, l)
        PROVE  8 * d + l <= 8 * c + 0
    <3>1. l \in 0..2 /\ (d < c \/ (d = c /\ l = 0))
      BY <1>6, <1>8, <2>2
    <3> QED BY <1>1, <3>1
  <2> QED BY <1>1, <1>2, <1>5, <1>7, <2>1, <2>2, Finding, Zenon
<1>9. CASE First[g] # g
  <2>1. WritesTo(c, 1, go, Of(g))
    BY <1>3, <1>9, WritersOf
  <2>2. ASSUME NEW d \in Nat, NEW l \in Nat, NEW y, WritesTo(d, l, go, y), Done(at, d, l)
        PROVE  8 * d + l <= 8 * c + 1
    <3>1. l \in 0..2 /\ (d < c \/ (d = c /\ l \in 0..1))
      BY <1>6, <2>2
    <3> QED BY <1>1, <3>1
  <2> QED BY <1>1, <1>2, <1>5, <1>7, <2>1, <2>2, Finding
<1> QED BY <1>8, <1>9

(* go: O divided, when it goes out.                                        *)
LEMMA DividedFound ==
    ASSUME NEW P \in Pipes, NEW p, NEW at, Ready(P, p, at),
           NEW c, c = Cycle(p), Step(p) = 5, IsOutput(c),
           NEW g, g = FoldedAt(c)
    PROVE  ub[go] = <<g, 1>>
<1> PICK nx : nx = Moved(P, p, at)
  OBVIOUS
<1>1. c \in Nat /\ Done(nx, c, 5) /\ AllPlaces(at)
  <2>1. c \in Nat /\ Done(Moved(P, p, at), c, Step(p))
    BY ReadyStep
  <2> QED BY <2>1 DEF Ready
<1>2. Orders(at, nx) /\ Held(at) /\ EndPlace \in Nat
  BY DEF Ready
<1>3. IsFold(c)
  BY DEF IsOutput
<1>4. Done(at, c, 2)
  BY <1>1, <1>2 DEF Orders
<1>5. ASSUME NEW d \in Nat, NEW l \in Nat, NEW y, WritesTo(d, l, go, y), Done(at, d, l)
      PROVE  8 * d + l <= 8 * c + 2
  <2>1. IsFold(d) /\ l \in 0..2
    <3>1. \/ l = 0 /\ IsFold(d) /\ First[FoldedAt(d)] = FoldedAt(d)
          \/ l = 1 /\ IsFold(d) /\ First[FoldedAt(d)] # FoldedAt(d)
          \/ l = 2 /\ IsFold(d) /\ IsOutput(d)
      BY <1>5, WritesFacts
    <3> QED BY <3>1
  <2>2. 8 * d + l < EndPlace
    BY <1>5, ReadyStep
  <2>3. 8 * d < EndPlace
    <3> PICK z : z = EndPlace
      OBVIOUS
    <3>1. z \in Nat /\ 8 * d + l < z /\ l \in 0..2
      BY <1>2, <2>1, <2>2, Zenon
    <3>2. 8 * d < z
      BY <3>1
    <3> QED BY <3>2, Zenon
  <2>4. ~(FoldedAt(c) < FoldedAt(d))
    BY <2>1, <2>3, NothingLater
  <2>5. ~(c < d)
    BY <1>1, <1>3, <2>1, <2>4, FoldOrder
  <2> QED BY <1>1, <2>1, <2>5
<1>6. WritesTo(c, 2, go, <<g, 1>>)
  BY WritersOf
<1>7. go \in Buffers /\ 2 \in Nat
  BY BufferNames
<1> QED BY <1>1, <1>2, <1>4, <1>5, <1>6, <1>7, Finding

(* lseVal: of this task.                                                   *)
LEMMA LseFound ==
    ASSUME NEW P \in Pipes, NEW p, NEW at, Ready(P, p, at),
           NEW c, c = Cycle(p), Step(p) = 2, IsChunk(c),
           NEW g, g = FoldedAt(c)
    PROVE  ub[lseVal] = Of(g)
<1> PICK o : o = RescaleCycle(g, g, 0)
  OBVIOUS
<1>1. c \in Nat /\ PipeOf(Step(p)) = "V" /\ Held(at)
  BY ReadyStep, PipeNames DEF Ready
<1>2. g \in Stacks /\ g \in Nat /\ IsLast(g) /\ Rows[g] # 0
      /\ c = 32 * g + 24 + Turn(c) /\ Turn(c) \in 1..2
  BY <1>1, OutputOf
<1>3. o \in Nat /\ IsOutput(o) /\ IsFold(o) /\ FoldedAt(o) = g /\ o = 32 * g + 24
  <2>1. First[g] <= g /\ g <= g /\ g <= g + 2 /\ 0 \in Nat /\ 0 <= 7
    BY <1>2, StackFacts
  <2>2. o \in Nat /\ IsRescale(o) /\ FoldedAt(o) = g /\ Turn(o) = 0 /\ Part(o) = g - g + 3
    BY <1>2, <2>1, RescaleAt
  <2> QED BY <1>2, <2>2 DEF IsOutput, IsFold, RescaleCycle
<1>4. ASSUME NEW d \in Nat, NEW l \in Nat, l <= 7, Present(8 * d + l), PipeOf(l) = "V"
      PROVE  Done(at, d, l) <=> 8 * d + l < 8 * c + 2
  <2>1. Done(at, d, l) <=> 8 * d + l < 8 * c + Step(p)
    BY <1>1, <1>4, SameLane, Zenon
  <2> QED BY <2>1
<1>5. Done(at, o, 3)
  <2>1. Present(8 * o + 3)
    BY <1>3, FoldPresent
  <2>2. 8 * o + 3 < 8 * c + 2 /\ 3 \in Nat /\ 3 <= 7
    BY <1>1, <1>2, <1>3
  <2> QED BY <1>3, <1>4, <2>1, <2>2, PipeNames
<1>6. WritesTo(o, 3, lseVal, Of(g))
  BY <1>3, WritersOf
<1>7. ASSUME NEW d \in Nat, NEW l \in Nat, NEW y, WritesTo(d, l, lseVal, y), Done(at, d, l)
      PROVE  8 * d + l <= 8 * o + 3
  <2>1. IsOutput(d) /\ l = 3
    BY <1>7, WritersOf
  <2> PICK s : s = StackAt(d)
    OBVIOUS
  <2>2. s \in Nat /\ d = 32 * s + 24
    <3>1. IsFold(d)
      BY <2>1 DEF IsOutput
    <3> QED BY <2>1, <3>1, FoldFacts
  <2>3. Present(8 * d + l)
    BY <1>7, WritesFacts
  <2>4. 8 * d + l < 8 * c + 2
    BY <1>4, <1>7, <2>1, <2>3, PipeNames
  <2>5. s <= g
    BY <1>1, <1>2, <2>1, <2>2, <2>4
  <2> QED BY <1>2, <1>3, <2>1, <2>2, <2>5
<1>8. lseVal \in Buffers /\ 3 \in Nat
  BY BufferNames
<1> QED BY <1>1, <1>3, <1>5, <1>6, <1>7, <1>8, Finding

(* lseStage: the chunk, when it goes out.  Between tasks pvReady has kept  *)
(* the next chunks away, inside a task there are as many banks as chunks.  *)
LEMMA ChunkFound ==
    ASSUME NEW P \in Pipes, NEW p, NEW at, Ready(P, p, at),
           NEW c, c = Cycle(p), Step(p) = 5, IsChunk(c),
           NEW g, g = FoldedAt(c)
    PROVE  ub[lseStage(Bank(c))] = <<g, Turn(c) - 1>>
<1> PICK nx : nx = Moved(P, p, at)
  OBVIOUS
<1>1. c \in Nat /\ Done(nx, c, 5) /\ AllPlaces(at)
  <2>1. c \in Nat /\ Done(Moved(P, p, at), c, Step(p))
    BY ReadyStep
  <2> QED BY <2>1 DEF Ready
<1>2. Orders(at, nx) /\ Held(at) /\ EndPlace \in Nat
  BY DEF Ready
<1>3. g \in Stacks /\ g \in Nat /\ c = 32 * g + 24 + Turn(c) /\ Turn(c) \in 1..2
  BY <1>1, OutputOf
<1>4. Done(at, c, 2)
  BY <1>1, <1>2 DEF Orders
<1>5. ASSUME NEW d \in Nat, IsChunk(d), Done(at, d, 2), Bank(d) = Bank(c)
      PROVE  d <= c
  <2> PICK s, o : s = FoldedAt(d) /\ o = RescaleCycle(s, s, 0)
    OBVIOUS
  <2>1. s \in Stacks /\ s \in Nat /\ IsLast(s) /\ Rows[s] # 0
        /\ d = 32 * s + 24 + Turn(d) /\ Turn(d) \in 1..2
    BY <1>5, OutputOf
  <2>2. o \in Nat /\ IsFold(o) /\ FoldedAt(o) = s /\ o = 32 * s + 24
    <3>1. First[s] <= s /\ s <= s /\ s <= s + 2 /\ 0 \in Nat /\ 0 <= 7
      BY <2>1, StackFacts
    <3>2. o \in Nat /\ IsRescale(o) /\ FoldedAt(o) = s /\ Turn(o) = 0
      BY <2>1, <3>1, RescaleAt
    <3> QED BY <2>1, <3>2 DEF IsFold, RescaleCycle
  <2>3. 8 * o < EndPlace
    <3>1. 8 * d + 2 < EndPlace
      BY <1>5, ReadyStep
    <3> PICK z : z = EndPlace
      OBVIOUS
    <3>2. z \in Nat /\ 8 * d + 2 < z
      BY <1>2, <3>1, Zenon
    <3>3. 8 * o < z
      BY <2>1, <2>2, <3>2
    <3> QED BY <3>3, Zenon
  <2>4. ~(g < s)
    BY <2>2, <2>3, NothingLater
  <2>5. d # c + 1
    BY <1>1, <1>5, NextBank
  <2> QED BY <1>3, <2>1, <2>4, <2>5
<1> PICK b : b = lseStage(Bank(c))
  OBVIOUS
<1>6. ASSUME NEW d \in Nat, NEW l \in Nat, NEW y, WritesTo(d, l, b, y), Done(at, d, l)
      PROVE  8 * d + l <= 8 * c + 2
  <2>1. IsChunk(d) /\ l = 2 /\ Bank(d) = Bank(c)
    BY <1>6 DEF WritesTo, ls, lp, dm, hm, gl, lo, go, lseVal, lseStage
  <2>2. d <= c
    BY <1>5, <1>6, <2>1
  <2> QED BY <1>1, <2>1, <2>2
<1>7. WritesTo(c, 2, b, <<g, Turn(c) - 1>>)
  BY WritersOf
<1>8. b \in Buffers /\ 2 \in Nat
  BY <1>1, BufferNames, BankFacts
<1>9. ub[b] = <<g, Turn(c) - 1>>
  BY <1>1, <1>2, <1>4, <1>6, <1>7, <1>8, Finding
<1> QED BY <1>9

(* Every instruction finds in every buffer what it is meant to find.       *)
LEMMA AllFound ==
    ASSUME NEW P \in Pipes, NEW p, NEW at, Ready(P, p, at)
    PROVE  \A r \in Code(p).reads : ub[r[1]] = r[2]
<1> PICK c, k : c = Cycle(p) /\ k = Step(p)
  OBVIOUS
<1>1. p \in Nat /\ Present(p)
  BY ReadyStep
<1>2. ASSUME NEW b, NEW x, ReadsFrom(c, k, b, x) PROVE ub[b] = x
  <2> PICK m, i, g : m = StackAt(c) /\ i = Turn(c) /\ g = FoldedAt(c)
    OBVIOUS
  <2>1. IsLoop(c) /\ k \in 1..3 => ub[ls(Half(c))] = <<m, i>>
    BY LsFound, Zenon
  <2>2. IsLoop(c) /\ k = 5 => ub[lp(Half(c))] = <<m, i>>
    BY LpFound, Zenon
  <2>3. ASSUME IsLoop(c), LastLoop(c), First[m] # m
        PROVE  /\ k = 1 => ub[hm] = Of(m - 1)
               /\ k = 4 => ub[gl] = Of(m - 1) /\ ub[dm(Slot(m))] = Of(m)
    BY <2>3, SumsFound
  <2>4. ASSUME IsFold(c), k = 1, First[g] # g
        PROVE  ub[dm(Slot(g))] = Of(g) /\ ub[lo] = Of(g) /\ ub[go] = Of(g - 1)
    <3>1. ub[dm(Slot(g))] = Of(g)
      BY <2>4, ScaleFound, Zenon
    <3>2. ub[lo] = Of(g)
      BY <2>4, PieceFound
    <3>3. ub[go] = Of(g - 1)
      BY <2>4, SoFarFound, Zenon
    <3> QED BY <3>1, <3>2, <3>3
  <2>5. IsOutput(c) /\ k \in 2..3 => ub[gl] = Of(g) /\ ub[hm] = Of(g)
    BY TotalsFound, Zenon
  <2>6. IsOutput(c) /\ k = 2 => ub[go] = Of(g)
    BY WholeFound, Zenon
  <2>7. IsOutput(c) /\ k = 5 => ub[go] = <<g, 1>>
    BY DividedFound, Zenon
  <2>8. IsChunk(c) /\ k = 2 => ub[lseVal] = Of(g)
    BY LseFound, Zenon
  <2>9. IsChunk(c) /\ k = 5 => ub[lseStage(Bank(c))] = <<g, i - 1>>
    BY ChunkFound, Zenon
  <2>10. k = 3 => k \in 2..3
    OBVIOUS
  <2> QED BY <1>2, <2>1, <2>2, <2>3, <2>4, <2>5, <2>6, <2>7, <2>8, <2>9, <2>10 DEF ReadsFrom
<1> QED BY <1>1, <1>2, MemoryUse

-----------------------------------------------------------------------------
(* A pipe executes an instruction.                                         *)
LEMMA EndPlaceFacts ==
    ASSUME scalar \in Walker, returned \in BOOLEAN
    PROVE  /\ EndPlace \in Nat /\ scalar.one \in Nat /\ scalar.two \in Nat
           /\ scalar.one <= NumStacks /\ scalar.two <= NumStacks /\ NumStacks \in Nat
<1>1. NumStacks \in Nat
  BY StackAssumption
<1>2. scalar.one \in 0..NumStacks /\ scalar.two \in 0..NumStacks
  BY DEF Walker
<1> PICK x, y : x = scalar.one /\ y = scalar.two
  OBVIOUS
<1>3. x \in Nat /\ y \in Nat /\ x <= NumStacks /\ y <= NumStacks
  BY <1>1, <1>2
<1>4. EndPlace = 64 * (3 * x + y) + (IF returned THEN 8 ELSE 0)
  BY DEF EndPlace
<1>5. EndPlace \in Nat
  BY <1>3, <1>4
<1> QED BY <1>1, <1>3, <1>5

LEMMA NextReady ==
    ASSUME Types, NEW at, At(at), NEW P \in Pipes, CanExecute(P)
    PROVE  \E p \in Nat : /\ Ready(P, p, at) /\ Head(queue[P]) = Code(p)
                          /\ Runs(Tail(queue[P]), Program, p + 1, EndPlace, Places(P))
                          /\ \A e \in Code(p).waits : events[e] > 0
<1>1. EndPlace \in Nat /\ AllPlaces(at) /\ \A Q \in Pipes : at[Q] <= EndPlace
  BY EndPlaceFacts DEF Types, At, Queues, AllPlaces
<1>2. Queues(at) /\ Counted(at) /\ Held(at) /\ Issued(at) /\ events \in [Events -> Nat]
  BY DEF At, Types
<1>3. queue[P] # <<>> /\ \A e \in Head(queue[P]).waits : events[e] > 0
  BY DEF CanExecute
<1>4. PICK p \in Nat : /\ IsNext(P, p, at) /\ Head(queue[P]) = Code(p)
                       /\ Runs(Tail(queue[P]), Program, p + 1, EndPlace, Places(P))
  BY <1>1, <1>2, <1>3, HeadIsNext, Zenon
<1>5. \A e \in Code(p).waits : events[e] > 0
  BY <1>3, <1>4
<1>6. AllPlaces(Moved(P, p, at))
  BY <1>1, <1>4, NextFacts, Zenon
<1>7. Ordered(at, at) /\ Ordered(at, Moved(P, p, at))
  <2>1. Ordered(at, at)
    BY <1>1, <1>2, NowOrdered, Zenon
  <2>2. Ordered(at, Moved(P, p, at))
    BY <1>1, <1>2, <1>4, <1>5, StepOrdered, Zenon
  <2> QED BY <2>1, <2>2
<1>8. Orders(at, at) /\ Orders(at, Moved(P, p, at))
  BY <1>1, <1>6, <1>7, OrdersHold, Zenon
<1>9. Ready(P, p, at)
  BY <1>1, <1>2, <1>4, <1>8 DEF Ready
<1> QED BY <1>4, <1>5, <1>9

(* What a pipe does next finds its content.                                *)
LEMMA InvFinds ==
    ASSUME Inv, NEW P \in Pipes, CanExecute(P)
    PROVE  \A r \in Head(queue[P]).reads : ub[r[1]] = r[2]
<1>1. PICK at : At(at)
  BY DEF Inv
<1>2. Types
  BY DEF Inv
<1>3. PICK p \in Nat : Ready(P, p, at) /\ Head(queue[P]) = Code(p)
  BY <1>1, <1>2, NextReady, Zenon
<1>4. \A r \in Code(p).reads : ub[r[1]] = r[2]
  BY <1>3, AllFound, Zenon
<1> QED BY <1>3, <1>4

LEMMA PipeStep ==
    ASSUME Inv, NEW P \in Pipes, RunPipe(P)
    PROVE  Inv'
<1>1. PICK at : At(at)
  BY DEF Inv
<1>2. Types /\ Walk
  BY DEF Inv
<1>3. CanExecute(P)
  BY DEF RunPipe, Execute
<1>4. PICK p \in Nat : /\ Ready(P, p, at) /\ Head(queue[P]) = Code(p)
                       /\ Runs(Tail(queue[P]), Program, p + 1, EndPlace, Places(P))
                       /\ \A e \in Code(p).waits : events[e] > 0
  BY <1>1, <1>2, <1>3, NextReady, Zenon
<1> PICK nx : nx = Moved(P, p, at)
  OBVIOUS
<1>5. UNCHANGED <<scalar, lseStageSeq, returned>>
  BY DEF RunPipe
<1>6. events' = [e \in Events |-> events[e] - (IF e \in Code(p).waits THEN 1 ELSE 0)
                                            + (IF e \in Code(p).sets THEN 1 ELSE 0)]
  BY <1>4 DEF RunPipe, Execute
<1>7. ub' = IF Code(p).writes = {} THEN ub
            ELSE [b \in Buffers |->
                    IF b \in {w[1] : w \in Code(p).writes}
                    THEN (CHOOSE w \in Code(p).writes : w[1] = b)[2]
                    ELSE ub[b]]
  BY <1>4 DEF RunPipe, Execute
<1>8. queue' = [queue EXCEPT ![P] = Tail(@)]
  BY DEF RunPipe, Execute
<1>9. AllPlaces(at) /\ IsNext(P, p, at) /\ EndPlace \in Nat
  BY <1>4 DEF Ready
<1>10. EndPlace' = EndPlace
  BY <1>5 DEF EndPlace
<1>11. queue' = [Q \in Pipes |-> queue'[Q]]
       /\ queue'[P] = Tail(queue[P]) /\ \A Q \in Pipes \ {P} : queue'[Q] = queue[Q]
  BY <1>2, <1>8 DEF Types
<1>12. events' \in [Events -> Nat] /\ Counted(nx)'
  BY <1>1, <1>2, <1>4, <1>6, <1>9, EventsStep DEF At, Types, Counted
<1>13. ub' = [b \in Buffers |-> ub'[b]] /\ Held(nx)'
  BY <1>2, <1>4, <1>7, HeldStep DEF Types, Held
<1>14. Queues(nx)'
  <2>1. \A Q \in Pipes : /\ at[Q] \in Nat /\ at[Q] <= EndPlace
                          /\ Runs(queue[Q], Program, at[Q], EndPlace, Places(Q))
    BY <1>1 DEF At, Queues
  <2> PICK z : z = EndPlace
    OBVIOUS
  <2>2. p < z /\ z \in Nat
    BY <1>9 DEF IsNext
  <2>3. p + 1 \in Nat /\ p + 1 <= z
    BY <2>2
  <2>4. nx[P] = p + 1 /\ \A Q \in Pipes \ {P} : nx[Q] = at[Q]
    BY DEF Moved
  <2>5. \A Q \in Pipes : /\ nx[Q] \in Nat /\ nx[Q] <= z
                          /\ Runs(queue'[Q], Program, nx[Q], z, Places(Q))
    <3>1. nx[P] \in Nat /\ nx[P] <= z /\ Runs(queue'[P], Program, nx[P], z, Places(P))
      BY <1>4, <1>11, <2>3, <2>4, Zenon
    <3>2. ASSUME NEW Q \in Pipes \ {P}
          PROVE  nx[Q] \in Nat /\ nx[Q] <= z /\ Runs(queue'[Q], Program, nx[Q], z, Places(Q))
      BY <1>11, <2>1, <2>4, <3>2, Zenon
    <3> QED BY <3>1, <3>2, Zenon
  <2>6. z = EndPlace'
    BY <1>10
  <2> QED BY <2>5, <2>6, Zenon DEF Queues
<1>15. Issued(nx)'
  <2>1. at["MTE3"] <= nx["MTE3"] /\ at["MTE3"] \in Nat /\ nx["MTE3"] \in Nat
    BY <1>9, NextFacts, PipeNames DEF AllPlaces
  <2>2. ASSUME NEW c \in Rescales, 8 * c < EndPlace
        PROVE  8 * (32 * FoldedAt(c) + 7) + 5 < nx["MTE3"]
    <3>1. 8 * (32 * FoldedAt(c) + 7) + 5 < at["MTE3"]
      BY <1>1, <2>2 DEF At, Issued
    <3>2. FoldedAt(c) \in Nat
      BY <2>2, FoldFacts DEF Rescales
    <3> QED BY <2>1, <3>1, <3>2
  <2> QED BY <1>10, <2>2 DEF Issued
<1>16. Types'
  BY <1>2, <1>5, <1>11, <1>12, <1>13 DEF Types
<1>17. Walk'
  BY <1>2, <1>5 DEF Walk
<1> QED BY <1>12, <1>13, <1>14, <1>15, <1>16, <1>17 DEF Inv, At

-----------------------------------------------------------------------------
(* What the scalar unit issues.  Code of whole cycles.                     *)
PresentIn(c, k) ==
    \/ IsLoop(c) /\ k \in 0..5
    \/ IsReady(c) /\ k = 5
    \/ IsFold(c) /\ k \in {0, 1}
    \/ IsOutput(c) /\ k \in {2, 3, 5}
    \/ IsChunk(c) /\ k \in {2, 5}
    \/ c = LastCycle /\ k \in {0, 2}
InCycle(c, P, f, n) ==
    \A k \in 0..7 : PresentIn(c, k) /\ PipeOf(k) = P <=> f <= k /\ k < f + n
Empty(P, a, b) == \A c \in a..b-1 : InCycle(c, P, 0, 0)
CyclesRun(code, P, a, b) == Runs(code, Program, 8 * a, 8 * b, Places(P))

LEMMA PlaceIn ==
    ASSUME NEW c \in Nat, NEW k \in Nat, k <= 7, NEW P
    PROVE  8 * c + k \in Places(P) <=> PresentIn(c, k) /\ PipeOf(k) = P
<1> PICK p : p = 8 * c + k
  OBVIOUS
<1>1. p \in Nat /\ Cycle(p) = c /\ Step(p) = k
  BY PlaceOf
<1>2. Present(p) <=> PresentIn(c, k)
  BY <1>1 DEF Present, PresentIn
<1> QED BY <1>1, <1>2 DEF Places

LEMMA PlaceKind ==
    ASSUME NEW P, NEW x \in Places(P), NEW c, c = Cycle(x), NEW k, k = Step(x)
    PROVE  x \in Nat /\ PresentIn(c, k) /\ PipeOf(k) = P
  BY DEF Places, Present, PresentIn

LEMMA EmptyPlaces ==
    ASSUME NEW P, NEW a \in Nat, NEW b \in Nat, Empty(P, a, b)
    PROVE  \A x \in Places(P) : ~(8 * a <= x /\ x < 8 * b)
<1> SUFFICES ASSUME NEW x \in Places(P), 8 * a <= x, x < 8 * b PROVE FALSE
  OBVIOUS
<1>1. x \in Nat
  BY DEF Places
<1> PICK c, k : c = Cycle(x) /\ k = Step(x)
  OBVIOUS
<1>2. c \in Nat /\ k \in 0..7 /\ x = 8 * c + k
  BY <1>1, PlaceSplit
<1>3. c \in a..b-1
  BY <1>1, <1>2
<1>4. InCycle(c, P, 0, 0)
  BY <1>3 DEF Empty
<1>5. PresentIn(c, k) /\ PipeOf(k) = P
  BY PlaceKind
<1>6. 0 <= k /\ k < 0 + 0
  BY <1>2, <1>4, <1>5 DEF InCycle
<1> QED BY <1>2, <1>6

(* The instructions of one cycle between two of its places: n of them,     *)
(* from step f on.                                                         *)
Cut(x, y, f, n, h, l) == \A k \in x..y-1 : f <= k /\ k < f + n <=> h <= k /\ k < h + l
Spells(code, n, c, f) == HasLength(code, n) /\ \A i \in 1..n : code[i] = Code(8 * c + (f + i - 1))

LEMMA PartRun ==
    ASSUME NEW c \in Nat, NEW P, NEW x \in Nat, NEW y \in Nat, x <= y, y <= 8,
           NEW f \in Nat, NEW n \in Nat, x <= f, f + n <= y,
           NEW h \in Nat, NEW l \in Nat, InCycle(c, P, h, l),
           Cut(x, y, f, n, h, l), NEW code, Spells(code, n, c, f)
    PROVE  Runs(code, Program, 8 * c + x, 8 * c + y, Places(P))
<1> PICK p, a, b : p = 8 * c + f - 1 /\ a = 8 * c + x /\ b = 8 * c + y
  OBVIOUS
<1>1. p \in Int /\ a \in Nat /\ b \in Nat /\ a <= b
  OBVIOUS
<1>2. Places(P) \subseteq Nat
  BY DEF Places
<1>3. ASSUME NEW i \in 1..n
      PROVE  p + i \in Places(P) /\ a <= p + i /\ p + i < b /\ code[i] = Program[p + i]
  <2> PICK k : k = f + i - 1
    OBVIOUS
  <2>1. k \in x..y-1 /\ k \in 0..7 /\ k \in Nat /\ k <= 7 /\ f <= k /\ k < f + n
        /\ p + i = 8 * c + k
    BY <1>1, <1>3
  <2>2. PresentIn(c, k) /\ PipeOf(k) = P
    BY <2>1, <1>3 DEF InCycle, Cut
  <2>3. 8 * c + k \in Places(P)
    BY <2>1, <2>2, PlaceIn
  <2>4. code[i] = Code(8 * c + k)
    BY <1>3 DEF Spells
  <2>5. Program[8 * c + k] = Code(8 * c + k)
    <3>1. 8 * c + k \in Nat
      BY <2>1
    <3> QED BY <3>1 DEF Program
  <2>6. a <= p + i /\ p + i < b
    BY <1>1, <2>1
  <2> QED BY <2>1, <2>3, <2>4, <2>5, <2>6
<1>4. ASSUME NEW z \in Places(P), a <= z, z < b PROVE p < z /\ z <= p + n
  <2>1. z \in Nat
    BY <1>2
  <2> PICK k : k = z - 8 * c
    OBVIOUS
  <2>2. k \in x..y-1 /\ k \in 0..7 /\ k \in Nat /\ k <= 7 /\ z = 8 * c + k
    BY <1>1, <1>4, <2>1
  <2>3. PresentIn(c, k) /\ PipeOf(k) = P
    <3>1. Cycle(8 * c + k) = c /\ Step(8 * c + k) = k
      BY <2>2, PlaceOf, Zenon
    <3> QED BY <2>2, <3>1, PlaceKind
  <2>4. h <= k /\ k < h + l
    BY <2>2, <2>3 DEF InCycle
  <2>5. f <= k /\ k < f + n
    BY <2>2, <2>4 DEF Cut
  <2> QED BY <1>1, <2>2, <2>5
<1>5. Runs(code, Program, a, b, Places(P))
  BY <1>1, <1>2, <1>3, <1>4, RunsConsecutive DEF Spells
<1> QED BY <1>5

LEMMA CycleRun ==
    ASSUME NEW c \in Nat, NEW P, NEW f \in Nat, NEW n \in Nat, f + n <= 7, InCycle(c, P, f, n),
           NEW code, HasLength(code, n),
           \A i \in 1..n : code[i] = Code(8 * c + (f + i - 1))
    PROVE  CyclesRun(code, P, c, c + 1)
<1>1. Runs(code, Program, 8 * c + 0, 8 * c + 8, Places(P))
  <2>1. 0 \in Nat /\ 8 \in Nat /\ 0 <= 8 /\ 8 <= 8 /\ 0 <= f /\ f + n <= 8
    OBVIOUS
  <2>2. Cut(0, 8, f, n, f, n) /\ Spells(code, n, c, f)
    BY DEF Cut, Spells
  <2> QED BY <2>1, <2>2, PartRun
<1>2. 8 * c + 0 = 8 * c /\ 8 * c + 8 = 8 * (c + 1)
  OBVIOUS
<1> QED BY <1>1, <1>2 DEF CyclesRun

(* Cycles of the same kind.                                                *)
LEMMA EachRuns ==
    ASSUME NEW s, NEW n \in 0..4, HasLength(s, n), NEW P, NEW b \in Nat,
           \A i \in 1..n : CyclesRun(s[i], P, b + (i - 1), b + (i - 1) + 1)
    PROVE  CyclesRun(FlattenSeq(s), P, b, b + n)
<1> DEFINE from == [i \in 0..n |-> 8 * (b + i)]
<1>1. \A i \in 0..n : from[i] \in Nat
  OBVIOUS
<1>2. ASSUME NEW i \in 1..n
      PROVE  from[i - 1] <= from[i] /\ Runs(s[i], Program, from[i - 1], from[i], Places(P))
  <2>1. i \in 0..n /\ i - 1 \in 0..n /\ b + (i - 1) + 1 = b + i
    OBVIOUS
  <2>2. from[i - 1] = 8 * (b + (i - 1)) /\ from[i] = 8 * (b + i)
    BY <2>1
  <2>3. Runs(s[i], Program, 8 * (b + (i - 1)), 8 * (b + i), Places(P))
    BY <2>1 DEF CyclesRun
  <2>4. 8 * (b + (i - 1)) <= 8 * (b + i)
    OBVIOUS
  <2> QED BY <2>2, <2>3, <2>4
<1>3. Places(P) \subseteq Nat
  BY DEF Places
<1>4. from[0] = 8 * b /\ from[n] = 8 * (b + n)
  OBVIOUS
<1> HIDE DEF from
<1>5. Runs(FlattenSeq(s), Program, from[0], from[n], Places(P))
  BY <1>1, <1>2, <1>3, FlattenRuns
<1> QED BY <1>4, <1>5 DEF CyclesRun

LEMMA JoinedRuns ==
    ASSUME NEW q, NEW r, NEW P, NEW a \in Nat, NEW b \in Nat, NEW c \in Nat, a <= b, b <= c,
           CyclesRun(q, P, a, b), CyclesRun(r, P, b, c)
    PROVE  CyclesRun(Joined(q, r), P, a, c)
<1> PICK x, y, z : x = 8 * a /\ y = 8 * b /\ z = 8 * c
  OBVIOUS
<1>1. x \in Nat /\ y \in Nat /\ z \in Nat /\ x <= y /\ y <= z /\ Places(P) \subseteq Nat
  BY DEF Places
<1>2. Runs(q, Program, x, y, Places(P)) /\ Runs(r, Program, y, z, Places(P))
  BY DEF CyclesRun
<1>3. Runs(Joined(q, r), Program, x, z, Places(P))
  BY <1>1, <1>2, RunsJoined, Zenon
<1> QED BY <1>3 DEF CyclesRun

LEMMA NothingRuns ==
    ASSUME NEW P, NEW a \in Nat, NEW b \in Nat, Empty(P, a, b)
    PROVE  CyclesRun(<<>>, P, a, b)
<1> PICK x, y : x = 8 * a /\ y = 8 * b
  OBVIOUS
<1>1. x \in Nat /\ y \in Nat /\ \A p \in Places(P) : ~(x <= p /\ p < y)
  BY EmptyPlaces
<1>2. Runs(<<>>, Program, x, y, Places(P))
  BY <1>1, RunsNothing, Zenon
<1> QED BY <1>2 DEF CyclesRun

LEMMA WiderRuns ==
    ASSUME NEW q, NEW P, NEW a \in Nat, NEW b \in Nat, NEW c \in Nat, NEW d \in Nat,
           a <= b, b <= c, c <= d, CyclesRun(q, P, b, c), Empty(P, a, b), Empty(P, c, d)
    PROVE  CyclesRun(q, P, a, d)
<1> PICK w, x, y, z : w = 8 * a /\ x = 8 * b /\ y = 8 * c /\ z = 8 * d
  OBVIOUS
<1>1. /\ w \in Nat /\ x \in Nat /\ y \in Nat /\ z \in Nat /\ w <= x /\ y <= z
      /\ Places(P) \subseteq Nat
  BY DEF Places
<1>2. \A p \in Places(P) : ~(w <= p /\ p < x)
  BY EmptyPlaces
<1>3. \A p \in Places(P) : ~(y <= p /\ p < z)
  BY EmptyPlaces
<1>4. Runs(q, Program, x, y, Places(P))
  BY DEF CyclesRun
<1>5. Runs(q, Program, w, y, Places(P))
  BY <1>1, <1>2, <1>4, RunsFrom, Zenon
<1>6. Runs(q, Program, w, z, Places(P))
  BY <1>1, <1>3, <1>5, RunsOnTo, Zenon
<1> QED BY <1>6 DEF CyclesRun

(* Which steps the pipes take in a cycle.                                  *)
Idle(c) == ~IsLoop(c) /\ ~IsReady(c) /\ ~IsFold(c) /\ ~IsChunk(c) /\ c # LastCycle

LEMMA StepPipes ==
    ASSUME NEW k \in 0..7
    PROVE  /\ PipeOf(k) = "MTE2" <=> k = 0
           /\ PipeOf(k) = "V" <=> k \in 1..4
           /\ PipeOf(k) = "MTE3" <=> k \in 5..7
  BY DEF PipeOf

LEMMA CycleSteps ==
    ASSUME NEW c \in Nat
    PROVE  /\ IsLoop(c) =>
                InCycle(c, "MTE2", 0, 1) /\ InCycle(c, "V", 1, 4) /\ InCycle(c, "MTE3", 5, 1)
           /\ IsReady(c) =>
                InCycle(c, "MTE2", 0, 0) /\ InCycle(c, "V", 0, 0) /\ InCycle(c, "MTE3", 5, 1)
           /\ IsFold(c) /\ ~IsOutput(c) =>
                InCycle(c, "MTE2", 0, 1) /\ InCycle(c, "V", 1, 1) /\ InCycle(c, "MTE3", 0, 0)
           /\ IsOutput(c) =>
                InCycle(c, "MTE2", 0, 1) /\ InCycle(c, "V", 1, 3) /\ InCycle(c, "MTE3", 5, 1)
           /\ IsChunk(c) =>
                InCycle(c, "MTE2", 0, 0) /\ InCycle(c, "V", 2, 1) /\ InCycle(c, "MTE3", 5, 1)
           /\ c = LastCycle =>
                InCycle(c, "MTE2", 0, 1) /\ InCycle(c, "V", 2, 1) /\ InCycle(c, "MTE3", 0, 0)
           /\ Idle(c) =>
                InCycle(c, "MTE2", 0, 0) /\ InCycle(c, "V", 0, 0) /\ InCycle(c, "MTE3", 0, 0)
<1>1. CASE IsLoop(c)
  <2>1. \A k : PresentIn(c, k) <=> k \in 0..5
    BY <1>1, Kinds DEF PresentIn
  <2>2. InCycle(c, "MTE2", 0, 1) /\ InCycle(c, "V", 1, 4) /\ InCycle(c, "MTE3", 5, 1)
    BY <2>1, StepPipes DEF InCycle
  <2> QED BY <1>1, <2>2, Kinds DEF Idle
<1>2. CASE IsReady(c)
  <2>1. \A k : PresentIn(c, k) <=> k = 5
    BY <1>2, Kinds DEF PresentIn
  <2>2. InCycle(c, "MTE2", 0, 0) /\ InCycle(c, "V", 0, 0) /\ InCycle(c, "MTE3", 5, 1)
    BY <2>1, StepPipes DEF InCycle
  <2> QED BY <1>2, <2>2, Kinds DEF Idle
<1>3. CASE IsFold(c) /\ ~IsOutput(c)
  <2>1. \A k : PresentIn(c, k) <=> k \in {0, 1}
    BY <1>3, Kinds DEF PresentIn
  <2>2. InCycle(c, "MTE2", 0, 1) /\ InCycle(c, "V", 1, 1) /\ InCycle(c, "MTE3", 0, 0)
    BY <2>1, StepPipes DEF InCycle
  <2> QED BY <1>3, <2>2, Kinds DEF Idle
<1>4. CASE IsOutput(c)
  <2>1. \A k : PresentIn(c, k) <=> k \in {0, 1, 2, 3, 5}
    BY <1>4, Kinds DEF PresentIn
  <2>2. InCycle(c, "MTE2", 0, 1) /\ InCycle(c, "V", 1, 3) /\ InCycle(c, "MTE3", 5, 1)
    BY <2>1, StepPipes DEF InCycle
  <2> QED BY <1>4, <2>2, Kinds DEF Idle
<1>5. CASE IsChunk(c)
  <2>1. \A k : PresentIn(c, k) <=> k \in {2, 5}
    BY <1>5, Kinds DEF PresentIn
  <2>2. InCycle(c, "MTE2", 0, 0) /\ InCycle(c, "V", 2, 1) /\ InCycle(c, "MTE3", 5, 1)
    BY <2>1, StepPipes DEF InCycle
  <2> QED BY <1>5, <2>2, Kinds DEF Idle
<1>6. CASE c = LastCycle
  <2>1. \A k : PresentIn(c, k) <=> k \in {0, 2}
    BY <1>6, Kinds DEF PresentIn
  <2>2. InCycle(c, "MTE2", 0, 1) /\ InCycle(c, "V", 2, 1) /\ InCycle(c, "MTE3", 0, 0)
    BY <2>1, StepPipes DEF InCycle
  <2> QED BY <1>6, <2>2, Kinds DEF Idle
<1>7. CASE Idle(c)
  <2>1. \A k : ~PresentIn(c, k)
    BY <1>7, Kinds DEF PresentIn, Idle
  <2>2. InCycle(c, "MTE2", 0, 0) /\ InCycle(c, "V", 0, 0) /\ InCycle(c, "MTE3", 0, 0)
    BY <2>1 DEF InCycle
  <2> QED BY <1>7, <2>2, Kinds DEF Idle
<1> QED BY <1>1, <1>2, <1>3, <1>4, <1>5, <1>6, <1>7 DEF Idle

LEMMA IdleEmpty ==
    ASSUME NEW a \in Nat, NEW b \in Nat, \A c \in a..b-1 : Idle(c), NEW P \in Pipes
    PROVE  Empty(P, a, b)
<1>1. ASSUME NEW c \in a..b-1 PROVE InCycle(c, P, 0, 0)
  <2>1. c \in Nat /\ Idle(c)
    OBVIOUS
  <2> QED BY <2>1, CycleSteps DEF Pipes
<1> QED BY <1>1 DEF Empty

(* One instruction, and two after each other.                              *)
LEMMA CodeLengths ==
    /\ \A a : HasLength(<<a>>, 1) /\ <<a>>[1] = a
    /\ \A a, b : HasLength(<<a, b>>, 2) /\ <<a, b>>[1] = a /\ <<a, b>>[2] = b
    /\ \A a, b, c, d : /\ HasLength(<<a, b, c, d>>, 4)
                       /\ <<a, b, c, d>>[1] = a /\ <<a, b, c, d>>[2] = b
                       /\ <<a, b, c, d>>[3] = c /\ <<a, b, c, d>>[4] = d
    /\ HasLength(<<>>, 0)
  BY DEF HasLength

-----------------------------------------------------------------------------
(* The softmax of a stack.                                                 *)
LEMMA LoopRuns ==
    ASSUME NEW m \in Stacks, NEW i \in Nat, i < rowLoopNum(m), NEW c, c = CycleAt(m, 0, i)
    PROVE  /\ c \in Nat /\ c = 32 * m + i
           /\ CyclesRun(<<LoopCode(m, i, 0)>>, "MTE2", c, c + 1)
           /\ CyclesRun(<<LoopCode(m, i, 1), LoopCode(m, i, 2), LoopCode(m, i, 3),
                          LoopCode(m, i, 4)>>, "V", c, c + 1)
           /\ CyclesRun(<<LoopCode(m, i, 5)>>, "MTE3", c, c + 1)
<1>1. m \in Nat /\ rowLoopNum(m) \in 0..4
  BY StackFacts, LoopCounts
<1>2. i <= 7 /\ 0 \in Nat /\ 0 <= 3
  BY <1>1
<1>3. c \in Nat /\ StackAt(c) = m /\ Part(c) = 0 /\ Turn(c) = i
  BY <1>1, <1>2, CycleOf
<1>4. IsLoop(c)
  BY <1>3 DEF IsLoop
<1>5. c = 32 * m + i
  BY <1>1 DEF CycleAt
<1>6. ASSUME NEW k \in Nat, k <= 7 PROVE Code(8 * c + k) = LoopCode(m, i, k)
  <2> PICK p : p = 8 * c + k
    OBVIOUS
  <2>1. p \in Nat /\ Cycle(p) = c /\ Step(p) = k
    BY <1>3, <1>6, PlaceOf
  <2>2. Code(p) = LoopCode(m, i, k)
    BY <1>3, <1>4, <2>1, CodeOf
  <2> QED BY <2>2
<1>7. InCycle(c, "MTE2", 0, 1) /\ InCycle(c, "V", 1, 4) /\ InCycle(c, "MTE3", 5, 1)
  BY <1>3, <1>4, CycleSteps
<1>8. CyclesRun(<<LoopCode(m, i, 0)>>, "MTE2", c, c + 1)
  <2> PICK code : code = <<LoopCode(m, i, 0)>>
    OBVIOUS
  <2>1. HasLength(code, 1) /\ \A j \in 1..1 : code[j] = Code(8 * c + (0 + j - 1))
    BY <1>6, CodeLengths
  <2>2. 0 \in Nat /\ 1 \in Nat /\ 0 + 1 <= 7
    OBVIOUS
  <2> QED BY <1>3, <1>7, <2>1, <2>2, CycleRun
<1>9. CyclesRun(<<LoopCode(m, i, 1), LoopCode(m, i, 2), LoopCode(m, i, 3),
                  LoopCode(m, i, 4)>>, "V", c, c + 1)
  <2> PICK code : code = <<LoopCode(m, i, 1), LoopCode(m, i, 2), LoopCode(m, i, 3),
                           LoopCode(m, i, 4)>>
    OBVIOUS
  <2>1. HasLength(code, 4) /\ \A j \in 1..4 : code[j] = LoopCode(m, i, j)
    BY CodeLengths
  <2>2. ASSUME NEW j \in 1..4 PROVE code[j] = Code(8 * c + (1 + j - 1))
    <3>1. 1 + j - 1 = j /\ j \in Nat /\ j <= 7
      OBVIOUS
    <3> QED BY <1>6, <2>1, <3>1
  <2>3. 1 \in Nat /\ 4 \in Nat /\ 1 + 4 <= 7
    OBVIOUS
  <2> QED BY <1>3, <1>7, <2>1, <2>2, <2>3, CycleRun
<1>10. CyclesRun(<<LoopCode(m, i, 5)>>, "MTE3", c, c + 1)
  <2> PICK code : code = <<LoopCode(m, i, 5)>>
    OBVIOUS
  <2>1. HasLength(code, 1) /\ \A j \in 1..1 : code[j] = Code(8 * c + (5 + j - 1))
    BY <1>6, CodeLengths
  <2>2. 5 \in Nat /\ 1 \in Nat /\ 5 + 1 <= 7
    OBVIOUS
  <2> QED BY <1>3, <1>7, <2>1, <2>2, CycleRun
<1> QED BY <1>3, <1>5, <1>8, <1>9, <1>10

ReadyCode == Instruction({}, {}, {}, {softmaxReady})

LEMMA ReadyRuns ==
    ASSUME NEW m \in Stacks
    PROVE  CyclesRun(<<ReadyCode>>, "MTE3", 32 * m + 7, 32 * m + 8)
<1> PICK c : c = CycleAt(m, 0, 7)
  OBVIOUS
<1>1. m \in Nat
  BY StackFacts
<1>2. c \in Nat /\ StackAt(c) = m /\ Part(c) = 0 /\ Turn(c) = 7
  BY <1>1, CycleOf
<1>3. IsReady(c)
  BY <1>2 DEF IsReady
<1>4. c = 32 * m + 7 /\ c + 1 = 32 * m + 8
  BY <1>1 DEF CycleAt
<1>5. Code(8 * c + 5) = ReadyCode
  <2> PICK p : p = 8 * c + 5
    OBVIOUS
  <2>1. p \in Nat /\ Cycle(p) = c /\ Step(p) = 5
    BY <1>2 DEF Cycle, Step
  <2>2. Code(p) = ReadyCode
    <3>1. ~IsLoop(c)
      BY <1>2, <1>3, Kinds
    <3> QED BY <1>3, <2>1, <3>1 DEF ReadyCode, Code
  <2> QED BY <2>2
<1>6. InCycle(c, "MTE3", 5, 1)
  BY <1>2, <1>3, CycleSteps
<1> PICK code : code = <<ReadyCode>>
  OBVIOUS
<1>7. HasLength(code, 1) /\ \A j \in 1..1 : code[j] = Code(8 * c + (5 + j - 1))
  BY <1>5, CodeLengths
<1>8. 5 \in Nat /\ 1 \in Nat /\ 5 + 1 <= 7
  OBVIOUS
<1>9. CyclesRun(code, "MTE3", c, c + 1)
  BY <1>2, <1>6, <1>7, <1>8, CycleRun
<1> QED BY <1>4, <1>9

(* The cycles of a softmax that no row loop needs.                         *)
LEMMA SpareCycles ==
    ASSUME NEW m \in Stacks, NEW c \in Nat, 32 * m + rowLoopNum(m) <= c, c < 32 * m + 7
    PROVE  Idle(c)
<1> PICK i, n : i = c - 32 * m /\ n = rowLoopNum(m)
  OBVIOUS
<1>1. m \in Nat /\ n \in 0..4 /\ m < NumStacks /\ NumStacks \in Nat
  BY StackFacts, LoopCounts
<1>2. i \in Nat /\ i <= 7 /\ i < 7 /\ n <= i
  BY <1>1
<1>3. c = CycleAt(m, 0, i)
  BY <1>1, <1>2 DEF CycleAt
<1>4. StackAt(c) = m /\ Part(c) = 0 /\ Turn(c) = i
  <2>1. StackAt(CycleAt(m, 0, i)) = m /\ Part(CycleAt(m, 0, i)) = 0 /\ Turn(CycleAt(m, 0, i)) = i
    BY <1>1, <1>2, CycleOf
  <2> QED BY <1>3, <2>1
<1>5. ~IsLoop(c)
  BY <1>1, <1>2, <1>4 DEF IsLoop
<1>6. ~IsReady(c)
  BY <1>2, <1>4 DEF IsReady
<1>7. ~IsFold(c) /\ ~IsChunk(c)
  BY <1>4 DEF IsFold, IsChunk, IsRescale
<1>8. c # LastCycle
  BY <1>1, <1>2 DEF LastCycle
<1> QED BY <1>5, <1>6, <1>7, <1>8 DEF Idle

LEMMA SoftmaxRuns ==
    ASSUME NEW m \in Stacks, NEW b \in Nat, b = 32 * m, NEW n, n = rowLoopNum(m)
    PROVE  /\ n \in 0..4
           /\ CyclesRun(SoftmaxLoad(m), "MTE2", b, b + n)
           /\ CyclesRun(SoftmaxVector(m), "V", b, b + n)
           /\ CyclesRun(SoftmaxStore(m), "MTE3", b, b + 8)
<1>1. n \in 0..4
  BY LoopCounts
<1>2. ASSUME NEW i \in 1..n
      PROVE  /\ CyclesRun(<<LoopCode(m, i - 1, 0)>>, "MTE2", b + (i - 1), b + (i - 1) + 1)
             /\ CyclesRun(<<LoopCode(m, i - 1, 1), LoopCode(m, i - 1, 2), LoopCode(m, i - 1, 3),
                            LoopCode(m, i - 1, 4)>>, "V", b + (i - 1), b + (i - 1) + 1)
             /\ CyclesRun(<<LoopCode(m, i - 1, 5)>>, "MTE3", b + (i - 1), b + (i - 1) + 1)
  <2> PICK j, c : j = i - 1 /\ c = CycleAt(m, 0, j)
    OBVIOUS
  <2>1. j \in Nat /\ j < rowLoopNum(m)
    BY <1>1
  <2>2. /\ c = 32 * m + j
        /\ CyclesRun(<<LoopCode(m, j, 0)>>, "MTE2", c, c + 1)
        /\ CyclesRun(<<LoopCode(m, j, 1), LoopCode(m, j, 2), LoopCode(m, j, 3),
                       LoopCode(m, j, 4)>>, "V", c, c + 1)
        /\ CyclesRun(<<LoopCode(m, j, 5)>>, "MTE3", c, c + 1)
    BY <2>1, LoopRuns
  <2>3. c = b + j
    BY <2>2
  <2> QED BY <2>2, <2>3
<1> PICK load : load = [i \in 1..n |-> <<LoopCode(m, i - 1, 0)>>]
  OBVIOUS
<1> PICK vector : vector = [i \in 1..n |-> <<LoopCode(m, i - 1, 1), LoopCode(m, i - 1, 2),
                                             LoopCode(m, i - 1, 3), LoopCode(m, i - 1, 4)>>]
  OBVIOUS
<1> PICK store : store = [i \in 1..n |-> <<LoopCode(m, i - 1, 5)>>]
  OBVIOUS
<1>3. HasLength(load, n) /\ HasLength(vector, n) /\ HasLength(store, n)
  BY <1>1 DEF HasLength
<1>4. SoftmaxLoad(m) = FlattenSeq(load)
  BY DEF SoftmaxLoad, Each, LoopCode
<1>5. SoftmaxVector(m) = FlattenSeq(vector)
  BY DEF SoftmaxVector, Each, LoopCode
<1>6. SoftmaxStore(m) = Joined(FlattenSeq(store), <<ReadyCode>>)
  BY DEF SoftmaxStore, Each, LoopCode, Joined, ReadyCode
<1>7. CyclesRun(FlattenSeq(load), "MTE2", b, b + n)
  <2>1. \A i \in 1..n : CyclesRun(load[i], "MTE2", b + (i - 1), b + (i - 1) + 1)
    BY <1>2
  <2> QED BY <1>1, <1>3, <2>1, EachRuns
<1>8. CyclesRun(FlattenSeq(vector), "V", b, b + n)
  <2>1. \A i \in 1..n : CyclesRun(vector[i], "V", b + (i - 1), b + (i - 1) + 1)
    BY <1>2
  <2> QED BY <1>1, <1>3, <2>1, EachRuns
<1>9. CyclesRun(FlattenSeq(store), "MTE3", b, b + n)
  <2>1. \A i \in 1..n : CyclesRun(store[i], "MTE3", b + (i - 1), b + (i - 1) + 1)
    BY <1>2
  <2> QED BY <1>1, <1>3, <2>1, EachRuns
<1>10. CyclesRun(FlattenSeq(store), "MTE3", b, b + 7)
  <2>1. Empty("MTE3", b + n, b + 7)
    <3>1. \A c \in b+n..(b+7)-1 : Idle(c)
      BY <1>1, SpareCycles
    <3>2. b + n \in Nat /\ b + 7 \in Nat
      BY <1>1
    <3> QED BY <3>1, <3>2, IdleEmpty, PipeNames
  <2>2. Empty("MTE3", b, b)
    BY DEF Empty
  <2>3. b + n \in Nat /\ b + 7 \in Nat /\ b <= b /\ b <= b + n /\ b + n <= b + 7
    BY <1>1
  <2> QED BY <1>9, <2>1, <2>2, <2>3, WiderRuns
<1>11. CyclesRun(Joined(FlattenSeq(store), <<ReadyCode>>), "MTE3", b, b + 8)
  <2>1. CyclesRun(<<ReadyCode>>, "MTE3", b + 7, b + 8)
    BY ReadyRuns
  <2>2. b + 7 \in Nat /\ b + 8 \in Nat /\ b <= b + 7 /\ b + 7 <= b + 8
    OBVIOUS
  <2> QED BY <1>10, <2>1, <2>2, JoinedRuns, Zenon
<1> QED BY <1>1, <1>4, <1>5, <1>6, <1>7, <1>8, <1>11

(* The calls between which the softmax of a stack lies are not there.      *)
LEMMA SoftmaxAlone ==
    ASSUME scalar \in Walker, Walk, Stage1Due(scalar),
           NEW m, m = scalar.one, NEW t, t = scalar.two,
           NEW c \in Nat, 24 * m + 8 * t <= c, c < 24 * m + 8 * t + 24,
           c < 32 * m \/ 32 * m + 8 <= c
    PROVE  Idle(c)
<1>1. m \in Nat /\ t \in Nat /\ m < NumStacks /\ NumStacks \in Nat /\ m \in Stacks
  <2>1. scalar.one \in 0..NumStacks /\ scalar.two \in 0..NumStacks
    BY DEF Walker
  <2> QED BY <2>1, StackAssumption DEF Stage1Due, Stacks
<1>2. t <= m /\ m <= t + 2 /\ First[m] <= t
  <2>1. scalar.two <= scalar.one
    BY DEF Walk
  <2>2. First[scalar.one] <= scalar.two /\ scalar.one - scalar.two <= 2
    BY DEF Stage1Due, PreLaunch
  <2> QED BY <1>1, <2>1, <2>2
<1>3. m > 0 => /\ First[m - 1] <= t
               /\ IsLast(m - 1) \/ t <= First[m - 1] \/ t <= m - 2
  BY DEF Walk
<1>4. ASSUME c = 32 * StackAt(c) + Turn(c), StackAt(c) \in Stacks, Turn(c) \in 0..7
      PROVE  FALSE
  <2> PICK s, i : s = StackAt(c) /\ i = Turn(c)
    OBVIOUS
  <2>1. s \in Nat /\ i \in 0..7 /\ c = 32 * s + i
    BY <1>4, StackFacts
  <2>2. s = m
    BY <1>1, <1>2, <2>1
  <2> QED BY <1>1, <2>1, <2>2
<1>5. ~IsLoop(c)
  <2> SUFFICES ASSUME IsLoop(c) PROVE FALSE
    OBVIOUS
  <2>1. StackAt(c) \in Stacks /\ Turn(c) \in 0..3 /\ c = 32 * StackAt(c) + Turn(c)
    BY LoopFacts
  <2> QED BY <1>4, <2>1
<1>6. ~IsReady(c)
  <2> SUFFICES ASSUME IsReady(c) PROVE FALSE
    OBVIOUS
  <2>1. StackAt(c) \in Stacks /\ Turn(c) = 7 /\ c = 32 * StackAt(c) + 7
    BY ReadyFacts
  <2> QED BY <1>4, <2>1
<1>7. ~IsRescale(c)
  <2> SUFFICES ASSUME IsRescale(c) PROVE FALSE
    OBVIOUS
  <2> PICK s, g, i : s = StackAt(c) /\ g = FoldedAt(c) /\ i = Turn(c)
    OBVIOUS
  <2>1. /\ s \in Stacks /\ g \in Stacks /\ First[s] <= g /\ g <= s /\ s <= g + 2
        /\ g = s - 2 \/ IsLast(s)
        /\ i \in 0..7
    BY RescaleFacts
  <2>2. c = 24 * s + 8 * g + 24 + i
    <3>1. c = RescaleCycle(s, g, i)
      BY RescaleFacts
    <3>2. s \in Nat /\ g \in Nat
      BY <2>1, StackFacts
    <3> QED BY <2>1, <3>1, <3>2 DEF RescaleCycle
  <2>3. s \in Nat /\ g \in Nat /\ First[s] \in Nat
        /\ \A h \in First[s]..s : h \in Stacks /\ First[h] = First[s]
    BY <2>1, StackFacts
  <2>4. s = m \/ s = m - 1
    BY <1>1, <1>2, <2>1, <2>2, <2>3
  <2>5. CASE s = m - 1
    <3>1. g # s - 2
      BY <1>1, <1>2, <2>1, <2>2, <2>3, <2>5
    <3>2. IsLast(s)
      BY <2>1, <3>1
    <3>3. First[m] = m
      BY <1>1, <2>5, <3>2 DEF IsLast
    <3> QED BY <1>1, <1>2, <2>1, <2>2, <2>3, <2>5, <3>3
  <2>6. CASE s = m
    <3>1. g < t
      BY <1>1, <1>2, <2>1, <2>2, <2>3, <2>6
    <3>2. First[m] <= g /\ g < m /\ m > 0
      BY <1>1, <1>2, <2>1, <2>3, <2>6, <3>1
    <3>3. m - 1 \in First[s]..s /\ m - 1 \in Stacks /\ First[m - 1] = First[m]
      BY <1>1, <2>3, <2>6, <3>2
    <3>4. ~IsLast(m - 1)
      <4>1. First[m] # m
        BY <1>1, <2>3, <3>2
      <4> QED BY <1>1, <4>1 DEF IsLast
    <3>5. t <= First[m] \/ t <= m - 2
      BY <1>3, <3>2, <3>3, <3>4
    <3>6. First[m] \in Nat
      BY <2>3, <2>6
    <3>7. t <= m - 2
      BY <1>1, <2>3, <3>1, <3>2, <3>5, <3>6
    <3> QED BY <1>1, <1>2, <2>1, <2>3, <2>6, <3>1, <3>7
  <2> QED BY <2>4, <2>5, <2>6
<1>8. c # LastCycle
  BY <1>1, <1>2 DEF LastCycle
<1> QED BY <1>5, <1>6, <1>7, <1>8 DEF Idle, IsFold, IsChunk

LEMMA SoftmaxOnly ==
    ASSUME scalar \in Walker, Walk, Stage1Due(scalar),
           NEW m, m = scalar.one, NEW t, t = scalar.two,
           NEW c \in Nat, 24 * m + 8 * t <= c, c < 24 * m + 8 * t + 24
    PROVE  ~IsFold(c) /\ ~IsChunk(c)
<1>1. m \in Nat
  BY DEF Walker
<1>2. CASE c < 32 * m \/ 32 * m + 8 <= c
  BY <1>2, SoftmaxAlone DEF Idle
<1>3. CASE ~(c < 32 * m \/ 32 * m + 8 <= c)
  <2> PICK i : i = c - 32 * m
    OBVIOUS
  <2>1. i \in Nat /\ i <= 7 /\ c = 32 * m + i
    BY <1>1, <1>3
  <2>2. Part(c) = 0
    <3>1. c = CycleAt(m, 0, i)
      BY <1>1, <2>1 DEF CycleAt
    <3>2. Part(CycleAt(m, 0, i)) = 0
      BY <1>1, <2>1, CycleOf
    <3> QED BY <3>1, <3>2
  <2> QED BY <2>2 DEF IsFold, IsChunk, IsRescale
<1> QED BY <1>2, <1>3

-----------------------------------------------------------------------------
(* A call goes to the queues.                                              *)
EndsAt(a) == EndPlace = 8 * a

LEMMA IssueQueues ==
    ASSUME NEW x, NEW y, NEW z, IssueTo(x, y, z)
    PROVE  /\ queue' = [P \in Pipes |-> queue'[P]]
           /\ queue'["MTE2"] = Joined(queue["MTE2"], x)
           /\ queue'["V"] = Joined(queue["V"], y)
           /\ queue'["MTE3"] = Joined(queue["MTE3"], z)
<1> PICK program : program = [MTE2 |-> x, V |-> y, MTE3 |-> z]
  OBVIOUS
<1>1. DOMAIN program = Pipes
      /\ program["MTE2"] = x /\ program["V"] = y /\ program["MTE3"] = z
  BY DEF Pipes
<1>2. queue' = [P \in Pipes |-> IF P \in DOMAIN program THEN Joined(queue[P], program[P])
                                ELSE queue[P]]
  BY DEF IssueTo, Issue, Joined
<1>3. queue' = [P \in Pipes |-> Joined(queue[P], program[P])]
  BY <1>1, <1>2
<1> QED BY <1>1, <1>3, PipeNames

LEMMA QueueIssued ==
    ASSUME NEW P, NEW q, NEW code, NEW i \in Nat, NEW e \in Nat, i <= e,
           NEW a \in Nat, NEW b \in Nat, a <= b, e = 8 * a,
           Runs(q, Program, i, e, Places(P)), CyclesRun(code, P, a, b)
    PROVE  Runs(Joined(q, code), Program, i, 8 * b, Places(P))
<1> PICK f : f = 8 * b
  OBVIOUS
<1>1. f \in Nat /\ e <= f /\ Places(P) \subseteq Nat
  BY DEF Places
<1>2. Runs(code, Program, e, f, Places(P))
  BY DEF CyclesRun
<1>3. Runs(Joined(q, code), Program, i, f, Places(P))
  BY <1>1, <1>2, RunsJoined, Zenon
<1> QED BY <1>3

LEMMA QueuesIssued ==
    ASSUME NEW at, Queues(at), NEW a \in Nat, NEW b \in Nat, a <= b, EndsAt(a), EndsAt(b)',
           NEW x, NEW y, NEW z, IssueTo(x, y, z),
           CyclesRun(x, "MTE2", a, b), CyclesRun(y, "V", a, b), CyclesRun(z, "MTE3", a, b)
    PROVE  queue' = [P \in Pipes |-> queue'[P]] /\ Queues(at)'
<1> PICK e, f : e = 8 * a /\ f = 8 * b
  OBVIOUS
<1>1. e \in Nat /\ f \in Nat /\ e <= f /\ EndPlace = e /\ EndPlace' = f
  BY DEF EndsAt
<1>2. \A P \in Pipes : /\ at[P] \in Nat /\ at[P] <= e
                       /\ Runs(queue[P], Program, at[P], e, Places(P))
  BY <1>1 DEF Queues
<1>3. ASSUME NEW P \in Pipes, NEW code, CyclesRun(code, P, a, b)
      PROVE  Runs(Joined(queue[P], code), Program, at[P], f, Places(P))
  <2> PICK i, q : i = at[P] /\ q = queue[P]
    OBVIOUS
  <2>1. i \in Nat /\ i <= e /\ Runs(q, Program, i, e, Places(P))
    BY <1>2
  <2>2. Runs(Joined(q, code), Program, i, f, Places(P))
    BY <1>1, <1>3, <2>1, QueueIssued
  <2> QED BY <2>2
<1>4. \A P \in Pipes : Runs(queue'[P], Program, at[P], f, Places(P))
  <2>1. Runs(queue'["MTE2"], Program, at["MTE2"], f, Places("MTE2"))
    BY <1>3, IssueQueues, PipeNames
  <2>2. Runs(queue'["V"], Program, at["V"], f, Places("V"))
    BY <1>3, IssueQueues, PipeNames
  <2>3. Runs(queue'["MTE3"], Program, at["MTE3"], f, Places("MTE3"))
    BY <1>3, IssueQueues, PipeNames
  <2> QED BY <2>1, <2>2, <2>3 DEF Pipes
<1>5. \A P \in Pipes : at[P] \in Nat /\ at[P] <= f
  BY <1>1, <1>2
<1>6. Queues(at)'
  BY <1>1, <1>4, <1>5 DEF Queues
<1> QED BY <1>6, IssueQueues

(* Nothing to issue.                                                       *)
LEMMA QueuesWait ==
    ASSUME NEW at, Queues(at), NEW a \in Nat, NEW b \in Nat, a <= b, EndsAt(a), EndsAt(b)',
           queue' = queue, \A P \in Pipes : Empty(P, a, b)
    PROVE  Queues(at)'
<1> PICK e, f : e = 8 * a /\ f = 8 * b
  OBVIOUS
<1>1. e \in Nat /\ f \in Nat /\ e <= f /\ EndPlace = e /\ EndPlace' = f
  BY DEF EndsAt
<1>2. ASSUME NEW P \in Pipes
      PROVE  /\ at[P] \in Nat /\ at[P] <= f
             /\ Runs(queue[P], Program, at[P], f, Places(P))
  <2> PICK i, q : i = at[P] /\ q = queue[P]
    OBVIOUS
  <2>1. i \in Nat /\ i <= e /\ Runs(q, Program, i, e, Places(P))
    BY <1>1 DEF Queues
  <2>2. \A x \in Places(P) : ~(e <= x /\ x < f)
    BY EmptyPlaces
  <2>3. Places(P) \subseteq Nat
    BY DEF Places
  <2>4. Runs(q, Program, i, f, Places(P))
    BY <1>1, <2>1, <2>2, <2>3, RunsOnTo, Zenon
  <2> QED BY <1>1, <2>1, <2>4
<1> QED BY <1>1, <1>2 DEF Queues

(* The scalar unit issues a softmax.                                       *)
LEMMA CallsFacts ==
    ASSUME scalar \in Walker, NEW m, m = scalar.one, NEW t, t = scalar.two, ~returned,
           returned \in BOOLEAN
    PROVE  /\ m \in Nat /\ t \in Nat /\ m <= NumStacks /\ t <= NumStacks /\ NumStacks \in Nat
           /\ 24 * m + 8 * t \in Nat /\ EndsAt(24 * m + 8 * t)
           /\ 64 * (3 * m + t) = 8 * (24 * m + 8 * t)
<1>1. m \in Nat /\ t \in Nat /\ m <= NumStacks /\ t <= NumStacks /\ NumStacks \in Nat
  BY EndPlaceFacts
<1>2. 64 * (3 * m + t) = 8 * (24 * m + 8 * t)
  BY <1>1
<1>3. EndPlace = 64 * (3 * m + t) + 0
  BY DEF EndPlace
<1>4. EndPlace = 8 * (24 * m + 8 * t)
  BY <1>1, <1>2, <1>3
<1> QED BY <1>1, <1>2, <1>4 DEF EndsAt

LEMMA NoneIn ==
    ASSUME NEW a \in Nat, NEW b \in Nat, a <= b,
           \A c \in Nat : a <= c /\ c < b => ~IsChunk(c)
    PROVE  Count(Chunks, 0, 8 * b) = Count(Chunks, 0, 8 * a)
<1> PICK x, y : x = 8 * a /\ y = 8 * b
  OBVIOUS
<1>1. x \in Nat /\ y \in Nat /\ x <= y
  OBVIOUS
<1>2. Passed(Chunks, 0, y) = Passed(Chunks, 0, x)
  <2>1. ASSUME NEW c \in Chunks PROVE 8 * c + 0 < y <=> 8 * c + 0 < x
    <3>1. c \in Nat /\ IsChunk(c)
      BY DEF Chunks
    <3>2. ~(a <= c /\ c < b)
      BY <3>1
    <3> QED BY <3>1, <3>2
  <2> QED BY <2>1 DEF Passed
<1> QED BY <1>2 DEF Count

LEMMA SoftmaxStep ==
    ASSUME Inv, IssueSoftmax
    PROVE  Inv'
<1>1. PICK at : At(at)
  BY DEF Inv
<1>2. Types /\ Walk
  BY DEF Inv
<1>3. scalar \in Walker /\ Stage1Due(scalar)
  BY <1>2 DEF Types, IssueSoftmax
<1> PICK m, t : m = scalar.one /\ t = scalar.two
  OBVIOUS
<1> PICK a, b, n : a = 24 * m + 8 * t /\ b = a + 24 /\ n = rowLoopNum(m)
  OBVIOUS
<1>4. m \in Nat /\ t \in Nat /\ m < NumStacks /\ NumStacks \in Nat /\ m \in Stacks
      /\ t <= m /\ m <= t + 2 /\ First[m] <= t
  <2>1. scalar.one \in 0..NumStacks /\ scalar.two \in 0..NumStacks
    BY <1>3 DEF Walker
  <2>2. scalar.two <= scalar.one
    BY <1>2 DEF Walk
  <2>3. scalar.one < NumStacks /\ First[scalar.one] <= scalar.two
        /\ scalar.one - scalar.two <= 2
    BY <1>3 DEF Stage1Due, PreLaunch
  <2> QED BY <2>1, <2>2, <2>3, StackAssumption DEF Stacks
<1>5. ~returned /\ returned' = returned /\ returned \in BOOLEAN
  <2>1. ~Finished(scalar)
    BY <1>4 DEF Finished
  <2> QED BY <1>2, <2>1 DEF Walk, Types, IssueSoftmax
<1>6. scalar' = [scalar EXCEPT !.one = @ + 1]
  BY DEF IssueSoftmax
<1>7. scalar' \in Walker /\ scalar'.one = m + 1 /\ scalar'.two = t
  BY <1>3, <1>4, <1>6 DEF Walker
<1>8. a \in Nat /\ b \in Nat /\ a <= b /\ EndsAt(a) /\ 64 * (3 * m + t) = 8 * a
  <2>1. a \in Nat /\ EndsAt(a) /\ 64 * (3 * m + t) = 8 * a
    BY <1>3, <1>5, CallsFacts, Zenon
  <2> QED BY <2>1
<1>9. EndPlace' = 8 * b /\ 64 * (3 * (m + 1) + t) = 8 * b
  <2>1. 64 * (3 * (m + 1) + t) = 8 * b
    BY <1>4, <1>8
  <2>2. EndPlace' = 64 * (3 * (m + 1) + t) + 0
    BY <1>5, <1>7 DEF EndPlace
  <2> QED BY <1>4, <1>8, <2>1, <2>2
<1>10. \A c \in Nat : a <= c /\ c < b => ~IsFold(c) /\ ~IsChunk(c)
  BY <1>2, <1>3, <1>8, SoftmaxOnly
<1> PICK d, e, f : d = 32 * m /\ e = d + n /\ f = d + 8
  OBVIOUS
<1>11. /\ n \in 0..4 /\ d \in Nat /\ e \in Nat /\ f \in Nat
       /\ a <= d /\ d <= e /\ e <= b /\ d <= f /\ f <= b
  BY <1>4, <1>8, LoopCounts
<1>12. ASSUME NEW c \in Nat, a <= c, c < b, c < d \/ f <= c
       PROVE  Idle(c)
  BY <1>2, <1>3, <1>12, SoftmaxAlone
<1>13. ASSUME NEW P \in Pipes PROVE Empty(P, a, d) /\ Empty(P, f, b)
  <2>1. \A c \in a..d-1 : Idle(c)
    BY <1>8, <1>11, <1>12
  <2>2. \A c \in f..b-1 : Idle(c)
    BY <1>8, <1>11, <1>12
  <2> QED BY <1>8, <1>11, <2>1, <2>2, IdleEmpty
<1>14. ASSUME NEW P \in {"MTE2", "V"} PROVE Empty(P, e, b)
  <2>1. ASSUME NEW c \in e..b-1 PROVE InCycle(c, P, 0, 0)
    <3>1. c \in Nat /\ a <= c /\ c < b /\ e <= c
      BY <1>8, <1>11
    <3>2. CASE c = d + 7
      <4> PICK q : q = CycleAt(m, 0, 7)
        OBVIOUS
      <4>1. StackAt(q) = m /\ Part(q) = 0 /\ Turn(q) = 7
        BY <1>4, CycleOf
      <4>2. q = d + 7
        BY <1>4 DEF CycleAt
      <4>3. IsReady(c)
        BY <1>4, <3>2, <4>1, <4>2 DEF IsReady
      <4> QED BY <3>1, <4>3, CycleSteps
    <3>3. CASE c # d + 7
      <4>1. Idle(c)
        <5>1. CASE f <= c
          BY <1>12, <3>1, <5>1
        <5>2. CASE ~(f <= c)
          <6>1. 32 * m + rowLoopNum(m) <= c /\ c < 32 * m + 7
            BY <1>11, <3>1, <3>3, <5>2
          <6> QED BY <1>4, <3>1, <6>1, SpareCycles
        <5> QED BY <5>1, <5>2
      <4> QED BY <3>1, <4>1, CycleSteps
    <3> QED BY <3>2, <3>3
  <2> QED BY <2>1 DEF Empty
<1>15. /\ CyclesRun(SoftmaxLoad(m), "MTE2", a, b)
       /\ CyclesRun(SoftmaxVector(m), "V", a, b)
       /\ CyclesRun(SoftmaxStore(m), "MTE3", a, b)
  <2>1. /\ CyclesRun(SoftmaxLoad(m), "MTE2", d, e)
        /\ CyclesRun(SoftmaxVector(m), "V", d, e)
        /\ CyclesRun(SoftmaxStore(m), "MTE3", d, f)
    BY <1>4, <1>11, SoftmaxRuns
  <2>2. CyclesRun(SoftmaxLoad(m), "MTE2", a, b)
    BY <1>8, <1>11, <1>13, <1>14, <2>1, WiderRuns, PipeNames
  <2>3. CyclesRun(SoftmaxVector(m), "V", a, b)
    BY <1>8, <1>11, <1>13, <1>14, <2>1, WiderRuns, PipeNames
  <2>4. CyclesRun(SoftmaxStore(m), "MTE3", a, b)
    BY <1>8, <1>11, <1>13, <2>1, WiderRuns, PipeNames
  <2> QED BY <2>2, <2>3, <2>4
<1>16. queue' = [P \in Pipes |-> queue'[P]] /\ Queues(at)'
  <2>1. IssueTo(SoftmaxLoad(m), SoftmaxVector(m), SoftmaxStore(m))
    BY DEF IssueSoftmax
  <2>2. EndsAt(b)'
    BY <1>9 DEF EndsAt
  <2>3. Queues(at)
    BY <1>1 DEF At
  <2> QED BY <1>8, <1>15, <2>1, <2>2, <2>3, QueuesIssued
<1>17. UNCHANGED <<lseStageSeq, events, ub>>
  BY DEF IssueSoftmax
<1>18. Counted(at)' /\ Held(at)'
  BY <1>1, <1>17 DEF At, Counted, Held
<1>19. Issued(at)'
  <2>1. ASSUME NEW c \in Rescales, 8 * c < 8 * b PROVE 8 * c < 8 * a
    <3>1. c \in Nat /\ IsFold(c)
      BY DEF Rescales
    <3>2. ~(a <= c /\ c < b)
      BY <1>10, <3>1
    <3> QED BY <1>8, <2>1, <3>1, <3>2
  <2>2. EndPlace = 8 * a
    BY <1>8 DEF EndsAt
  <2> QED BY <1>1, <1>9, <2>1, <2>2 DEF At, Issued
<1>20. Walk'
  <2>1. t <= m + 1 /\ m + 1 <= t + 3 /\ m + 1 - 1 = m
    BY <1>4
  <2>2. IsLast(m) \/ t <= First[m] \/ t <= m - 1
    <3>1. CASE t = m
      <4>1. CASE m = 0
        <5>1. First[m] \in Nat
          BY <1>4, StackFacts
        <5> QED BY <3>1, <4>1, <5>1
      <4>2. CASE m # 0
        <5>1. First[m - 1] <= t
              /\ (IsLast(m - 1) \/ t <= First[m - 1] \/ t <= m - 2)
          BY <1>2, <1>4, <4>2 DEF Walk
        <5>2. First[m - 1] <= m - 1 /\ First[m - 1] \in Nat
          <6>1. ASSUME NEW x \in Nat, x < NumStacks, x # 0
                PROVE  First[x - 1] <= x - 1 /\ First[x - 1] \in Nat
            <7>1. x - 1 \in Stacks
              BY <1>4, <6>1 DEF Stacks
            <7> PICK h : h = x - 1
              OBVIOUS
            <7>2. First[h] <= h /\ First[h] \in Nat
              BY <7>1, StackFacts
            <7> QED BY <7>2
          <6> QED BY <1>4, <4>2, <6>1
        <5>3. IsLast(m - 1)
          BY <1>4, <3>1, <5>1, <5>2
        <5>4. First[m] = m
          BY <1>4, <4>2, <5>3 DEF IsLast
        <5> QED BY <1>4, <3>1, <5>4
      <4> QED BY <4>1, <4>2
    <3>2. CASE t # m
      BY <1>4, <3>2
    <3> QED BY <3>1, <3>2
  <2>3. lseStageSeq = Count(Chunks, 0, 8 * b) % 2
    <3>1. lseStageSeq = Count(Chunks, 0, 64 * (3 * m + t)) % 2
      BY <1>2 DEF Walk
    <3>2. Count(Chunks, 0, 8 * b) = Count(Chunks, 0, 8 * a)
      BY <1>8, <1>10, NoneIn
    <3> QED BY <1>8, <3>1, <3>2
  <2>4. m + 1 - 2 = m - 1 /\ m + 1 > 0
    BY <1>4
  <2>5. lseStageSeq' = Count(Chunks, 0, 64 * (3 * (m + 1) + t)) % 2
    BY <1>9, <1>17, <2>3
  <2> PICK l : l = m + 1
    OBVIOUS
  <2>6. /\ t <= l /\ l <= t + 3
        /\ First[l - 1] <= t
        /\ IsLast(l - 1) \/ t <= First[l - 1] \/ t <= l - 2
    BY <1>4, <2>1, <2>2, <2>4
  <2>7. scalar'.one = l /\ scalar'.two = t /\ ~returned'
        /\ lseStageSeq' = Count(Chunks, 0, 64 * (3 * l + t)) % 2
    BY <1>5, <1>7, <2>5
  <2> QED BY <2>6, <2>7 DEF Walk
<1>21. Types'
  BY <1>2, <1>5, <1>7, <1>16, <1>17 DEF Types
<1> QED BY <1>16, <1>18, <1>19, <1>20, <1>21 DEF Inv, At

-----------------------------------------------------------------------------
(* The rescale of a stack.                                                 *)
LEMMA RescaleDue ==
    ASSUME scalar \in Walker, Walk, Stage2Due(scalar),
           NEW m, m = scalar.one - 1, NEW g, g = scalar.two
    PROVE  /\ m \in Stacks /\ g \in Stacks /\ m \in Nat /\ g \in Nat /\ m < NumStacks
           /\ First[m] <= g /\ g <= m /\ m <= g + 2 /\ First[g] = First[m]
           /\ g = m - 2 \/ IsLast(m)
           /\ IsLast(g) <=> g = m
           /\ ~returned
<1> PICK l : l = scalar.one
  OBVIOUS
<1>1. l \in Nat /\ g \in Nat /\ l <= NumStacks /\ g <= NumStacks /\ NumStacks \in Nat
      /\ g < l /\ l <= g + 3 /\ l > 0
  <2>1. scalar.one \in 0..NumStacks /\ scalar.two \in 0..NumStacks
    BY DEF Walker
  <2>2. scalar.two < scalar.one /\ scalar.one <= scalar.two + 3
    BY DEF Walk, Stage2Due
  <2> QED BY <2>1, <2>2, StackAssumption
<1>2. First[l - 1] <= g
  BY <1>1 DEF Walk
<1>3. m = l - 1 /\ l = m + 1 /\ m \in Nat /\ m < NumStacks /\ g <= m /\ m <= g + 2
  BY <1>1
<1>4. m \in Stacks /\ g \in Stacks
  BY <1>1, <1>3 DEF Stacks
<1>5. First[m] <= g /\ First[g] = First[m]
  <2>1. First[m] <= g
    BY <1>2, <1>3
  <2>2. First[m] \in Nat /\ \A h \in First[m]..m : First[h] = First[m]
    BY <1>4, StackFacts
  <2> QED BY <1>1, <1>3, <2>1, <2>2
<1>6. g = m - 2 \/ IsLast(m)
  <2>1. ~(l < NumStacks /\ First[l] <= g /\ l - g <= 2)
    BY DEF Stage2Due, Stage1Due, PreLaunch
  <2>2. CASE l = NumStacks
    BY <1>3, <2>2 DEF IsLast
  <2>3. CASE l < NumStacks /\ ~(First[l] <= g)
    <3>1. l \in Stacks
      BY <1>1, <2>3 DEF Stacks
    <3>2. First[l] \in Nat /\ First[l] <= l /\ \A h \in First[l]..l : First[h] = First[l]
      BY <3>1, StackFacts
    <3>3. First[l] = l
      <4> SUFFICES ASSUME First[l] # l PROVE FALSE
        OBVIOUS
      <4>1. m \in First[l]..l
        BY <1>3, <3>2
      <4> QED BY <1>5, <2>3, <3>2, <4>1
    <3> QED BY <1>3, <3>3 DEF IsLast
  <2>4. CASE l - g > 2
    BY <1>1, <1>3, <2>4
  <2> QED BY <1>1, <2>1, <2>2, <2>3, <2>4
<1>7. IsLast(g) <=> g = m
  <2>1. g < m => ~IsLast(g)
    BY <1>4, <1>5, SameTask
  <2>2. g = m => IsLast(g)
    BY <1>3, <1>6
  <2> QED BY <1>1, <1>3, <2>1, <2>2
<1>8. ~returned
  <2>1. scalar.two # NumStacks
    BY <1>1
  <2> QED BY <2>1 DEF Walk, Finished
<1> QED BY <1>1, <1>3, <1>4, <1>5, <1>6, <1>7, <1>8

(* What there is in the cycles of the call.                                *)
RescaleOf(m, g) ==
    /\ m \in Stacks /\ g \in Stacks /\ m \in Nat /\ g \in Nat /\ m < NumStacks
    /\ First[m] <= g /\ g <= m /\ m <= g + 2
    /\ g = m - 2 \/ IsLast(m)
CallStart(m, g) == 24 * m + 8 * g + 24

LEMMA CallCycles ==
    ASSUME NEW m, NEW g, RescaleOf(m, g), NEW t \in 0..7, NEW c, c = CallStart(m, g) + t
    PROVE  /\ c \in Nat /\ FoldedAt(c) = g /\ Turn(c) = t
           /\ IsFold(c) <=> Rows[g] # 0 /\ t = 0
           /\ IsOutput(c) <=> Rows[g] # 0 /\ t = 0 /\ g = m
           /\ IsChunk(c) <=> Rows[g] # 0 /\ g = m /\ t # 0 /\ t <= LseChunks(g)
           /\ Idle(c) <=> ~IsFold(c) /\ ~IsChunk(c)
<1>1. m \in Stacks /\ g \in Stacks /\ m \in Nat /\ g \in Nat /\ m < NumStacks
      /\ First[m] <= g /\ g <= m /\ m <= g + 2 /\ t \in Nat /\ t <= 7
  BY DEF RescaleOf
<1>2. c = RescaleCycle(m, g, t)
  BY <1>1 DEF RescaleCycle, CallStart
<1>3. /\ c \in Nat /\ StackAt(c) = m /\ FoldedAt(c) = g /\ Turn(c) = t
      /\ Part(c) = g - m + 3 /\ Part(c) \in 1..3
  BY <1>1, <1>2, RescaleCycleFacts
<1>4. IsRescale(c) <=> Rows[g] # 0
  <2>1. Part(c) = 1 <=> g = m - 2
    BY <1>1, <1>3
  <2>2. Part(c) # 0
    BY <1>3
  <2> QED BY <1>1, <1>3, <2>1, <2>2 DEF IsRescale, RescaleOf
<1>5. Part(c) = 3 <=> g = m
  BY <1>1, <1>3
<1>6. ~IsLoop(c) /\ ~IsReady(c)
  BY <1>3 DEF IsLoop, IsReady
<1>7. c # LastCycle
  <2>1. NumStacks \in Nat
    BY StackAssumption
  <2> QED BY <1>1, <2>1 DEF LastCycle, CallStart
<1> QED BY <1>3, <1>4, <1>5, <1>6, <1>7 DEF IsFold, IsOutput, IsChunk, Idle

(* Code of a stack's fold and chunks.                                      *)
LEMMA FoldRuns ==
    ASSUME NEW m, NEW g, RescaleOf(m, g), Rows[g] # 0, NEW c, c = CallStart(m, g)
    PROVE  /\ c \in Nat
           /\ CyclesRun(<<FoldCode(g, 0)>>, "MTE2", c, c + 1)
           /\ g # m => CyclesRun(<<FoldCode(g, 1)>>, "V", c, c + 1)
           /\ g # m => InCycle(c, "MTE3", 0, 0)
           /\ g = m =>
                /\ CyclesRun(Joined(<<FoldCode(g, 1)>>, <<FoldCode(g, 2), FoldCode(g, 3)>>),
                             "V", c, c + 1)
                /\ CyclesRun(<<FoldCode(g, 5)>>, "MTE3", c, c + 1)
<1>1. /\ c \in Nat /\ FoldedAt(c) = g /\ IsFold(c) /\ (IsOutput(c) <=> g = m)
  <2>1. 0 \in 0..7 /\ c = CallStart(m, g) + 0
    BY DEF RescaleOf, CallStart
  <2> QED BY <2>1, CallCycles
<1>2. ASSUME NEW k \in Nat, k <= 7 PROVE Code(8 * c + k) = FoldCode(g, k)
  <2> PICK p : p = 8 * c + k
    OBVIOUS
  <2>1. p \in Nat /\ Cycle(p) = c /\ Step(p) = k
    BY <1>1, <1>2 DEF Cycle, Step
  <2>2. ~IsLoop(c) /\ ~IsReady(c)
    BY <1>1, Kinds
  <2>3. Code(p) = FoldCode(g, k)
    BY <1>1, <2>1, <2>2 DEF Code
  <2> QED BY <2>3
<1>3. /\ InCycle(c, "MTE2", 0, 1)
      /\ g # m => InCycle(c, "V", 1, 1) /\ InCycle(c, "MTE3", 0, 0)
      /\ g = m => InCycle(c, "V", 1, 3) /\ InCycle(c, "MTE3", 5, 1)
  BY <1>1, CycleSteps
<1>4. CyclesRun(<<FoldCode(g, 0)>>, "MTE2", c, c + 1)
  <2> PICK code : code = <<FoldCode(g, 0)>>
    OBVIOUS
  <2>1. HasLength(code, 1) /\ \A j \in 1..1 : code[j] = Code(8 * c + (0 + j - 1))
    BY <1>2, CodeLengths
  <2>2. 0 \in Nat /\ 1 \in Nat /\ 0 + 1 <= 7
    OBVIOUS
  <2> QED BY <1>1, <1>3, <2>1, <2>2, CycleRun
<1>5. g # m => CyclesRun(<<FoldCode(g, 1)>>, "V", c, c + 1)
  <2> PICK code : code = <<FoldCode(g, 1)>>
    OBVIOUS
  <2>1. HasLength(code, 1) /\ \A j \in 1..1 : code[j] = Code(8 * c + (1 + j - 1))
    BY <1>2, CodeLengths
  <2>2. 1 \in Nat /\ 1 + 1 <= 7
    OBVIOUS
  <2> QED BY <1>1, <1>3, <2>1, <2>2, CycleRun
<1>6. g = m => CyclesRun(<<FoldCode(g, 5)>>, "MTE3", c, c + 1)
  <2> PICK code : code = <<FoldCode(g, 5)>>
    OBVIOUS
  <2>1. HasLength(code, 1) /\ \A j \in 1..1 : code[j] = Code(8 * c + (5 + j - 1))
    BY <1>2, CodeLengths
  <2>2. 5 \in Nat /\ 1 \in Nat /\ 5 + 1 <= 7
    OBVIOUS
  <2> QED BY <1>1, <1>3, <2>1, <2>2, CycleRun
<1>7. ASSUME g = m
      PROVE  CyclesRun(Joined(<<FoldCode(g, 1)>>, <<FoldCode(g, 2), FoldCode(g, 3)>>),
                       "V", c, c + 1)
  <2>1. InCycle(c, "V", 1, 3)
    BY <1>3, <1>7
  <2> PICK first, then : first = <<FoldCode(g, 1)>> /\ then = <<FoldCode(g, 2), FoldCode(g, 3)>>
    OBVIOUS
  <2>2. HasLength(first, 1) /\ \A j \in 1..1 : first[j] = Code(8 * c + (1 + j - 1))
    BY <1>2, CodeLengths
  <2>3. HasLength(then, 2) /\ \A j \in 1..2 : then[j] = Code(8 * c + (2 + j - 1))
    <3>1. HasLength(then, 2) /\ then[1] = FoldCode(g, 2) /\ then[2] = FoldCode(g, 3)
      BY CodeLengths
    <3>2. Code(8 * c + 2) = FoldCode(g, 2) /\ Code(8 * c + 3) = FoldCode(g, 3)
      BY <1>2
    <3>3. \A j \in 1..2 : j = 1 \/ j = 2
      OBVIOUS
    <3>4. 2 + 1 - 1 = 2 /\ 2 + 2 - 1 = 3
      OBVIOUS
    <3> QED BY <3>1, <3>2, <3>3, <3>4
  <2>4. Runs(first, Program, 8 * c + 0, 8 * c + 2, Places("V"))
    <3>1. /\ 0 \in Nat /\ 2 \in Nat /\ 0 <= 2 /\ 2 <= 8 /\ 1 \in Nat /\ 0 <= 1 /\ 1 + 1 <= 2
          /\ 3 \in Nat
          /\ Cut(0, 2, 1, 1, 1, 3)
      BY DEF Cut
    <3>2. Spells(first, 1, c, 1)
      BY <2>2 DEF Spells
    <3> QED BY <1>1, <2>1, <3>1, <3>2, PartRun
  <2>5. Runs(then, Program, 8 * c + 2, 8 * c + 8, Places("V"))
    <3>1. /\ 2 \in Nat /\ 8 \in Nat /\ 2 <= 8 /\ 8 <= 8 /\ 2 <= 2 /\ 2 + 2 <= 8
          /\ 1 \in Nat /\ 3 \in Nat
          /\ Cut(2, 8, 2, 2, 1, 3)
      BY DEF Cut
    <3>2. Spells(then, 2, c, 2)
      BY <2>3 DEF Spells
    <3> QED BY <1>1, <2>1, <3>1, <3>2, PartRun
  <2> PICK x, y, z : x = 8 * c + 0 /\ y = 8 * c + 2 /\ z = 8 * c + 8
    OBVIOUS
  <2>6. x \in Nat /\ y \in Nat /\ z \in Nat /\ x <= y /\ y <= z /\ Places("V") \subseteq Nat
    BY <1>1 DEF Places
  <2>7. Runs(Joined(first, then), Program, x, z, Places("V"))
    BY <2>4, <2>5, <2>6, RunsJoined
  <2>8. x = 8 * c /\ z = 8 * (c + 1)
    BY <1>1
  <2> QED BY <2>7, <2>8 DEF CyclesRun
<1> QED BY <1>1, <1>3, <1>4, <1>5, <1>6, <1>7

LEMMA ChunkRuns ==
    ASSUME NEW m, NEW g, RescaleOf(m, g), Rows[g] # 0, g = m, NEW i \in Nat, i < LseChunks(g),
           NEW c, c = CallStart(m, g) + 1 + i
    PROVE  /\ c \in Nat
           /\ CyclesRun(<<ChunkCode(g, i, Bank(c), 2)>>, "V", c, c + 1)
           /\ CyclesRun(<<ChunkCode(g, i, Bank(c), 5)>>, "MTE3", c, c + 1)
<1> PICK t : t = i + 1
  OBVIOUS
<1>1. t \in 0..7 /\ t # 0 /\ t <= LseChunks(g) /\ t - 1 = i
  <2>1. g \in Stacks
    BY DEF RescaleOf
  <2>2. LseChunks(g) \in 0..2
    BY <2>1, LoopCounts
  <2> QED BY <2>2
<1>2. c = CallStart(m, g) + t
  BY DEF CallStart, RescaleOf
<1>3. c \in Nat /\ FoldedAt(c) = g /\ Turn(c) = t /\ IsChunk(c)
  BY <1>1, <1>2, CallCycles
<1>4. ASSUME NEW k \in Nat, k <= 7 PROVE Code(8 * c + k) = ChunkCode(g, i, Bank(c), k)
  <2> PICK p : p = 8 * c + k
    OBVIOUS
  <2>1. p \in Nat /\ Cycle(p) = c /\ Step(p) = k
    <3>1. /\ 8 * c + k \in Nat /\ Cycle(8 * c + k) = c /\ Step(8 * c + k) = k
      BY <1>3, <1>4, PlaceOf, Zenon
    <3> QED BY <3>1
  <2>2. ~IsLoop(c) /\ ~IsReady(c) /\ ~IsFold(c)
    BY <1>3, Kinds
  <2>3. Code(p) = ChunkCode(g, t - 1, Bank(c), k)
    BY <1>3, <2>1, <2>2 DEF Code
  <2> QED BY <1>1, <2>3
<1>5. InCycle(c, "V", 2, 1) /\ InCycle(c, "MTE3", 5, 1)
  BY <1>3, CycleSteps
<1>6. CyclesRun(<<ChunkCode(g, i, Bank(c), 2)>>, "V", c, c + 1)
  <2> PICK code : code = <<ChunkCode(g, i, Bank(c), 2)>>
    OBVIOUS
  <2>1. HasLength(code, 1) /\ \A j \in 1..1 : code[j] = Code(8 * c + (2 + j - 1))
    BY <1>4, CodeLengths
  <2>2. 2 \in Nat /\ 1 \in Nat /\ 2 + 1 <= 7
    OBVIOUS
  <2> QED BY <1>3, <1>5, <2>1, <2>2, CycleRun
<1>7. CyclesRun(<<ChunkCode(g, i, Bank(c), 5)>>, "MTE3", c, c + 1)
  <2> PICK code : code = <<ChunkCode(g, i, Bank(c), 5)>>
    OBVIOUS
  <2>1. HasLength(code, 1) /\ \A j \in 1..1 : code[j] = Code(8 * c + (5 + j - 1))
    BY <1>4, CodeLengths
  <2>2. 5 \in Nat /\ 1 \in Nat /\ 5 + 1 <= 7
    OBVIOUS
  <2> QED BY <1>3, <1>5, <2>1, <2>2, CycleRun
<1> QED BY <1>3, <1>6, <1>7

LEMMA Shift ==
    ASSUME NEW a \in Nat, NEW s \in 0..8, NEW t \in 0..8, s <= t
    PROVE  a + s \in Nat /\ a + t \in Nat /\ a + s <= a + t
  OBVIOUS

(* The banks: the count of the chunks goes on from call to call.           *)
LEMMA CallCount ==
    ASSUME NEW m, NEW g, RescaleOf(m, g), NEW a, a = CallStart(m, g),
           NEW x, x = Count(Chunks, 0, 8 * a)
    PROVE  /\ a \in Nat /\ x \in Nat
           /\ g = m => /\ Count(Chunks, 0, 8 * (a + 8)) = x + LseChunks(g)
                       /\ \A i \in Nat : i < LseChunks(g) => Bank(a + 1 + i) = (x + i) % 2
           /\ g # m => Count(Chunks, 0, 8 * (a + 8)) = x
<1>1. a \in Nat /\ g \in Stacks
  BY DEF RescaleOf, CallStart
<1>2. x \in Nat
  <2> PICK y : y = 8 * a
    OBVIOUS
  <2>1. y \in Nat /\ Chunks \subseteq Nat /\ 0 \in Nat
    BY <1>1, CycleSets
  <2>2. Count(Chunks, 0, y) \in Nat
    BY <2>1, CountFacts, Zenon
  <2> QED BY <2>2
<1> PICK n : n = LseChunks(g)
  OBVIOUS
<1>3. n \in 0..2 /\ (n = 0 <=> Rows[g] = 0)
  BY <1>1, LoopCounts
<1>4. ASSUME NEW t \in 0..7
      PROVE  /\ a + t \in Nat
             /\ IsChunk(a + t) <=> g = m /\ t # 0 /\ t <= n
  <2> PICK c : c = a + t
    OBVIOUS
  <2>1. c \in Nat /\ (IsChunk(c) <=> Rows[g] # 0 /\ g = m /\ t # 0 /\ t <= n)
    BY CallCycles
  <2> QED BY <1>3, <2>1
<1>5. ASSUME NEW s \in 0..8, NEW t \in 0..8, s <= t, g = m => s > n \/ t <= 1
      PROVE  Count(Chunks, 0, 8 * (a + t)) = Count(Chunks, 0, 8 * (a + s))
  <2>1. a + s \in Nat /\ a + t \in Nat /\ a + s <= a + t
    BY <1>1, <1>5, Shift, Zenon
  <2>2. ASSUME NEW c \in Nat, a + s <= c, c < a + t PROVE ~IsChunk(c)
    <3> PICK u : u = c - a
      OBVIOUS
    <3>1. u \in 0..7 /\ c = a + u /\ s <= u /\ u < t
      BY <1>1, <2>2
    <3>2. g = m => u = 0 \/ ~(u <= n)
      BY <1>3, <1>5, <3>1
    <3> QED BY <1>4, <3>1, <3>2
  <2> QED BY <2>1, <2>2, NoneIn
<1>6. ASSUME NEW t \in 1..2, g = m, t <= n
      PROVE  /\ Count(Chunks, 0, 8 * (a + t)) \in Nat
             /\ Count(Chunks, 0, 8 * (a + (t + 1))) = Count(Chunks, 0, 8 * (a + t)) + 1
  <2> PICK c : c = a + t
    OBVIOUS
  <2>1. c \in Nat /\ IsChunk(c)
    <3>1. t \in 0..7 /\ t # 0
      OBVIOUS
    <3> QED BY <1>4, <1>6, <3>1
  <2>2. /\ Count(Chunks, 0, 8 * c) \in Nat
        /\ Count(Chunks, 0, 8 * (c + 1)) = Count(Chunks, 0, 8 * c) + 1
    BY <2>1, OneMore
  <2>3. c + 1 = a + (t + 1)
    BY <1>1
  <2> QED BY <2>2, <2>3
<1>7. a + 0 = a
  BY <1>1
<1> DEFINE Upto(t) == Count(Chunks, 0, 8 * (a + t))
<1>8. Upto(0) = x
  BY <1>7
<1>9. ASSUME g # m PROVE Upto(8) = x
  <2>1. 0 \in 0..8 /\ 8 \in 0..8 /\ 0 <= 8
    OBVIOUS
  <2> QED BY <1>5, <1>8, <1>9, <2>1
<1>10. ASSUME g = m PROVE Upto(1) = x
  <2>1. 0 \in 0..8 /\ 1 \in 0..8 /\ 0 <= 1 /\ 1 <= 1
    OBVIOUS
  <2> QED BY <1>5, <1>8, <2>1
<1>11. ASSUME g = m, n >= 1 PROVE Upto(2) = x + 1
  <2>1. 1 \in 1..2 /\ 1 <= n /\ 1 + 1 = 2
    BY <1>3, <1>11
  <2> QED BY <1>6, <1>10, <1>11, <2>1
<1>12. ASSUME g = m, n >= 2 PROVE Upto(3) = x + 2
  <2>1. 2 \in 1..2 /\ 2 <= n /\ 2 + 1 = 3 /\ n >= 1
    BY <1>3, <1>12
  <2>2. Upto(3) = x + 1 + 1
    BY <1>6, <1>11, <1>12, <2>1
  <2> QED BY <1>2, <2>2
<1>13. ASSUME g = m PROVE Upto(8) = x + n
  <2>1. Upto(n + 1) = x + n
    BY <1>2, <1>3, <1>10, <1>11, <1>12, <1>13
  <2>2. n + 1 \in 0..8 /\ 8 \in 0..8 /\ n + 1 <= 8 /\ n + 1 > n
    BY <1>3
  <2>3. Upto(8) = Upto(n + 1)
    BY <1>5, <2>2
  <2> QED BY <2>1, <2>3
<1>14. ASSUME g = m, NEW i \in Nat, i < n PROVE Bank(a + 1 + i) = (x + i) % 2
  <2>1. i = 0 \/ i = 1
    BY <1>3, <1>14
  <2>2. Upto(i + 1) = x + i
    BY <1>2, <1>3, <1>10, <1>11, <1>14, <2>1
  <2>3. a + 1 + i = a + (i + 1)
    BY <1>1
  <2> QED BY <2>2, <2>3 DEF Bank
<1> QED BY <1>1, <1>2, <1>9, <1>13, <1>14

LEMMA SameBank ==
    ASSUME NEW x \in Nat, NEW i \in Nat
    PROVE  ((x % 2) + i) % 2 = (x + i) % 2
  OBVIOUS

LEMMA JoinedThree ==
    ASSUME NEW p, NEW l, HasLength(p, l), NEW q, NEW m, HasLength(q, m),
           NEW r, NEW n, HasLength(r, n)
    PROVE  Joined(p, Joined(q, r)) = Joined(Joined(p, q), r)
<1> DEFINE S == {p[i] : i \in 1..l} \cup {q[i] : i \in 1..m} \cup {r[i] : i \in 1..n}
<1>1. p \in Seq({p[i] : i \in 1..l}) /\ q \in Seq({q[i] : i \in 1..m})
      /\ r \in Seq({r[i] : i \in 1..n})
  BY SequenceFacts
<1>2. p \in Seq(S) /\ q \in Seq(S) /\ r \in Seq(S)
  BY <1>1
<1> HIDE DEF S
<1> QED BY <1>2, ConcatAssociative DEF Joined

OnBank(x) == lseStageSeq = x % 2

LEMMA BehindFold ==
    ASSUME NEW a \in Nat, NEW b \in Nat, NEW d, d = a + 1, NEW n \in 0..4
    PROVE  /\ d + n \in Nat /\ a < d + n
           /\ \A c \in d..b-1 : c \in Nat /\ a < c /\ c < b
           /\ \A c \in (d + n)..b-1 : c \in Nat /\ a < c /\ c < b /\ d + n <= c
<1>1. d \in Nat /\ n \in Nat
  OBVIOUS
<1>2. d + n \in Nat /\ a < d + n
  BY <1>1
<1>3. ASSUME NEW c \in d..b-1 PROVE c \in Nat /\ a < c /\ c < b
  BY <1>1
<1>4. ASSUME NEW c \in (d + n)..b-1
      PROVE  c \in Nat /\ a < c /\ c < b /\ d + n <= c
  BY <1>2
<1> QED BY <1>2, <1>3, <1>4

LEMMA RescaleRuns ==
    ASSUME NEW m, NEW g, RescaleOf(m, g), Rows[g] # 0, IsLast(g) <=> g = m,
           NEW a, a = CallStart(m, g), NEW b, b = a + 8,
           NEW x \in Nat, x = Count(Chunks, 0, 8 * a), OnBank(x),
           NEW last, last = IsLast(g)
    PROVE  /\ CyclesRun(RescaleLoad(g), "MTE2", a, b)
           /\ CyclesRun(RescaleVector(g) \o If(last, OutputVector(g)), "V", a, b)
           /\ CyclesRun(If(last, OutputStore(g)), "MTE3", a, b)
<1> PICK n, d : n = LseChunks(g) /\ d = a + 1
  OBVIOUS
<1>1. a \in Nat /\ b \in Nat /\ d \in Nat /\ g \in Stacks
  BY DEF RescaleOf, CallStart
<1>2. n \in 0..2 /\ n \in 0..4 /\ n # 0
  BY <1>1, LoopCounts
<1>3. /\ CyclesRun(<<FoldCode(g, 0)>>, "MTE2", a, d)
      /\ g # m => CyclesRun(<<FoldCode(g, 1)>>, "V", a, d)
      /\ g # m => InCycle(a, "MTE3", 0, 0)
      /\ g = m =>
           /\ CyclesRun(Joined(<<FoldCode(g, 1)>>, <<FoldCode(g, 2), FoldCode(g, 3)>>), "V", a, d)
           /\ CyclesRun(<<FoldCode(g, 5)>>, "MTE3", a, d)
  BY FoldRuns
<1>4. ASSUME NEW c \in Nat, a < c, c < b
      PROVE  /\ InCycle(c, "MTE2", 0, 0)
             /\ g # m \/ d + n <= c => Idle(c)
  <2> PICK t : t = c - a
    OBVIOUS
  <2>1. t \in 0..7 /\ c = CallStart(m, g) + t /\ t # 0 /\ (d + n <= c => t > n)
    BY <1>1, <1>2, <1>4
  <2>2. /\ ~IsFold(c)
        /\ IsChunk(c) => g = m /\ t <= n
        /\ Idle(c) <=> ~IsFold(c) /\ ~IsChunk(c)
    BY <2>1, CallCycles
  <2>3. IsChunk(c) \/ Idle(c)
    BY <2>2
  <2>4. InCycle(c, "MTE2", 0, 0)
    BY <1>4, <2>3, CycleSteps
  <2>5. g # m \/ d + n <= c => Idle(c)
    BY <1>2, <2>1, <2>2
  <2> QED BY <2>4, <2>5
<1>12. /\ d + n \in Nat /\ a < d + n
       /\ \A c \in d..b-1 : c \in Nat /\ a < c /\ c < b
       /\ \A c \in (d + n)..b-1 : c \in Nat /\ a < c /\ c < b /\ d + n <= c
  BY <1>1, <1>2, BehindFold
<1>5. Empty("MTE2", d, b)
  BY <1>4, <1>12 DEF Empty
<1>6. Empty("MTE2", a, a) /\ Empty("V", a, a) /\ Empty("MTE3", a, a)
  BY <1>1 DEF Empty
<1>7. a <= a /\ a <= d /\ d <= b /\ d + n \in Nat /\ d <= d + n /\ d + n <= b
  BY <1>1, <1>2
<1>8. CyclesRun(RescaleLoad(g), "MTE2", a, b)
  <2>1. RescaleLoad(g) = <<FoldCode(g, 0)>>
    BY DEF RescaleLoad, FoldCode
  <2>2. CyclesRun(<<FoldCode(g, 0)>>, "MTE2", a, b)
    BY <1>1, <1>3, <1>5, <1>6, <1>7, WiderRuns
  <2> QED BY <2>1, <2>2
<1>9. RescaleVector(g) = <<FoldCode(g, 1)>>
  BY DEF RescaleVector, FoldCode
<1>10. CASE g # m
  <2>1. ~last
    BY <1>10
  <2>2. Empty("V", d, b)
    <3>1. \A c \in d..b-1 : Idle(c)
      BY <1>4, <1>10, <1>12
    <3> QED BY <1>1, <3>1, IdleEmpty, PipeNames
  <2>3. Empty("MTE3", a, b)
    <3>1. ASSUME NEW c \in a..b-1 PROVE InCycle(c, "MTE3", 0, 0)
      <4>1. CASE c = a
        BY <1>3, <1>10, <4>1
      <4>2. CASE c # a
        <5>1. c \in Nat /\ a < c /\ c < b
          BY <1>1, <4>2
        <5>2. Idle(c)
          BY <1>4, <1>10, <5>1
        <5> QED BY <5>1, <5>2, CycleSteps
      <4> QED BY <4>1, <4>2
    <3> QED BY <3>1 DEF Empty
  <2>4. CyclesRun(Joined(<<FoldCode(g, 1)>>, <<>>), "V", a, b)
    <3>1. CyclesRun(<<>>, "V", d, b)
      BY <1>1, <2>2, NothingRuns
    <3> QED BY <1>1, <1>3, <1>7, <1>10, <3>1, JoinedRuns
  <2>5. CyclesRun(<<>>, "MTE3", a, b)
    BY <1>1, <2>3, NothingRuns
  <2> QED BY <1>8, <1>9, <2>1, <2>4, <2>5 DEF If, Joined
<1>11. CASE g = m
  <2>1. last
    BY <1>11
  <2> PICK vector : vector = [i \in 1..n |-> <<ChunkCode(g, i - 1, StageBank(i - 1), 2)>>]
    OBVIOUS
  <2> PICK store : store = [i \in 1..n |-> <<ChunkCode(g, i - 1, StageBank(i - 1), 5)>>]
    OBVIOUS
  <2>2. HasLength(vector, n) /\ HasLength(store, n)
    BY <1>2 DEF HasLength
  <2>3. ASSUME NEW i \in 1..n
        PROVE  /\ CyclesRun(vector[i], "V", d + (i - 1), d + (i - 1) + 1)
               /\ CyclesRun(store[i], "MTE3", d + (i - 1), d + (i - 1) + 1)
    <3> PICK j, c : j = i - 1 /\ c = a + 1 + j
      OBVIOUS
    <3>1. j \in Nat /\ j < n /\ c = d + (i - 1)
      BY <1>1, <1>2
    <3>2. Bank(c) = (x + j) % 2
      BY <1>11, <3>1, CallCount
    <3>3. StageBank(j) = Bank(c)
      BY <3>1, <3>2, SameBank DEF StageBank, OnBank
    <3>4. /\ CyclesRun(<<ChunkCode(g, j, Bank(c), 2)>>, "V", c, c + 1)
          /\ CyclesRun(<<ChunkCode(g, j, Bank(c), 5)>>, "MTE3", c, c + 1)
      BY <1>11, <3>1, ChunkRuns
    <3>5. vector[i] = <<ChunkCode(g, j, Bank(c), 2)>> /\ store[i] = <<ChunkCode(g, j, Bank(c), 5)>>
      BY <3>3
    <3> QED BY <3>1, <3>4, <3>5
  <2>4. /\ CyclesRun(FlattenSeq(vector), "V", d, d + n)
        /\ CyclesRun(FlattenSeq(store), "MTE3", d, d + n)
    BY <1>1, <1>2, <2>2, <2>3, EachRuns
  <2>5. ASSUME NEW P \in Pipes PROVE Empty(P, d + n, b)
    <3> PICK e : e = d + n
      OBVIOUS
    <3>1. e \in Nat
      BY <1>12
    <3>2. ASSUME NEW c \in e..b-1 PROVE Idle(c)
      <4>1. c \in Nat /\ a < c /\ c < b /\ e <= c
        BY <1>12
      <4>2. g # m \/ e <= c => Idle(c)
        BY <1>4, <4>1
      <4> QED BY <4>1, <4>2
    <3>3. Empty(P, e, b)
      BY <1>1, <3>1, <3>2, IdleEmpty
    <3> QED BY <3>3
  <2>6. Empty("V", d, d) /\ Empty("MTE3", d, d) /\ d <= d
    BY <1>1 DEF Empty
  <2>7. CyclesRun(FlattenSeq(vector), "V", d, b) /\ CyclesRun(FlattenSeq(store), "MTE3", d, b)
    BY <1>1, <1>7, <2>4, <2>5, <2>6, WiderRuns, PipeNames
  <2> PICK first, then : first = <<FoldCode(g, 1)>> /\ then = <<FoldCode(g, 2), FoldCode(g, 3)>>
    OBVIOUS
  <2>8. CyclesRun(Joined(Joined(first, then), FlattenSeq(vector)), "V", a, b)
    BY <1>1, <1>3, <1>7, <1>11, <2>7, JoinedRuns
  <2>9. CyclesRun(Joined(<<FoldCode(g, 5)>>, FlattenSeq(store)), "MTE3", a, b)
    BY <1>1, <1>3, <1>7, <1>11, <2>7, JoinedRuns
  <2>10. OutputVector(g) = Joined(then, FlattenSeq(vector))
    BY DEF OutputVector, Each, FoldCode, ChunkCode, Joined
  <2>11. OutputStore(g) = Joined(<<FoldCode(g, 5)>>, FlattenSeq(store))
    BY DEF OutputStore, Each, FoldCode, ChunkCode, Joined
  <2>12. RescaleVector(g) \o If(last, OutputVector(g))
         = Joined(first, Joined(then, FlattenSeq(vector)))
    BY <1>9, <2>1, <2>10 DEF If, Joined
  <2>13. Joined(first, Joined(then, FlattenSeq(vector)))
         = Joined(Joined(first, then), FlattenSeq(vector))
    <3>1. PICK l : HasLength(FlattenSeq(vector), l)
      BY <2>7 DEF CyclesRun, Runs
    <3>2. HasLength(first, 1) /\ HasLength(then, 2)
      BY CodeLengths
    <3> QED BY <3>1, <3>2, JoinedThree
  <2> QED BY <1>8, <2>1, <2>8, <2>9, <2>11, <2>12, <2>13 DEF If
<1> QED BY <1>10, <1>11

(* How many stacks softmaxReady has been raised of.                        *)
LEMMA ReadyCount ==
    ASSUME NEW at, AllPlaces(at), Counted(at), NEW S, S = Passed(Readies, 5, at["MTE3"])
    PROVE  IsFiniteSet(S) /\ Cardinality(S) \in Nat /\ events[softmaxReady] = Cardinality(S)
<1> PICK z : z = at["MTE3"]
  OBVIOUS
<1>1. z \in Nat /\ Readies \subseteq Nat
  BY PipeNames, CycleSets DEF AllPlaces
<1>2. events[softmaxReady] = Cardinality(S) /\ Cardinality(S) \in Nat
  <2>1. softmaxReady \in Events /\ softmaxReady \notin Initial
    BY DEF Events, Initial, V_MTE2_Initial, MTE3_V_Initial, MTE3_MTE2_Initial, softmaxReady,
           V_MTE2, MTE3_V, MTE3_MTE2
  <2>2. RaisedIn(softmaxReady) = Readies /\ RaisedAt(softmaxReady) = 5
        /\ AwaitedIn(softmaxReady) = {}
    BY OtherPlaces DEF RaisedIn, AwaitedIn
  <2>3. Raised(softmaxReady, at) = Cardinality(S)
    BY <2>2, PipeNames DEF Raised, Count
  <2>4. Awaited(softmaxReady, at) = 0
    <3>1. Passed({}, AwaitedAt(softmaxReady), at[PipeOf(AwaitedAt(softmaxReady))]) = {}
      BY DEF Passed
    <3> QED BY <2>2, <3>1, FS_EmptySet DEF Awaited, Count
  <2>5. Cardinality(S) \in Nat
    BY <1>1, CountFacts DEF Count
  <2>6. events[softmaxReady] = 0 + Cardinality(S) - 0
    BY <2>1, <2>3, <2>4 DEF Counted, Credit
  <2> QED BY <2>5, <2>6
<1>3. IsFiniteSet(S)
  BY <1>1, CountFacts
<1> QED BY <1>2, <1>3

(* pvReady of the stack comes after the last P of the stack is stored.     *)
LEMMA ReadyStored ==
    ASSUME NEW at, AllPlaces(at), Counted(at), NEW g \in Stacks, events[softmaxReady] > g
    PROVE  8 * (32 * g + 7) + 5 < at["MTE3"]
<1> PICK z, h : z = at["MTE3"] /\ h = 8 * (32 * g + 7) + 5
  OBVIOUS
<1>1. g \in Nat /\ z \in Nat /\ h \in Nat /\ Readies \subseteq Nat
  BY StackFacts, PipeNames, CycleSets DEF AllPlaces
<1> PICK S : S = Passed(Readies, 5, z)
  OBVIOUS
<1>2. events[softmaxReady] = Cardinality(S)
  BY ReadyCount
<1> SUFFICES ASSUME z <= h PROVE FALSE
  BY <1>1
<1>3. ASSUME NEW c \in S PROVE StackAt(c) \in 0..g-1 /\ c = 32 * StackAt(c) + 7
  <2>1. c \in Nat /\ IsReady(c) /\ 8 * c + 5 < z
    BY DEF Passed, Readies
  <2> PICK s : s = StackAt(c)
    OBVIOUS
  <2>2. s \in Stacks /\ c = 32 * s + 7
    BY <2>1, ReadyFacts
  <2>3. s \in Nat
    BY <2>2, StackFacts
  <2>4. s < g
    BY <1>1, <2>1, <2>2, <2>3
  <2> QED BY <1>1, <2>2, <2>3, <2>4
<1> DEFINE f == [c \in S |-> StackAt(c)]
<1>4. f \in Injection(S, 0..g-1)
  <2>1. f \in [S -> 0..g-1]
    BY <1>3
  <2>2. ASSUME NEW c \in S, NEW d \in S, f[c] = f[d] PROVE c = d
    BY <1>3, <2>2
  <2> QED BY <2>1, <2>2 DEF Injection, IsInjective
<1>5. IsFiniteSet(0..g-1) /\ Cardinality(0..g-1) = g
  <2>1. g - 1 \in Int /\ 0 \in Int
    BY <1>1
  <2>2. IsFiniteSet(0..g-1)
        /\ Cardinality(0..g-1) = IF 0 > g - 1 THEN 0 ELSE g - 1 - 0 + 1
    BY <2>1, FS_Interval
  <2> QED BY <1>1, <2>2
<1>6. IsFiniteSet(S) /\ Cardinality(S) <= Cardinality(0..g-1)
  BY <1>4, <1>5, FS_Injection
<1>7. Cardinality(S) \in Nat
  BY <1>6, FS_CardinalityType
<1> QED BY <1>1, <1>2, <1>5, <1>6, <1>7

(* The scalar unit issues a rescale.                                       *)
LEMMA RescaleQueues ==
    ASSUME NEW at, Queues(at), IssueRescale, NEW m, NEW g, g = scalar.two, RescaleOf(m, g),
           IsLast(g) <=> g = m, NEW a \in Nat, a = CallStart(m, g), NEW b \in Nat, b = a + 8,
           EndsAt(a), EndsAt(b)',
           NEW x \in Nat, x = Count(Chunks, 0, 8 * a), OnBank(x),
           queue = [P \in Pipes |-> queue[P]]
    PROVE  queue' = [P \in Pipes |-> queue'[P]] /\ Queues(at)'
<1>1. a <= b
  OBVIOUS
<1>2. CASE Rows[g] # 0
  <2> PICK last : last = IsLast(g)
    OBVIOUS
  <2>1. IssueTo(RescaleLoad(g), RescaleVector(g) \o If(last, OutputVector(g)),
                If(last, OutputStore(g)))
    BY <1>2 DEF IssueRescale
  <2>2. /\ CyclesRun(RescaleLoad(g), "MTE2", a, b)
        /\ CyclesRun(RescaleVector(g) \o If(last, OutputVector(g)), "V", a, b)
        /\ CyclesRun(If(last, OutputStore(g)), "MTE3", a, b)
    BY <1>2, RescaleRuns
  <2> QED BY <1>1, <2>1, <2>2, QueuesIssued
<1>3. CASE Rows[g] = 0
  <2>1. queue' = queue
    BY <1>3 DEF IssueRescale
  <2>2. ASSUME NEW c \in a..b-1 PROVE Idle(c)
    <3> PICK t : t = c - a
      OBVIOUS
    <3>1. t \in 0..7 /\ c = CallStart(m, g) + t
      OBVIOUS
    <3> QED BY <1>3, <3>1, CallCycles
  <2>3. \A P \in Pipes : Empty(P, a, b)
    BY <2>2, IdleEmpty
  <2>4. Queues(at)'
    BY <1>1, <2>1, <2>3, QueuesWait
  <2> QED BY <2>1, <2>4
<1> QED BY <1>2, <1>3

LEMMA BankOf ==
    ASSUME NEW x \in Nat
    PROVE  x % 2 \in 0..1
  OBVIOUS

LEMMA RescaleBank ==
    ASSUME NEW m, NEW g, RescaleOf(m, g), NEW a \in Nat, a = CallStart(m, g),
           NEW x \in Nat, x = Count(Chunks, 0, 8 * a), OnBank(x), IsLast(g) <=> g = m,
           NEW y, y = IF IsLast(g) THEN (lseStageSeq + LseChunks(g)) % 2 ELSE lseStageSeq
    PROVE  y \in 0..1 /\ y = Count(Chunks, 0, 8 * (a + 8)) % 2
<1>1. LseChunks(g) \in Nat
  <2>1. g \in Stacks
    BY DEF RescaleOf
  <2>2. LseChunks(g) \in 0..2
    BY <2>1, LoopCounts
  <2> QED BY <2>2
<1>2. CASE g = m
  <2>1. Count(Chunks, 0, 8 * (a + 8)) = x + LseChunks(g)
    BY <1>2, CallCount
  <2>2. y = ((x % 2) + LseChunks(g)) % 2
    BY <1>2 DEF OnBank
  <2>3. y = (x + LseChunks(g)) % 2
    BY <1>1, <2>2, SameBank
  <2> PICK z : z = x + LseChunks(g)
    OBVIOUS
  <2>4. z \in Nat
    BY <1>1
  <2>5. z % 2 \in 0..1
    BY <2>4, BankOf
  <2> QED BY <2>1, <2>3, <2>5
<1>3. CASE g # m
  <2>1. Count(Chunks, 0, 8 * (a + 8)) = x
    BY <1>3, CallCount
  <2>2. y = x % 2
    BY <1>3 DEF OnBank
  <2>3. x % 2 \in 0..1
    BY BankOf
  <2> QED BY <2>1, <2>2, <2>3
<1> QED BY <1>2, <1>3

LEMMA RescaleStep ==
    ASSUME Inv, IssueRescale
    PROVE  Inv'
<1>1. PICK at : At(at)
  BY DEF Inv
<1>2. Types /\ Walk
  BY DEF Inv
<1>3. scalar \in Walker /\ Stage2Due(scalar) /\ returned \in BOOLEAN
  BY <1>2 DEF Types, IssueRescale
<1> PICK l, m, g : l = scalar.one /\ m = l - 1 /\ g = scalar.two
  OBVIOUS
<1>4. /\ m \in Stacks /\ g \in Stacks /\ m \in Nat /\ g \in Nat /\ m < NumStacks
      /\ First[m] <= g /\ g <= m /\ m <= g + 2
      /\ g = m - 2 \/ IsLast(m)
      /\ IsLast(g) <=> g = m
      /\ ~returned
  BY <1>2, <1>3, RescaleDue
<1>5. RescaleOf(m, g)
  BY <1>4 DEF RescaleOf
<1>6. /\ l \in Nat /\ l <= NumStacks /\ NumStacks \in Nat
      /\ 24 * l + 8 * g \in Nat /\ EndsAt(24 * l + 8 * g)
      /\ 64 * (3 * l + g) = 8 * (24 * l + 8 * g)
  BY <1>3, <1>4, CallsFacts, Zenon
<1> PICK a, b : a = CallStart(m, g) /\ b = a + 8
  OBVIOUS
<1>7. a \in Nat /\ b \in Nat /\ a = 24 * l + 8 * g /\ 64 * (3 * l + g) = 8 * a
      /\ 64 * (3 * l + (g + 1)) = 8 * b
  BY <1>4, <1>6 DEF CallStart
<1>8. EndsAt(a)
  BY <1>6, <1>7
<1> PICK x : x = Count(Chunks, 0, 8 * a)
  OBVIOUS
<1>9. x \in Nat
  BY <1>5, CallCount
<1>10. OnBank(x)
  <2>1. lseStageSeq = Count(Chunks, 0, 64 * (3 * l + g)) % 2
    BY <1>2 DEF Walk
  <2> QED BY <1>7, <2>1 DEF OnBank
<1>11. /\ scalar' = [scalar EXCEPT !.two = @ + 1] /\ returned' = returned
       /\ events' = events /\ ub' = ub
  BY DEF IssueRescale
<1>12. scalar' \in Walker /\ scalar'.one = l /\ scalar'.two = g + 1
  BY <1>3, <1>4, <1>6, <1>11 DEF Walker
<1>13. EndsAt(b)'
  <2>1. EndPlace' = 64 * (3 * l + (g + 1)) + 0
    BY <1>4, <1>11, <1>12 DEF EndPlace
  <2>2. EndPlace' = 8 * b
    BY <1>7, <2>1
  <2> QED BY <2>2 DEF EndsAt
<1>14. Queues(at) /\ Counted(at) /\ Held(at) /\ Issued(at)
  BY <1>1 DEF At
<1>15. queue' = [P \in Pipes |-> queue'[P]] /\ Queues(at)'
  <2>1. queue = [P \in Pipes |-> queue[P]]
    BY <1>2 DEF Types
  <2> QED BY <1>4, <1>5, <1>7, <1>8, <1>9, <1>10, <1>13, <1>14, <2>1, RescaleQueues
<1>16. Counted(at)' /\ Held(at)'
  BY <1>11, <1>14 DEF Counted, Held
<1>17. 8 * (32 * g + 7) + 5 < at["MTE3"]
  <2>1. AllPlaces(at)
    BY <1>14 DEF AllPlaces, Queues
  <2>2. events[softmaxReady] > g
    BY DEF IssueRescale
  <2> QED BY <1>4, <1>14, <2>1, <2>2, ReadyStored
<1>18. Issued(at)'
  <2>1. EndPlace = 8 * a /\ EndPlace' = 8 * b
    BY <1>8, <1>13 DEF EndsAt
  <2>2. ASSUME NEW c \in Rescales, 8 * c < 8 * b
        PROVE  8 * (32 * FoldedAt(c) + 7) + 5 < at["MTE3"]
    <3>1. c \in Nat /\ IsFold(c)
      BY DEF Rescales
    <3>2. CASE c < a
      <4>1. 8 * c < EndPlace
        BY <1>7, <2>1, <3>1, <3>2
      <4> QED BY <1>14, <4>1 DEF Issued
    <3>3. CASE ~(c < a)
      <4> PICK t : t = c - a
        OBVIOUS
      <4>1. t \in 0..7 /\ c = a + t
        BY <1>7, <2>2, <3>1, <3>3
      <4>2. FoldedAt(c) = g
        BY <1>5, <4>1, CallCycles
      <4> QED BY <1>17, <4>2
    <3> QED BY <3>2, <3>3
  <2> QED BY <2>1, <2>2 DEF Issued
<1>19. lseStageSeq' \in 0..1 /\ lseStageSeq' = Count(Chunks, 0, 8 * b) % 2
  <2>1. lseStageSeq' = IF IsLast(g) THEN (lseStageSeq + LseChunks(g)) % 2 ELSE lseStageSeq
    BY DEF IssueRescale
  <2> QED BY <1>4, <1>5, <1>7, <1>9, <1>10, <2>1, RescaleBank
<1>20. Walk'
  <2> PICK t : t = g + 1
    OBVIOUS
  <2>1. /\ t <= l /\ l <= t + 3 /\ l > 0 /\ First[l - 1] <= t
        /\ IsLast(l - 1) \/ t <= First[l - 1] \/ t <= l - 2
    <3>1. First[m] \in Nat
      BY <1>4, StackFacts
    <3> QED BY <1>4, <1>6, <3>1
  <2>2. lseStageSeq' = Count(Chunks, 0, 64 * (3 * l + t)) % 2
    BY <1>7, <1>19
  <2>3. scalar'.one = l /\ scalar'.two = t /\ ~returned'
    BY <1>4, <1>11, <1>12
  <2> QED BY <2>1, <2>2, <2>3 DEF Walk
<1>21. Types'
  BY <1>2, <1>3, <1>11, <1>12, <1>15, <1>19 DEF Types
<1> QED BY <1>15, <1>16, <1>18, <1>20, <1>21 DEF Inv, At

-----------------------------------------------------------------------------
(* The waits at the end.                                                   *)
LEMMA FinalRuns ==
    ASSUME NEW c \in Nat, c = LastCycle
    PROVE  /\ CyclesRun(WaitForAll(MTE3_MTE2_Initial \cup V_MTE2_Initial), "MTE2", c, c + 1)
           /\ CyclesRun(WaitForAll(MTE3_V_Initial), "V", c, c + 1)
           /\ CyclesRun(<<>>, "MTE3", c, c + 1)
<1>1. /\ InCycle(c, "MTE2", 0, 1) /\ InCycle(c, "V", 2, 1) /\ InCycle(c, "MTE3", 0, 0)
  BY CycleSteps
<1>2. ASSUME NEW k \in Nat, k <= 7 PROVE Code(8 * c + k) = FinalCode(k)
  <2> PICK p : p = 8 * c + k
    OBVIOUS
  <2>1. p \in Nat /\ Cycle(p) = c /\ Step(p) = k
    BY <1>2, PlaceOf
  <2>2. Code(p) = FinalCode(k)
    BY <2>1, CodeOf
  <2> QED BY <2>2
<1>3. CyclesRun(<<FinalCode(0)>>, "MTE2", c, c + 1)
  <2> PICK code : code = <<FinalCode(0)>>
    OBVIOUS
  <2>1. HasLength(code, 1) /\ \A j \in 1..1 : code[j] = Code(8 * c + (0 + j - 1))
    BY <1>2, CodeLengths
  <2>2. 0 \in Nat /\ 1 \in Nat /\ 0 + 1 <= 7
    OBVIOUS
  <2> QED BY <1>1, <2>1, <2>2, CycleRun
<1>4. CyclesRun(<<FinalCode(2)>>, "V", c, c + 1)
  <2> PICK code : code = <<FinalCode(2)>>
    OBVIOUS
  <2>1. HasLength(code, 1) /\ \A j \in 1..1 : code[j] = Code(8 * c + (2 + j - 1))
    BY <1>2, CodeLengths
  <2>2. 2 \in Nat /\ 1 \in Nat /\ 2 + 1 <= 7
    OBVIOUS
  <2> QED BY <1>1, <2>1, <2>2, CycleRun
<1>5. CyclesRun(<<>>, "MTE3", c, c + 1)
  <2>1. \A d \in c..c+1-1 : d = c
    OBVIOUS
  <2>2. Empty("MTE3", c, c + 1)
    BY <1>1, <2>1 DEF Empty
  <2> QED BY <2>2, NothingRuns
<1>6. /\ WaitForAll(MTE3_MTE2_Initial \cup V_MTE2_Initial) = <<FinalCode(0)>>
      /\ WaitForAll(MTE3_V_Initial) = <<FinalCode(2)>>
  BY DEF WaitForAll, FinalCode
<1> QED BY <1>3, <1>4, <1>5, <1>6

LEMMA FinalStep ==
    ASSUME Inv, IssueFinalWaits
    PROVE  Inv'
<1>1. PICK at : At(at)
  BY DEF Inv
<1>2. Types /\ Walk
  BY DEF Inv
<1>3. scalar \in Walker /\ ~returned /\ scalar.two = NumStacks
  BY <1>2 DEF Types, IssueFinalWaits, Finished
<1>4. NumStacks \in Nat /\ scalar.one = NumStacks
  <2>1. scalar.one \in Nat /\ scalar.one <= NumStacks /\ NumStacks \in Nat
    BY <1>2, <1>3, EndPlaceFacts DEF Types
  <2>2. scalar.two <= scalar.one
    BY <1>2 DEF Walk
  <2> QED BY <1>3, <2>1, <2>2
<1>5. /\ returned' = TRUE /\ UNCHANGED <<scalar, lseStageSeq, events, ub>>
      /\ IssueTo(WaitForAll(MTE3_MTE2_Initial \cup V_MTE2_Initial),
                 WaitForAll(MTE3_V_Initial), <<>>)
  BY DEF IssueFinalWaits
<1> PICK a, b : a = LastCycle /\ b = a + 1
  OBVIOUS
<1>6. a \in Nat /\ b \in Nat /\ a <= b /\ EndPlace = 8 * a /\ EndPlace' = 8 * b
  <2>1. EndPlace = 64 * (3 * NumStacks + NumStacks) + 0
    BY <1>3, <1>4 DEF EndPlace
  <2>2. EndPlace' = 64 * (3 * NumStacks + NumStacks) + 8
    BY <1>3, <1>4, <1>5 DEF EndPlace
  <2> QED BY <1>4, <2>1, <2>2 DEF LastCycle
<1>7. EndsAt(a) /\ EndsAt(b)'
  BY <1>6 DEF EndsAt
<1>8. Queues(at) /\ Counted(at) /\ Held(at) /\ Issued(at)
  BY <1>1 DEF At
<1>9. queue' = [P \in Pipes |-> queue'[P]] /\ Queues(at)'
  <2>1. /\ CyclesRun(WaitForAll(MTE3_MTE2_Initial \cup V_MTE2_Initial), "MTE2", a, b)
        /\ CyclesRun(WaitForAll(MTE3_V_Initial), "V", a, b)
        /\ CyclesRun(<<>>, "MTE3", a, b)
    BY <1>6, FinalRuns
  <2> QED BY <1>5, <1>6, <1>7, <1>8, <2>1, QueuesIssued
<1>10. Counted(at)' /\ Held(at)'
  BY <1>5, <1>8 DEF Counted, Held
<1>11. Issued(at)'
  <2>1. ASSUME NEW c \in Rescales, 8 * c < 8 * b PROVE 8 * c < 8 * a
    <3>1. c \in Nat /\ c # a
      BY Kinds DEF Rescales
    <3> QED BY <1>6, <2>1, <3>1
  <2> QED BY <1>6, <1>8, <2>1 DEF Issued
<1>12. Walk'
  <2>1. Finished(scalar)
    BY <1>3 DEF Finished
  <2> QED BY <1>2, <1>5, <2>1 DEF Walk, Finished
<1>13. Types'
  BY <1>2, <1>5, <1>9 DEF Types
<1> QED BY <1>9, <1>10, <1>11, <1>12, <1>13 DEF Inv, At

(* The start of the kernel.                                                *)
LEMMA InitInv ==
    ASSUME Init
    PROVE  Inv
<1> PICK at : at = [P \in Pipes |-> 0]
  OBVIOUS
<1>1. NumStacks \in Nat
  BY StackAssumption
<1>2. scalar.one = 0 /\ scalar.two = 0 /\ ~returned /\ scalar \in Walker
  BY <1>1 DEF Init, Start, Walker
<1>3. EndPlace = 0
  <2>1. 64 * (3 * 0 + 0) + 0 = 0
    OBVIOUS
  <2> QED BY <1>2, <2>1 DEF EndPlace
<1>4. \A P \in Pipes : at[P] = 0
  OBVIOUS
<1>5. \A k \in Nat : PipeOf(k) \in Pipes
  BY DEF PipeOf, Pipes
<1>6. ASSUME NEW S, S \subseteq Nat, NEW k \in Nat
      PROVE  Count(S, k, 0) = 0
  <2>1. Passed(S, k, 0) = {}
    <3>1. ASSUME NEW c \in S PROVE ~(8 * c + k < 0)
      <4>1. c \in Nat
        BY <1>6
      <4> QED BY <4>1
    <3> QED BY <3>1 DEF Passed
  <2> QED BY <2>1, FS_EmptySet DEF Count
<1>7. Queues(at)
  <2>1. ASSUME NEW P \in Pipes
        PROVE  at[P] \in Nat /\ at[P] <= 0 /\ Runs(queue[P], Program, at[P], 0, Places(P))
    <3>1. queue[P] = <<>> /\ at[P] = 0
      BY <1>4 DEF Init
    <3>2. \A x \in Places(P) : ~(0 <= x /\ x < 0)
      BY DEF Places
    <3>3. Runs(<<>>, Program, 0, 0, Places(P))
      BY <3>2, RunsNothing
    <3> QED BY <3>1, <3>3
  <2> QED BY <1>3, <2>1 DEF Queues
<1>8. Counted(at)
  <2>1. ASSUME NEW e \in Events
        PROVE  events[e] = Credit(e) + Raised(e, at) - Awaited(e, at)
    <3>1. /\ RaisedIn(e) \subseteq Nat /\ AwaitedIn(e) \subseteq Nat
          /\ RaisedAt(e) \in Nat /\ AwaitedAt(e) \in Nat
      BY EventSets
    <3>2. Raised(e, at) = 0 /\ Awaited(e, at) = 0
      BY <1>4, <1>5, <1>6, <3>1 DEF Raised, Awaited
    <3>3. events[e] = Credit(e) /\ Credit(e) \in Nat
      BY DEF Init, Credit
    <3> QED BY <3>2, <3>3
  <2> QED BY <2>1 DEF Counted
<1>9. Held(at)
  <2>1. ASSUME NEW b \in Buffers, NEW p \in Writers(b) PROVE ~Executed(p, at)
    <3>1. p \in Nat /\ Step(p) \in Nat
      BY PlaceSplit DEF Writers
    <3>2. at[PipeOf(Step(p))] = 0
      BY <1>4, <1>5, <3>1
    <3> QED BY <3>1, <3>2 DEF Executed
  <2> QED BY <2>1 DEF Held
<1>10. Issued(at)
  <2>1. ASSUME NEW c \in Rescales PROVE ~(8 * c < 0)
    <3>1. c \in Nat
      BY DEF Rescales
    <3> QED BY <3>1
  <2> QED BY <1>3, <2>1 DEF Issued
<1>11. Walk
  <2>1. Count(Chunks, 0, 64 * (3 * 0 + 0)) = 0
    <3>1. 64 * (3 * 0 + 0) = 0 /\ Chunks \subseteq Nat
      BY CycleSets
    <3> QED BY <1>6, <3>1
  <2>2. lseStageSeq = 0 % 2
    BY DEF Init
  <2> QED BY <1>2, <2>1, <2>2 DEF Walk
<1>12. Types
  <2>1. events \in [Events -> Nat]
    BY DEF Init
  <2>2. lseStageSeq \in 0..1 /\ returned \in BOOLEAN
    <3>1. lseStageSeq = 0 /\ 0 \in 0..1
      BY DEF Init
    <3>2. lseStageSeq \in 0..1
      BY <3>1
    <3>3. returned \in BOOLEAN
      BY Zenon DEF Init
    <3> QED BY <3>2, <3>3
  <2>3. queue = [P \in Pipes |-> queue[P]]
    <3>1. queue \in [Pipes -> {<<>>}]
      BY DEF Init
    <3> QED BY <3>1
  <2>4. ub = [b \in Buffers |-> ub[b]]
    BY DEF Init
  <2> QED BY <1>2, <2>1, <2>2, <2>3, <2>4 DEF Types
<1> QED BY <1>7, <1>8, <1>9, <1>10, <1>11, <1>12 DEF Inv, At

(* Nothing changes.                                                        *)
LEMMA StutterStep ==
    ASSUME Inv, UNCHANGED vars
    PROVE  Inv'
<1>1. PICK at : At(at)
  BY DEF Inv
<1>2. /\ scalar' = scalar /\ lseStageSeq' = lseStageSeq /\ queue' = queue
      /\ events' = events /\ ub' = ub /\ returned' = returned
  BY DEF vars
<1>3. EndPlace' = EndPlace
  BY <1>2 DEF EndPlace
<1>4. At(at)'
  BY <1>1, <1>2, <1>3 DEF At, Queues, Counted, Held, Issued
<1>5. Types' /\ Walk'
  BY <1>2 DEF Inv, Types, Walk
<1> QED BY <1>4, <1>5 DEF Inv

LEMMA NextInv ==
    ASSUME Inv, [Next]_vars
    PROVE  Inv'
<1>1. CASE IssueSoftmax
  BY <1>1, SoftmaxStep
<1>2. CASE IssueRescale
  BY <1>2, RescaleStep
<1>3. CASE IssueFinalWaits
  BY <1>3, FinalStep
<1>4. ASSUME NEW P \in Pipes, RunPipe(P) PROVE Inv'
  BY <1>4, PipeStep
<1>5. CASE UNCHANGED vars
  BY <1>5, StutterStep
<1> QED BY <1>1, <1>2, <1>3, <1>4, <1>5 DEF Next, Scalar, Terminated

-----------------------------------------------------------------------------
(* Once the pipes have executed everything they have passed all places.    *)
LEMMA PlacesEnd ==
    ASSUME NEW P, NEW x \in Places(P)
    PROVE  x \in Nat /\ x < 8 * (LastCycle + 1)
<1>1. x \in Nat
  BY DEF Places
<1> PICK c, k : c = Cycle(x) /\ k = Step(x)
  OBVIOUS
<1>2. c \in Nat /\ k \in 0..7 /\ x = 8 * c + k
  BY <1>1, PlaceSplit
<1>3. NumStacks \in Nat
  BY StackAssumption
<1>4. StackAt(c) \in Stacks \/ c = LastCycle
  <2>1. PresentIn(c, k)
    BY PlaceKind
  <2> QED BY <2>1 DEF PresentIn, IsLoop, IsReady, IsOutput, IsFold, IsChunk, IsRescale
<1>5. c <= LastCycle
  <2>1. ASSUME c \div 32 <= NumStacks - 1 PROVE c <= 32 * NumStacks
    BY <1>2, <1>3, <2>1
  <2>2. StackAt(c) \in Stacks => c \div 32 <= NumStacks - 1
    BY DEF StackAt, Stacks
  <2>3. LastCycle = 32 * NumStacks
    BY DEF LastCycle
  <2>4. LastCycle <= LastCycle
    BY <1>3, <2>3
  <2> QED BY <1>4, <2>1, <2>2, <2>3, <2>4
<1>6. LastCycle \in Nat
  BY <1>3 DEF LastCycle
<1> QED BY <1>1, <1>2, <1>5, <1>6

LEMMA AllPassed ==
    ASSUME NEW at, Types, Queues(at), Walk, AllRun
    PROVE  \A P \in Pipes : \A x \in Places(P) : x < at[P]
<1> SUFFICES ASSUME NEW P \in Pipes, NEW x \in Places(P) PROVE x < at[P]
  OBVIOUS
<1>1. EndPlace \in Nat
  BY EndPlaceFacts DEF Types
<1>2. EndPlace = 8 * (LastCycle + 1)
  <2>1. scalar.two = NumStacks /\ NumStacks \in Nat
    BY StackAssumption DEF AllRun, Walk, Finished
  <2>2. scalar.one = NumStacks
    <3>1. scalar.one \in Nat /\ scalar.one <= NumStacks
      BY EndPlaceFacts DEF Types
    <3> QED BY <2>1, <3>1 DEF Walk
  <2>3. EndPlace = 64 * (3 * NumStacks + NumStacks) + 8
    BY <2>1, <2>2 DEF EndPlace, AllRun
  <2> QED BY <2>1, <2>3 DEF LastCycle
<1>3. x \in Nat /\ x < EndPlace
  BY <1>2, PlacesEnd
<1> PICK i, e : i = at[P] /\ e = EndPlace
  OBVIOUS
<1>4. i \in Nat /\ e \in Nat /\ Runs(<<>>, Program, i, e, Places(P))
  BY <1>1 DEF Queues, AllRun, Drained
<1>5. ~(i <= x /\ x < e)
  BY <1>4, RunsOut, Zenon
<1> QED BY <1>3, <1>4, <1>5

LEMMA NotLast ==
    ASSUME NEW e \in Events
    PROVE  LastCycle \notin RaisedIn(e)
<1>1. RaisedIn(e) \subseteq Loops \cup Rescales \cup Outputs \cup Chunks \cup Readies
  BY DEF RaisedIn
<1>2. LastCycle \in Nat
  BY CycleSets
<1>3. LastCycle \notin Loops /\ LastCycle \notin Rescales /\ LastCycle \notin Outputs
      /\ LastCycle \notin Chunks /\ LastCycle \notin Readies
  BY <1>2, Kinds DEF Loops, Rescales, Outputs, Chunks, Readies
<1> QED BY <1>1, <1>3

LEMMA NothingRaised ==
    ASSUME Inv, AllRun, NEW e \in Events \ {softmaxReady}
    PROVE  events[e] = 0
<1>1. PICK at : At(at)
  BY DEF Inv
<1>2. Types /\ Walk /\ Queues(at) /\ Counted(at)
  BY <1>1 DEF Inv, At
<1>3. \A P \in Pipes : \A x \in Places(P) : x < at[P]
  BY <1>2, AllPassed
<1>4. /\ RaisedIn(e) \subseteq Nat /\ AwaitedIn(e) \subseteq Nat
      /\ RaisedAt(e) \in Nat /\ AwaitedAt(e) \in Nat
  BY EventSets
<1>5. \A k \in Nat : PipeOf(k) \in Pipes
  BY DEF PipeOf, Pipes
<1>6. Passed(RaisedIn(e), RaisedAt(e), at[PipeOf(RaisedAt(e))]) = RaisedIn(e)
  <2>1. \A c \in RaisedIn(e) : 8 * c + RaisedAt(e) < at[PipeOf(RaisedAt(e))]
    BY <1>3, <1>4, <1>5, EventPlaces
  <2> QED BY <2>1 DEF Passed
<1>7. Passed(AwaitedIn(e), AwaitedAt(e), at[PipeOf(AwaitedAt(e))]) = AwaitedIn(e)
  <2>1. \A c \in AwaitedIn(e) : 8 * c + AwaitedAt(e) < at[PipeOf(AwaitedAt(e))]
    BY <1>3, <1>4, <1>5, EventPlaces
  <2> QED BY <2>1 DEF Passed
<1> PICK n : n = Cardinality(RaisedIn(e))
  OBVIOUS
<1>8. IsFiniteSet(RaisedIn(e)) /\ n \in Nat
  <2>1. at[PipeOf(RaisedAt(e))] \in Nat
    BY <1>2, <1>4, <1>5 DEF Queues
  <2>2. IsFiniteSet(Passed(RaisedIn(e), RaisedAt(e), at[PipeOf(RaisedAt(e))]))
    BY <1>4, <2>1, CountFacts
  <2>3. IsFiniteSet(RaisedIn(e))
    BY <1>6, <2>2
  <2> QED BY <2>3, FS_CardinalityType
<1>9. Raised(e, at) = n
  BY <1>6 DEF Raised, Count
<1>10. events[e] = Credit(e) + n - Cardinality(AwaitedIn(e))
  BY <1>2, <1>7, <1>9 DEF Counted, Awaited, Count
<1>11. CASE e \in Initial
  <2>1. AwaitedIn(e) = RaisedIn(e) \cup {LastCycle}
    BY <1>11 DEF AwaitedIn
  <2>2. Cardinality(AwaitedIn(e)) = n + 1
    BY <1>8, <2>1, NotLast, FS_AddElement
  <2> QED BY <1>8, <1>10, <1>11, <2>2 DEF Credit
<1>12. CASE e \notin Initial
  <2>1. AwaitedIn(e) = RaisedIn(e)
    BY <1>12 DEF AwaitedIn
  <2> QED BY <1>8, <1>10, <1>12, <2>1 DEF Credit
<1> QED BY <1>11, <1>12

-----------------------------------------------------------------------------
(* The pipes are not stuck.  The pipe whose next place is the first of all *)
(* finds what it waits for: it is raised in the same cycle before, or in   *)
(* the cycles before and once from the start.                              *)
LEMMA RaisedBefore ==
    ASSUME NEW e \in Events, NEW c \in AwaitedIn(e)
    PROVE  /\ c \in Nat /\ c <= LastCycle
           /\ Credit(e) = 0 => AwaitedIn(e) = RaisedIn(e) /\ RaisedAt(e) < AwaitedAt(e)
           /\ Credit(e) # 0 => \A d \in AwaitedIn(e) : d < c => d \in RaisedIn(e)
<1>1. /\ AwaitedIn(e) \subseteq Nat /\ AwaitedAt(e) \in Nat /\ c \in Nat
  BY EventSets
<1>2. LastCycle \in Nat
  BY CycleSets
<1>3. c <= LastCycle
  <2>1. 8 * c + AwaitedAt(e) < 8 * (LastCycle + 1)
    BY EventPlaces, PlacesEnd
  <2> QED BY <1>1, <1>2, <2>1
<1>4. e # softmaxReady
  BY DEF AwaitedIn
<1>5. AwaitedIn(e) = RaisedIn(e) \cup (IF e \in Initial THEN {LastCycle} ELSE {})
  BY <1>4 DEF AwaitedIn
<1>6. Credit(e) = 0 => AwaitedIn(e) = RaisedIn(e) /\ RaisedAt(e) < AwaitedAt(e)
  <2> SUFFICES ASSUME Credit(e) = 0
               PROVE  AwaitedIn(e) = RaisedIn(e) /\ RaisedAt(e) < AwaitedAt(e)
    OBVIOUS
  <2>1. e \notin Initial
    BY DEF Credit
  <2>2. (\E i \in 0..1 : e = MTE2_V(i)) \/ (\E i \in 0..1 : e = V_MTE3(i))
    BY <1>4, <2>1 DEF Events
  <2>3. RaisedAt(e) < AwaitedAt(e)
    BY <2>2 DEF RaisedAt, AwaitedAt, MTE2_V, V_MTE3, V_MTE2
  <2> QED BY <1>5, <2>1, <2>3
<1>7. ASSUME NEW d \in AwaitedIn(e), d < c PROVE d \in RaisedIn(e)
  <2>1. d # LastCycle
    BY <1>1, <1>2, <1>3, <1>7
  <2> QED BY <1>5, <2>1
<1> QED BY <1>1, <1>3, <1>6, <1>7

LEMMA FirstNotBlocked ==
    ASSUME NEW at, AllPlaces(at), Counted(at), NEW P \in Pipes, NEW p, IsNext(P, p, at),
           \A Q \in Pipes : \A z \in Places(Q) : z < p => z < at[Q],
           NEW e \in Events, e \in Code(p).waits
    PROVE  events[e] > 0
<1> PICK c, l, k : c = Cycle(p) /\ l = AwaitedAt(e) /\ k = RaisedAt(e)
  OBVIOUS
<1> PICK A, R : A = AwaitedIn(e) /\ R = RaisedIn(e)
  OBVIOUS
<1>1. p \in Nat /\ Present(p) /\ PipeOf(Step(p)) = P /\ at[P] \in Nat /\ at[P] <= p
  BY NextFacts
<1>2. Step(p) = l /\ c \in A
  BY <1>1, EventUse DEF UsedAt
<1>3. A \subseteq Nat /\ R \subseteq Nat /\ l \in Nat /\ k \in Nat /\ k <= 7 /\ c \in Nat
  BY <1>2, EventSets
<1>4. p = 8 * c + l
  BY <1>1, <1>2, PlaceSplit
<1> PICK x, y : x = at[PipeOf(k)] /\ y = at[P]
  OBVIOUS
<1>5. x \in Nat /\ y \in Nat /\ y <= p /\ PipeOf(l) = P
  BY <1>1, <1>2, PipeNames DEF AllPlaces
<1>6. ASSUME NEW d \in R, 8 * d + k < p PROVE 8 * d + k < x
  <2>1. 8 * d + k \in Places(PipeOf(k))
    BY EventPlaces
  <2> QED BY <1>6, <2>1, PipeNames
<1> PICK T, S : T = Passed(A, l, y) /\ S = Passed(R, k, x)
  OBVIOUS
<1>7. IsFiniteSet(T) /\ IsFiniteSet(S) /\ Cardinality(T) \in Nat /\ Cardinality(S) \in Nat
  BY <1>3, <1>5, CountFacts DEF Count
<1>8. events[e] = Credit(e) + Cardinality(S) - Cardinality(T)
  <2>1. Raised(e, at) = Cardinality(S) /\ Awaited(e, at) = Cardinality(T)
    BY <1>5 DEF Raised, Awaited, Count
  <2> QED BY <2>1 DEF Counted
<1>9. ASSUME NEW d \in T PROVE d \in A /\ d \in Nat /\ d < c
  <2>1. d \in A /\ 8 * d + l < y
    BY DEF Passed
  <2>2. d \in Nat
    BY <1>3, <2>1
  <2> QED BY <1>3, <1>4, <1>5, <2>1, <2>2
<1>10. Credit(e) \in 0..1
  BY EventSets
<1>11. CASE Credit(e) = 0
  <2>1. A = R /\ k < l
    BY <1>2, <1>11, RaisedBefore
  <2>2. ASSUME NEW d \in T \cup {c} PROVE d \in S
    <3>1. d \in R /\ d \in Nat /\ d <= c
      BY <1>2, <1>3, <1>9, <2>1
    <3>2. 8 * d + k < p
      BY <1>3, <1>4, <2>1, <3>1
    <3> QED BY <1>6, <3>1, <3>2 DEF Passed
  <2>3. c \notin T
    BY <1>3, <1>9
  <2>4. Cardinality(T \cup {c}) = Cardinality(T) + 1
    BY <1>7, <2>3, FS_AddElement
  <2>5. Cardinality(T \cup {c}) <= Cardinality(S)
    <3>1. T \cup {c} \subseteq S
      BY <2>2
    <3> QED BY <1>7, <3>1, FS_Subset
  <2> QED BY <1>7, <1>8, <1>11, <2>4, <2>5
<1>12. CASE Credit(e) = 1
  <2>1. ASSUME NEW d \in T PROVE d \in S
    <3>1. d \in R /\ d \in Nat /\ d < c
      BY <1>2, <1>9, <1>12, RaisedBefore
    <3>2. 8 * d + k < p
      BY <1>3, <1>4, <3>1
    <3> QED BY <1>6, <3>1, <3>2 DEF Passed
  <2>2. Cardinality(T) <= Cardinality(S)
    <3>1. T \subseteq S
      BY <2>1
    <3> QED BY <1>7, <3>1, FS_Subset
  <2> QED BY <1>7, <1>8, <1>12, <2>2
<1> QED BY <1>10, <1>11, <1>12

LEMMA WaitsAreEvents ==
    ASSUME NEW p \in Nat, Present(p)
    PROVE  Code(p).waits \subseteq Events
<1> PICK c, k : c = Cycle(p) /\ k = Step(p)
  OBVIOUS
<1>1. c \in Nat /\ k \in 0..7
  BY PlaceSplit
<1>2. /\ \A i \in 0..1 : {V_MTE2(i), MTE2_V(i), MTE3_V(i), V_MTE3(i)} \subseteq Events
      /\ V_MTE2(3) \in Events
      /\ MTE3_MTE2_Initial \cup V_MTE2_Initial \subseteq Events /\ MTE3_V_Initial \subseteq Events
  BY DEF Events, Initial, V_MTE2_Initial, MTE3_V_Initial
<1>3. CASE IsLoop(c)
  <2> PICK h, i, m : h = Half(c) /\ i = Turn(c) /\ m = StackAt(c)
    OBVIOUS
  <2>1. h \in 0..1 /\ h = i % 2
    BY <1>1, HalfOf
  <2>2. Code(p) = LoopCode(m, i, k)
    BY <1>1, <1>3, CodeOf
  <2>3. k \in 0..5
    BY <1>1, <1>3, Kinds DEF Present
  <2>4. /\ k = 0 => Code(p).waits = {V_MTE2(h)}
        /\ k = 1 => Code(p).waits = {MTE2_V(h)}
        /\ k = 2 => Code(p).waits = {MTE3_V(h)}
        /\ k = 3 => Code(p).waits = {}
        /\ k = 4 => Code(p).waits = {}
        /\ k = 5 => Code(p).waits = {V_MTE3(h)}
    BY <2>1, <2>2, LoopCodeFacts
  <2>5. k = 0 \/ k = 1 \/ k = 2 \/ k = 3 \/ k = 4 \/ k = 5
    BY <2>3
  <2> QED BY <1>2, <2>1, <2>4, <2>5
<1>4. CASE IsReady(c)
  <2>1. Code(p) = Instruction({}, {}, {}, {softmaxReady})
    BY <1>4, CodeOf
  <2> QED BY <2>1 DEF Instruction
<1>5. CASE IsFold(c)
  <2>1. Code(p) = FoldCode(FoldedAt(c), k)
    BY <1>5, CodeOf
  <2>2. k \in {0, 1, 2, 3, 5}
    BY <1>1, <1>5, Kinds DEF Present
  <2>3. Code(p).waits \in {{V_MTE2(3)}, {MTE2_V(0)}, {}, {V_MTE3(0)}}
    BY <2>1, <2>2, FoldCodeFacts
  <2> QED BY <1>2, <2>3
<1>6. CASE IsChunk(c)
  <2>1. Code(p) = ChunkCode(FoldedAt(c), Turn(c) - 1, Bank(c), k)
    BY <1>6, CodeOf
  <2>2. k \in {2, 5}
    BY <1>1, <1>6, Kinds DEF Present
  <2>3. Code(p).waits \in {{}, {V_MTE3(0)}}
    BY <2>1, <2>2, ChunkCodeFacts
  <2> QED BY <1>2, <2>3
<1>7. CASE c = LastCycle
  <2>1. Code(p) = FinalCode(k)
    BY <1>7, CodeOf
  <2>2. k \in {0, 2}
    BY <1>1, <1>7, Kinds DEF Present
  <2> QED BY <1>2, <2>1, <2>2, FinalCodeFacts
<1>8. IsLoop(c) \/ IsReady(c) \/ IsFold(c) \/ IsChunk(c) \/ c = LastCycle
  BY DEF Present, IsOutput
<1> QED BY <1>3, <1>4, <1>5, <1>6, <1>7, <1>8

(* The place a pipe waits at: the next one of its queue, or where the      *)
(* calls issued so far end.                                                *)
WaitsAt(P, n, at) ==
    /\ \A x \in Places(P) : x < n => x < at[P]
    /\ \/ queue[P] = <<>> /\ n = EndPlace
       \/ queue[P] # <<>> /\ n < EndPlace /\ IsNext(P, n, at) /\ Head(queue[P]) = Code(n)

LEMMA WaitsSomewhere ==
    ASSUME NEW at, Queues(at), AllPlaces(at), EndPlace \in Nat, NEW P \in Pipes
    PROVE  \E n \in Nat : WaitsAt(P, n, at)
<1>1. CASE queue[P] = <<>>
  <2> PICK i, e : i = at[P] /\ e = EndPlace
    OBVIOUS
  <2>1. i \in Nat /\ e \in Nat /\ Runs(<<>>, Program, i, e, Places(P))
    BY <1>1 DEF Queues
  <2>2. \A x \in Places(P) : ~(i <= x /\ x < e)
    BY <2>1, RunsOut, Zenon
  <2>3. \A x \in Places(P) : x < e => x < i
    <3>1. Places(P) \subseteq Nat
      BY DEF Places
    <3> QED BY <2>1, <2>2, <3>1
  <2>4. WaitsAt(P, e, at)
    BY <1>1, <2>3 DEF WaitsAt
  <2> QED BY <2>1, <2>4
<1>2. CASE queue[P] # <<>>
  <2>1. PICK p \in Nat : IsNext(P, p, at) /\ Head(queue[P]) = Code(p)
    BY <1>2, HeadIsNext
  <2>2. \A x \in Places(P) : x < p => x < at[P]
    BY <2>1, NextFacts
  <2>3. p < EndPlace
    BY <2>1 DEF IsNext
  <2> QED BY <1>2, <2>1, <2>2, <2>3 DEF WaitsAt
<1> QED BY <1>1, <1>2

LEMMA FirstGoesOn ==
    ASSUME NEW at, Queues(at), AllPlaces(at), Counted(at), EndPlace \in Nat,
           NEW P \in Pipes, NEW p \in Nat, WaitsAt(P, p, at), queue[P] # <<>>,
           \A Q \in Pipes : \E n \in Nat : p <= n /\ WaitsAt(Q, n, at)
    PROVE  CanExecute(P)
<1>1. IsNext(P, p, at) /\ Head(queue[P]) = Code(p)
  BY DEF WaitsAt
<1>2. ASSUME NEW Q \in Pipes, NEW z \in Places(Q), z < p PROVE z < at[Q]
  <2>1. PICK n \in Nat : p <= n /\ WaitsAt(Q, n, at)
    OBVIOUS
  <2>2. z \in Nat
    BY DEF Places
  <2>3. z < n
    BY <1>2, <2>1, <2>2
  <2> QED BY <2>1, <2>3 DEF WaitsAt
<1>3. Present(p)
  BY <1>1, NextFacts
<1>4. Code(p).waits \subseteq Events
  BY <1>3, WaitsAreEvents
<1>5. \A e \in Code(p).waits : events[e] > 0
  BY <1>1, <1>2, <1>4, FirstNotBlocked
<1> QED BY <1>1, <1>5 DEF CanExecute

LEMMA PipesGoOn ==
    ASSUME Inv, ~Drained
    PROVE  \E P \in Pipes : CanExecute(P)
<1>1. PICK at : At(at)
  BY DEF Inv
<1>2. Types /\ Queues(at) /\ Counted(at)
  BY <1>1 DEF Inv, At
<1>3. EndPlace \in Nat /\ AllPlaces(at)
  BY <1>2, EndPlaceFacts DEF Types, Queues, AllPlaces
<1>4. \A P \in Pipes : \E n \in Nat : WaitsAt(P, n, at)
  BY <1>2, <1>3, WaitsSomewhere
<1>5. PICK x \in Nat : WaitsAt("MTE2", x, at)
  BY <1>4, PipeNames
<1>6. PICK y \in Nat : WaitsAt("V", y, at)
  BY <1>4, PipeNames
<1>7. PICK z \in Nat : WaitsAt("MTE3", z, at)
  BY <1>4, PipeNames
<1>8. \E P \in Pipes : \E p \in Nat :
         /\ WaitsAt(P, p, at) /\ \A Q \in Pipes : \E n \in Nat : p <= n /\ WaitsAt(Q, n, at)
  <2>1. CASE x <= y /\ x <= z
    <3>1. \A Q \in Pipes : \E n \in Nat : x <= n /\ WaitsAt(Q, n, at)
      BY <1>5, <1>6, <1>7, <2>1 DEF Pipes
    <3> QED BY <1>5, <3>1, PipeNames
  <2>2. CASE y <= x /\ y <= z
    <3>1. \A Q \in Pipes : \E n \in Nat : y <= n /\ WaitsAt(Q, n, at)
      BY <1>5, <1>6, <1>7, <2>2 DEF Pipes
    <3> QED BY <1>6, <3>1, PipeNames
  <2>3. CASE z <= x /\ z <= y
    <3>1. \A Q \in Pipes : \E n \in Nat : z <= n /\ WaitsAt(Q, n, at)
      BY <1>5, <1>6, <1>7, <2>3 DEF Pipes
    <3> QED BY <1>7, <3>1, PipeNames
  <2> QED BY <2>1, <2>2, <2>3
<1>9. PICK P \in Pipes, p \in Nat :
         /\ WaitsAt(P, p, at) /\ \A Q \in Pipes : \E n \in Nat : p <= n /\ WaitsAt(Q, n, at)
  BY <1>8
<1>10. queue[P] # <<>>
  <2> SUFFICES ASSUME queue[P] = <<>> PROVE FALSE
    OBVIOUS
  <2>1. p = EndPlace
    BY <1>9 DEF WaitsAt
  <2>2. PICK Q \in Pipes : queue[Q] # <<>>
    BY DEF Drained
  <2>3. PICK n \in Nat : p <= n /\ WaitsAt(Q, n, at)
    BY <1>9
  <2>4. n < EndPlace
    BY <2>2, <2>3 DEF WaitsAt
  <2> QED BY <1>3, <2>1, <2>3, <2>4
<1>11. CanExecute(P)
  BY <1>2, <1>3, <1>9, <1>10, FirstGoesOn
<1> QED BY <1>11

LEMMA ReadyReached ==
    ASSUME NEW at, AllPlaces(at), Counted(at), NEW n \in Nat, n <= NumStacks,
           \A h \in 0..n-1 : 8 * (32 * h + 7) + 5 < at["MTE3"]
    PROVE  n <= events[softmaxReady]
<1> PICK S : S = Passed(Readies, 5, at["MTE3"])
  OBVIOUS
<1>1. IsFiniteSet(S) /\ Cardinality(S) \in Nat /\ events[softmaxReady] = Cardinality(S)
  BY ReadyCount
<1>2. ASSUME NEW h \in 0..n-1 PROVE h \in Nat /\ 32 * h + 7 \in S
  <2>1. h \in Nat /\ h \in Stacks
    BY StackAssumption DEF Stacks
  <2> PICK c : c = CycleAt(h, 0, 7)
    OBVIOUS
  <2>2. c \in Nat /\ StackAt(c) = h /\ Part(c) = 0 /\ Turn(c) = 7
    BY <2>1, CycleOf
  <2>3. c = 32 * h + 7
    BY <2>1 DEF CycleAt
  <2>4. IsReady(c)
    BY <2>1, <2>2 DEF IsReady
  <2>5. c \in S
    BY <2>2, <2>3, <2>4 DEF Passed, Readies
  <2> QED BY <2>1, <2>3, <2>5
<1> DEFINE f == [h \in 0..n-1 |-> 32 * h + 7]
<1>3. f \in Injection(0..n-1, S)
  <2>1. f \in [0..n-1 -> S]
    BY <1>2
  <2>2. ASSUME NEW h \in 0..n-1, NEW j \in 0..n-1, f[h] = f[j] PROVE h = j
    BY <1>2, <2>2
  <2> QED BY <2>1, <2>2 DEF Injection, IsInjective
<1>4. IsFiniteSet(0..n-1) /\ Cardinality(0..n-1) = n
  <2>1. n - 1 \in Int /\ 0 \in Int
    OBVIOUS
  <2>2. IsFiniteSet(0..n-1)
        /\ Cardinality(0..n-1) = IF 0 > n - 1 THEN 0 ELSE n - 1 - 0 + 1
    BY <2>1, FS_Interval
  <2> QED BY <2>2
<1>5. Cardinality(0..n-1) <= Cardinality(S)
  BY <1>1, <1>3, FS_Injection
<1> QED BY <1>1, <1>4, <1>5

(* The scalar unit waits for pvReady only while softmaxReady is on its way *)
(* in MTE3.                                                                *)
ScalarGoesOn ==
    \/ Stage1Due(scalar)
    \/ Stage2Due(scalar) /\ events[softmaxReady] > scalar.two
    \/ Finished(scalar) /\ ~returned

LEMMA ScalarNotBlocked ==
    ASSUME Inv, Drained, ~AllRun
    PROVE  ScalarGoesOn
<1>1. PICK at : At(at)
  BY DEF Inv
<1>2. Types /\ Walk /\ Queues(at) /\ Counted(at)
  BY <1>1 DEF Inv, At
<1>3. EndPlace \in Nat /\ AllPlaces(at)
  BY <1>2, EndPlaceFacts DEF Types, Queues, AllPlaces
<1> PICK m, t : m = scalar.one /\ t = scalar.two
  OBVIOUS
<1>4. ~returned
  BY DEF AllRun
<1>5. /\ m \in Nat /\ t \in Nat /\ m <= NumStacks /\ t <= NumStacks /\ NumStacks \in Nat
      /\ t <= m /\ m <= t + 3
  BY <1>2, EndPlaceFacts DEF Types, Walk
<1>6. CASE t = m
  <2>1. CASE m = NumStacks
    BY <1>4, <1>6, <2>1 DEF ScalarGoesOn, Finished
  <2>2. CASE m # NumStacks
    <3>1. m \in Stacks /\ m < NumStacks
      BY <1>5, <2>2 DEF Stacks
    <3>2. First[m] <= t /\ m - t <= 2
      BY <1>5, <1>6, <3>1, StackFacts
    <3>3. Stage1Due(scalar)
      BY <3>1, <3>2 DEF Stage1Due, PreLaunch
    <3> QED BY <3>3 DEF ScalarGoesOn
  <2> QED BY <2>1, <2>2
<1>7. CASE t # m
  <2>1. t < m
    BY <1>5, <1>7
  <2>2. Stage1Due(scalar) \/ Stage2Due(scalar)
    BY <2>1 DEF Stage2Due
  <2>3. EndPlace = 64 * (3 * m + t)
    <3>1. EndPlace = 64 * (3 * m + t) + 0
      BY <1>4 DEF EndPlace
    <3> QED BY <1>5, <3>1
  <2>4. ASSUME NEW h \in 0..m-1 PROVE 8 * (32 * h + 7) + 5 < at["MTE3"]
    <3>1. h \in Nat /\ h < m /\ h \in Stacks
      BY <1>5 DEF Stacks
    <3> PICK c : c = CycleAt(h, 0, 7)
      OBVIOUS
    <3>2. c \in Nat /\ StackAt(c) = h /\ Part(c) = 0 /\ Turn(c) = 7
      BY <3>1, CycleOf
    <3>3. c = 32 * h + 7
      BY <3>1 DEF CycleAt
    <3>4. IsReady(c)
      BY <3>1, <3>2 DEF IsReady
    <3> PICK x : x = 8 * c + 5
      OBVIOUS
    <3>5. x \in Places("MTE3")
      <4>1. PresentIn(c, 5)
        BY <3>4 DEF PresentIn
      <4> QED BY <3>2, <4>1, PlaceIn, PipeNames
    <3>6. x < EndPlace
      BY <1>5, <2>3, <3>1, <3>3
    <3> PICK i, e : i = at["MTE3"] /\ e = EndPlace
      OBVIOUS
    <3>7. i \in Nat /\ e \in Nat /\ Runs(<<>>, Program, i, e, Places("MTE3"))
      BY <1>2, <1>3, PipeNames DEF Queues, Drained
    <3>8. ~(i <= x /\ x < e)
      BY <3>5, <3>7, RunsOut, Zenon
    <3>9. x \in Nat
      BY <3>2
    <3> QED BY <3>3, <3>6, <3>7, <3>8, <3>9
  <2>5. m <= events[softmaxReady]
    BY <1>2, <1>3, <1>5, <2>4, ReadyReached
  <2>6. softmaxReady \in Events
    BY DEF Events
  <2>7. events[softmaxReady] \in Nat
    BY <1>2, <2>6 DEF Types
  <2>8. events[softmaxReady] > t
    BY <1>5, <2>1, <2>5, <2>7
  <2> QED BY <2>2, <2>8 DEF ScalarGoesOn
<1> QED BY <1>6, <1>7

-----------------------------------------------------------------------------
(* The results.                                                            *)

(* For every number, length and division into tasks of the stacks, the     *)
(* pipes are always somewhere in the program that the scalar unit spells   *)
(* out with its calls, the events count who is where, and each buffer      *)
(* holds what its last writer has left in it.                              *)
THEOREM PipesInProgram == Spec => []Inv
<1>1. Init => Inv
  BY InitInv
<1>2. Inv /\ [Next]_vars => Inv'
  BY NextInv
<1> QED BY <1>1, <1>2, PTL DEF Spec

(* The softmax finds the rows of S it loaded in its half of ls, and MTE3   *)
(* the rows of P the vector unit cast in its half of lp                    *)
(* (block_epilogue_online_softmax_no_mask.hpp:623-661, 690-731).           *)
THEOREM SoftmaxBuffersKept == Spec => []PingPongIntact
<1>1. Inv => PingPongIntact
  BY InvFinds DEF PingPongIntact, Finds
<1> QED BY <1>1, PipesInProgram, PTL

(* MTE3 copies out O and the lse chunks of the task it copies for, though  *)
(* no event protects go and the lse banks from their next writer: pvReady  *)
(* and the two banks do                                                    *)
(* (block_epilogue_rescale_o_no_split_row.hpp:257-269, 383-418).           *)
THEOREM OutputKept == Spec => []OutputIntact
<1>1. Inv => OutputIntact
  BY InvFinds, PipeNames DEF OutputIntact, Finds
<1> QED BY <1>1, PipesInProgram, PTL

(* Every fold takes O, OTmp, dm, the sum and the maximum of the stacks it  *)
(* is meant to, with the softmax up to three stacks ahead                  *)
(* (rescale: 164-239, 377-386; softmax: 443-485, 549-576, dm slots).       *)
THEOREM FoldsMatchingPieces == Spec => []FoldFindsItsPieces
<1>1. Inv => FoldFindsItsPieces
  BY InvFinds, PipeNames DEF FoldFindsItsPieces, Finds
<1> QED BY <1>1, PipesInProgram, PTL

(* When the pipes have executed everything, final waits included, no event *)
(* is left raised for the next kernel on the core: the waits at the end    *)
(* take exactly what the credits of the start have become                  *)
(* (kernel_fa_fp32_stage1.cpp:476-487, 733-744).  That the pipes get there *)
(* is the other half of KernelTakesItsEvents.                              *)
THEOREM NothingLeftRaised == Spec => [](AllRun => EventsTaken)
<1>1. Inv => (AllRun => EventsTaken)
  BY NothingRaised DEF EventsTaken
<1> QED BY <1>1, PipesInProgram, PTL

(* Somebody can go on: a pipe, whose next instruction finds what it waits  *)
(* for, or the scalar unit; or the kernel is through.                      *)
NobodyStuck == AllRun \/ ScalarGoesOn \/ \E P \in Pipes : CanExecute(P)

(* The kernel never stops halfway: the events between the pipes, the two   *)
(* halves of ls and lp and the credits never close a circle, whatever the  *)
(* lengths of the stacks (the waits of softmax: 623-661, 690-731; of       *)
(* rescale: 164-269, 383-418).                                             *)
THEOREM PipesNeverStuck == Spec => []NobodyStuck
<1>1. Inv => NobodyStuck
  BY PipesGoOn, ScalarNotBlocked DEF NobodyStuck
<1> QED BY <1>1, PipesInProgram, PTL
=============================================================================
