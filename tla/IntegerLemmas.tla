---------------------------- MODULE IntegerLemmas ----------------------------
(***************************************************************************)
(* Facts about products, quotients and remainders that the proofs about    *)
(* tilings and loops keep needing.  The kernels divide positive numbers by *)
(* positive numbers, and so do these lemmas.  Then what RunningTotal is:   *)
(* its recursion is well founded, and it never falls.  Last, sequences as  *)
(* functions, for the queues of the pipes.                                 *)
(***************************************************************************)
EXTENDS RunningTotals, WellFoundedInduction, SequenceTheorems, TLAPS

(* Facts about products that the SMT solver finds only when it is asked    *)
(* for nothing else.                                                       *)
LEMMA ProductClosed ==
    ASSUME NEW a \in Nat, NEW b \in Nat
    PROVE  a * b \in Nat
  OBVIOUS

(* A factor may be raised.                                                 *)
LEMMA ProductMonotone ==
    ASSUME NEW a \in Int, NEW b \in Int, a <= b, NEW n \in Nat
    PROVE  /\ a * n \in Int /\ b * n \in Int
           /\ a * n <= b * n
  OBVIOUS

(* A positive factor may be cancelled.                                     *)
LEMMA ProductCompare ==
    ASSUME NEW a \in Int, NEW b \in Int, NEW n \in Nat \ {0}
    PROVE  a * n < b * n <=> a < b
  OBVIOUS

(* One more of n.                                                          *)
LEMMA ProductNext ==
    ASSUME NEW a \in Int, NEW n \in Int
    PROVE  a * n \in Int /\ (a + 1) * n = a * n + n
  OBVIOUS

(* A part within a part.                                                   *)
LEMMA Within ==
    ASSUME NEW a \in Nat, NEW k \in Nat, NEW z \in Nat, NEW l \in Nat, k + z <= l,
           NEW t, t = a + k
    PROVE  t >= a /\ t + z <= a + l
  OBVIOUS

(* A quotient is the only number with a remainder below the divisor.       *)
LEMMA QuotientFacts ==
    ASSUME NEW a \in Nat, NEW n \in Nat \ {0}
    PROVE  /\ a \div n \in Nat /\ a % n \in 0..(n - 1)
           /\ (a \div n) * n \in Nat
           /\ a = (a \div n) * n + (a % n)
  OBVIOUS

(* And a number with a remainder has its quotient.                         *)
LEMMA QuotientUnique ==
    ASSUME NEW q \in Nat, NEW n \in Nat \ {0}, NEW r \in 0..(n - 1)
    PROVE  /\ q * n + r \in Nat
           /\ (q * n + r) \div n = q /\ (q * n + r) % n = r
  OBVIOUS

(* Below m times n, the quotient by n is below m.                          *)
LEMMA QuotientBelow ==
    ASSUME NEW m \in Nat, NEW n \in Nat \ {0}, NEW a \in Nat, a < m * n
    PROVE  /\ a \div n \in 0..(m - 1)
           /\ (a \div n) * n \in Nat
           /\ (a \div n) * n <= a /\ a < (a \div n) * n + n
<1> DEFINE q == a \div n
<1>1. q \in Nat /\ a % n \in 0..(n - 1) /\ q * n \in Nat /\ a = q * n + (a % n)
  BY QuotientFacts
<1> HIDE DEF q
<1>2. q * n <= a /\ a < q * n + n
  BY <1>1
<1>3. m * n \in Nat /\ q * n < m * n
  BY <1>1, <1>2
<1>4. q < m
  BY <1>1, <1>3, ProductCompare
<1> QED BY <1>1, <1>2, <1>4 DEF q

(* The quotient rounded up.                                                *)
LEMMA CeilingFacts ==
    ASSUME NEW a \in Nat, NEW n \in Nat \ {0}, NEW q, q = (a + n - 1) \div n
    PROVE  /\ q \in Nat
           /\ (q - 1) * n < a /\ a <= q * n
           /\ (q = 0) <=> (a = 0)
  OBVIOUS

(* It is the only number whose multiple reaches a first.                   *)
LEMMA CeilingUnique ==
    ASSUME NEW a \in Nat, NEW n \in Nat \ {0}, NEW q \in Nat,
           (q - 1) * n < a, a <= q * n
    PROVE  (a + n - 1) \div n = q
  OBVIOUS

(* Who counts in steps of n stays below a as long as he has counted less   *)
(* than the quotient rounded up.                                           *)
LEMMA StepsBelow ==
    ASSUME NEW a \in Nat, NEW n \in Nat \ {0}, NEW c \in Int
    PROVE  c * n < a <=> c < (a + n - 1) \div n
  OBVIOUS

-----------------------------------------------------------------------------
(* Induction on numbers, for sets instead of predicates: a set of bad      *)
(* numbers that is not empty has a least one.                              *)
LEMMA LeastNumber ==
    ASSUME NEW T \in SUBSET Nat, T # {}
    PROVE  \E m \in T : \A n \in T : m <= n
<1> DEFINE R == {ss \in Nat \X Nat : ss[1] < ss[2]}
<1>1. OpToRel(<, Nat) = R
  BY DEF OpToRel
<1>2. IsWellFoundedOn(R, Nat)
  BY <1>1, NatLessThanWellFounded
<1>3. \E m \in T : \A n \in T : ~ (<<n, m>> \in R)
  <2> HIDE DEF R
  <2> QED BY <1>2, WFMin
<1>4. \A m \in T : \A n \in T : (<<n, m>> \in R) <=> n < m
  OBVIOUS
<1>5. PICK m \in T : \A n \in T : ~ (n < m)
  BY <1>3, <1>4
<1> QED BY <1>5

(* The recursion of RunningTotal has a solution: the least length for      *)
(* which it had none would be one more than a length for which it has.     *)
TotalsOf(s, n) ==
    {f \in [0..n -> Nat] : f[0] = 0 /\ \A i \in 1..n : f[i] = f[i - 1] + s[i]}

LEMMA TotalsExist ==
    ASSUME NEW s \in Seq(Nat)
    PROVE  \A n \in 0..Len(s) : TotalsOf(s, n) # {}
<1> DEFINE Bad == {n \in 0..Len(s) : TotalsOf(s, n) = {}}
<1> SUFFICES ASSUME Bad # {} PROVE FALSE
  OBVIOUS
<1>1. PICK m \in Bad : \A n \in Bad : m <= n
  <2>1. Bad \subseteq Nat
    OBVIOUS
  <2> QED BY <2>1, LeastNumber
<1>2. m # 0
  <2>1. [i \in 0..0 |-> 0] \in TotalsOf(s, 0)
    BY DEF TotalsOf
  <2> QED BY <2>1
<1>3. m - 1 \in 0..Len(s) /\ m - 1 \notin Bad
  BY <1>1, <1>2
<1>4. PICK f \in TotalsOf(s, m - 1) : TRUE
  BY <1>3
<1> DEFINE g == [i \in 0..m |-> IF i = m THEN f[m - 1] + s[m] ELSE f[i]]
<1>5. g \in TotalsOf(s, m)
  <2>1. /\ s[m] \in Nat /\ m - 1 \in 0..(m - 1) /\ m \in 1..Len(s)
        /\ f \in [0..(m - 1) -> Nat] /\ f[0] = 0
        /\ \A i \in 1..(m - 1) : f[i] = f[i - 1] + s[i]
    BY <1>1, <1>2, <1>4 DEF TotalsOf
  <2>2. g \in [0..m -> Nat]
    BY <2>1
  <2>3. g[0] = 0
    BY <2>1
  <2>4. ASSUME NEW i \in 1..m PROVE g[i] = g[i - 1] + s[i]
    <3>1. CASE i = m
      BY <2>1, <3>1
    <3>2. CASE i # m
      <4>1. i \in 1..(m - 1) /\ i - 1 \in 0..m /\ i \in 0..m /\ i - 1 # m
        BY <2>1, <3>2
      <4> QED BY <2>1, <3>2, <4>1
    <3> QED BY <3>1, <3>2
  <2> HIDE DEF g
  <2> QED BY <2>2, <2>3, <2>4 DEF TotalsOf
<1> QED BY <1>1, <1>5

(* RunningTotal adds up the terms of its sequence.                         *)
LEMMA RunningTotalFacts ==
    ASSUME NEW s \in Seq(Nat)
    PROVE  /\ RunningTotal(s) \in [0..Len(s) -> Nat]
           /\ RunningTotal(s)[0] = 0
           /\ \A i \in 1..Len(s) : RunningTotal(s)[i] = RunningTotal(s)[i - 1] + s[i]
<1> DEFINE Solves(f) == f = [i \in 0..Len(s) |-> IF i = 0 THEN 0 ELSE f[i - 1] + s[i]]
           total == CHOOSE f : Solves(f)
<1>1. RunningTotal(s) = total
  BY DEF RunningTotal
<1>2. Len(s) \in Nat /\ Len(s) \in 0..Len(s)
  OBVIOUS
<1>3. \E f : Solves(f)
  <2>1. PICK f \in TotalsOf(s, Len(s)) : TRUE
    BY <1>2, TotalsExist
  <2>2. f = [i \in 0..Len(s) |-> IF i = 0 THEN 0 ELSE f[i - 1] + s[i]]
    BY <2>1 DEF TotalsOf
  <2> QED BY <2>2
<1>4. Solves(total)
  <2> HIDE DEF Solves
  <2> QED BY <1>3
<1>5. /\ total[0] = 0 /\ total = [i \in 0..Len(s) |-> total[i]]
      /\ \A i \in 1..Len(s) : total[i] = total[i - 1] + s[i]
  <2> HIDE DEF total
  <2> QED BY <1>2, <1>4
<1>6. \A i \in 0..Len(s) : total[i] \in Nat
  <2> DEFINE Bad == {i \in 0..Len(s) : total[i] \notin Nat}
  <2> HIDE DEF total
  <2> SUFFICES ASSUME Bad # {} PROVE FALSE
    OBVIOUS
  <2>1. PICK m \in Bad : \A n \in Bad : m <= n
    <3>1. Bad \subseteq Nat
      OBVIOUS
    <3> QED BY <3>1, LeastNumber
  <2>2. m # 0 /\ m - 1 \in 0..Len(s) /\ m - 1 \notin Bad /\ m \in 1..Len(s)
    BY <1>5, <2>1
  <2>3. total[m - 1] \in Nat /\ s[m] \in Nat
    BY <2>2
  <2>4. total[m] = total[m - 1] + s[m]
    BY <1>5, <2>2
  <2> QED BY <2>3, <2>4
<1> QED
  <2> HIDE DEF total
  <2> QED BY <1>1, <1>5, <1>6

(* A running total does not fall.                                          *)
LEMMA RunningTotalMonotone ==
    ASSUME NEW s \in Seq(Nat), NEW i \in 0..Len(s), NEW j \in i..Len(s)
    PROVE  RunningTotal(s)[i] <= RunningTotal(s)[j]
<1> DEFINE total == RunningTotal(s)
           Bad == {n \in i..Len(s) : ~ (total[i] <= total[n])}
<1>1. /\ \A n \in 0..Len(s) : total[n] \in Nat
      /\ \A n \in 1..Len(s) : total[n] = total[n - 1] + s[n]
  BY RunningTotalFacts
<1> HIDE DEF total
<1> SUFFICES ASSUME Bad # {} PROVE FALSE
  BY DEF total
<1>2. PICK m \in Bad : \A n \in Bad : m <= n
  <2>1. Bad \subseteq Nat
    OBVIOUS
  <2> QED BY <2>1, LeastNumber
<1>3. m # i /\ m - 1 \in i..Len(s) /\ m - 1 \notin Bad /\ m \in 1..Len(s)
  BY <1>1, <1>2
<1>4. total[m] = total[m - 1] + s[m] /\ s[m] \in Nat /\ total[m - 1] \in Nat
  BY <1>1, <1>3
<1> QED BY <1>1, <1>3, <1>4

(* The totals cut the numbers below the last of them into intervals: each  *)
(* number is in the interval of one term of the sum, and of no other.      *)
LEMMA TermOfNumber ==
    ASSUME NEW s \in Seq(Nat), NEW g \in Nat, g < RunningTotal(s)[Len(s)]
    PROVE  \E t \in 1..Len(s) : RunningTotal(s)[t - 1] <= g /\ g < RunningTotal(s)[t]
<1> DEFINE total == RunningTotal(s)
           Above == {n \in 0..Len(s) : g < total[n]}
<1>1. /\ \A n \in 0..Len(s) : total[n] \in Nat
      /\ total[0] = 0
  BY RunningTotalFacts
<1> HIDE DEF total
<1>2. PICK m \in Above : \A n \in Above : m <= n
  <2>1. Above \subseteq Nat /\ Len(s) \in Above
    BY DEF total
  <2> QED BY <2>1, LeastNumber
<1>3. m \in 1..Len(s) /\ m - 1 \in 0..Len(s) /\ m - 1 \notin Above
  BY <1>1, <1>2
<1> QED BY <1>1, <1>2, <1>3 DEF total

(* No number is in the intervals of two terms.                             *)
LEMMA TermUnique ==
    ASSUME NEW s \in Seq(Nat), NEW g \in Nat, NEW t \in 1..Len(s), NEW u \in 1..Len(s),
           RunningTotal(s)[t - 1] <= g, g < RunningTotal(s)[t],
           RunningTotal(s)[u - 1] <= g, g < RunningTotal(s)[u]
    PROVE  t = u
<1> DEFINE total == RunningTotal(s)
<1>1. \A n \in 0..Len(s) : total[n] \in Nat
  BY RunningTotalFacts
<1>2. ASSUME NEW v \in 1..Len(s), NEW w \in 1..Len(s), v < w, g < total[v]
      PROVE  ~ (total[w - 1] <= g)
  <2>1. v \in 0..Len(s) /\ w - 1 \in v..Len(s) /\ w - 1 \in 0..Len(s)
    BY <1>2
  <2>2. total[v] <= total[w - 1]
    BY <2>1, RunningTotalMonotone
  <2>3. total[v] \in Nat /\ total[w - 1] \in Nat
    BY <1>1, <2>1
  <2> HIDE DEF total
  <2> QED BY <1>2, <2>2, <2>3
<1> QED BY <1>2

(* The running total of four terms, written out.                           *)
LEMMA FourTotal ==
    ASSUME NEW s \in [1..4 -> Nat]
    PROVE  RunningTotal(s)[4] = s[1] + s[2] + s[3] + s[4]
<1>1. s \in Seq(Nat) /\ Len(s) = 4
  <2>1. s = [i \in 1..4 |-> s[i]] /\ \A i \in 1..4 : s[i] \in Nat
    OBVIOUS
  <2>2. [i \in 1..4 |-> s[i]] \in Seq(Nat) /\ Len([i \in 1..4 |-> s[i]]) = 4
    BY <2>1
  <2> QED BY <2>1, <2>2
<1>2. /\ RunningTotal(s)[0] = 0
      /\ \A i \in 1..4 : RunningTotal(s)[i] = RunningTotal(s)[i - 1] + s[i]
  BY <1>1, RunningTotalFacts
<1>3. /\ RunningTotal(s)[1] = s[1]
      /\ RunningTotal(s)[2] = RunningTotal(s)[1] + s[2]
      /\ RunningTotal(s)[3] = RunningTotal(s)[2] + s[3]
      /\ RunningTotal(s)[4] = RunningTotal(s)[3] + s[4]
  BY <1>2
<1> QED BY <1>3

-----------------------------------------------------------------------------
(* Queues.  A queue is known by its length and by what is at each place.   *)
HasLength(q, n) == n \in Nat /\ q = [i \in 1..n |-> q[i]]

(* A function on 1..n is a sequence of length n.                           *)
LEMMA SequenceFacts ==
    ASSUME NEW q, NEW n, HasLength(q, n)
    PROVE  /\ q \in Seq({q[i] : i \in 1..n}) /\ Len(q) = n
           /\ q = <<>> <=> n = 0
<1> DEFINE S == {q[i] : i \in 1..n}
<1>1. n \in Nat /\ q \in [1..n -> S]
  <2>1. q = [i \in 1..n |-> q[i]] /\ \A i \in 1..n : q[i] \in S
    BY DEF HasLength
  <2> QED BY <2>1 DEF HasLength
<1> HIDE DEF S
<1>2. q \in Seq(S) /\ Len(q) = n
  BY <1>1
<1> QED BY <1>1, <1>2 DEF S

(* What one sequence appended to another has at each place.                *)
Joined(q, p) == q \o p

LEMMA Appended ==
    ASSUME NEW q, NEW n, HasLength(q, n), NEW p, NEW m, HasLength(p, m), NEW r,
           r = Joined(q, p)
    PROVE  /\ HasLength(r, n + m)
           /\ \A i \in 1..n : r[i] = q[i]
           /\ \A i \in 1..m : r[n + i] = p[i]
<1> DEFINE S == {q[i] : i \in 1..n} \cup {p[i] : i \in 1..m}
<1>1. n \in Nat /\ m \in Nat
  BY DEF HasLength
<1>2. q \in Seq(S) /\ Len(q) = n /\ p \in Seq(S) /\ Len(p) = m
  <2>1. q \in Seq({q[i] : i \in 1..n}) /\ Len(q) = n
    BY SequenceFacts
  <2>2. p \in Seq({p[i] : i \in 1..m}) /\ Len(p) = m
    BY SequenceFacts
  <2> QED BY <2>1, <2>2
<1> HIDE DEF S
<1>3. /\ r \in Seq(S) /\ Len(r) = n + m
      /\ \A i \in 1..(n + m) : r[i] = IF i <= n THEN q[i] ELSE p[i - n]
  <2>1. /\ q \o p \in Seq(S) /\ Len(q \o p) = Len(q) + Len(p)
        /\ \A i \in 1..(Len(q) + Len(p)) :
              (q \o p)[i] = IF i <= Len(q) THEN q[i] ELSE p[i - Len(q)]
    BY <1>2, ConcatProperties, Zenon
  <2>2. r = q \o p
    BY DEF Joined
  <2> QED BY <1>2, <2>1, <2>2, Zenon
<1>4. r = [i \in 1..(n + m) |-> r[i]]
  <2>1. r \in [1..(n + m) -> S]
    BY <1>3, LenProperties
  <2> QED BY <2>1
<1>5. HasLength(r, n + m)
  <2>1. n + m \in Nat
    BY <1>1
  <2> QED BY <1>4, <2>1, Zenon DEF HasLength
<1>6. \A i \in 1..n : r[i] = q[i]
  BY <1>1, <1>3
<1>7. \A i \in 1..m : r[n + i] = p[i]
  BY <1>1, <1>3
<1> QED BY <1>5, <1>6, <1>7

(* The head and the rest of a sequence that is not empty.                  *)
LEMMA Rest ==
    ASSUME NEW q, NEW n, HasLength(q, n), n # 0
    PROVE  /\ HasLength(Tail(q), n - 1) /\ Head(q) = q[1]
           /\ \A i \in 1..(n - 1) : Tail(q)[i] = q[i + 1]
<1> DEFINE S == {q[i] : i \in 1..n}
<1>1. n \in Nat /\ q \in Seq(S) /\ Len(q) = n
  BY SequenceFacts DEF HasLength
<1> HIDE DEF S
<1>2. Tail(q) \in Seq(S) /\ Len(Tail(q)) = n - 1
  BY <1>1
<1>3. Tail(q) = [i \in 1..(n - 1) |-> Tail(q)[i]]
  <2>1. Tail(q) \in [1..(n - 1) -> S]
    BY <1>2, LenProperties
  <2> QED BY <2>1
<1> QED BY <1>1, <1>2, <1>3 DEF HasLength

(* The empty sequence has no other length.                                 *)
LEMMA EmptyLength ==
    \A n : HasLength(<<>>, n) => n = 0
  BY DEF HasLength

(* Short sequences.                                                        *)
LEMMA ShortSequences ==
    /\ HasLength(<<>>, 0)
    /\ \A x : HasLength(<<x>>, 1) /\ <<x>>[1] = x
    /\ \A x, y : HasLength(<<x, y>>, 2) /\ <<x, y>>[1] = x /\ <<x, y>>[2] = y
    /\ \A x, y, z : /\ HasLength(<<x, y, z>>, 3)
                     /\ <<x, y, z>>[1] = x /\ <<x, y, z>>[2] = y /\ <<x, y, z>>[3] = z
<1>1. HasLength(<<>>, 0)
  BY DEF HasLength
<1>2. ASSUME NEW x PROVE HasLength(<<x>>, 1) /\ <<x>>[1] = x
  BY DEF HasLength
<1>3. ASSUME NEW x, NEW y
      PROVE  HasLength(<<x, y>>, 2) /\ <<x, y>>[1] = x /\ <<x, y>>[2] = y
  BY DEF HasLength
<1>4. ASSUME NEW x, NEW y, NEW z
      PROVE  /\ HasLength(<<x, y, z>>, 3)
             /\ <<x, y, z>>[1] = x /\ <<x, y, z>>[2] = y /\ <<x, y, z>>[3] = z
  BY DEF HasLength
<1> QED BY <1>1, <1>2, <1>3, <1>4

-----------------------------------------------------------------------------
(* s lists the members of S from a up to but without b in order: where S   *)
(* is the places of a program that a variant of it has, s is what is left  *)
(* of the program between two of them.                                     *)
Lists(s, n, a, b, S) ==
    /\ HasLength(s, n)
    /\ \A i \in 1..n : s[i] \in S /\ a <= s[i] /\ s[i] < b
    /\ \A i, j \in 1..n : i < j => s[i] < s[j]
    /\ \A p \in S : a <= p /\ p < b => \E i \in 1..n : s[i] = p

(* The first of a list, and the rest of it.                                *)
AllButFirst(s, n) == [i \in 1..(n - 1) |-> s[i + 1]]
LEMMA RestOfList ==
    ASSUME NEW s, NEW n \in Nat, NEW a \in Nat, NEW b \in Nat, NEW S, S \subseteq Nat,
           Lists(s, n, a, b, S), n # 0
    PROVE  /\ s[1] \in S /\ s[1] \in Nat /\ a <= s[1] /\ s[1] < b
           /\ \A x \in S : a <= x => ~(x < s[1])
           /\ Lists(AllButFirst(s, n), n - 1, s[1] + 1, b, S)
<1> PICK p, r : p = s[1] /\ r = AllButFirst(s, n)
  OBVIOUS
<1>1. n \in Nat /\ 1 \in 1..n
  OBVIOUS
<1>2. p \in S /\ p \in Nat /\ a <= p /\ p < b
  BY <1>1 DEF Lists
<1>3. ASSUME NEW i \in 1..n PROVE s[i] \in S /\ s[i] \in Nat /\ s[i] < b /\ (i # 1 => p < s[i])
  <2>1. s[i] \in S /\ s[i] \in Nat /\ s[i] < b
    BY DEF Lists
  <2>2. i # 1 => 1 < i
    BY <1>1
  <2>3. i # 1 => s[1] < s[i]
    BY <1>1, <2>2 DEF Lists
  <2> QED BY <2>1, <2>3
<1>4. ASSUME NEW x \in S, a <= x, x < p PROVE FALSE
  <2>1. x \in Nat /\ x < b
    BY <1>2, <1>4
  <2>2. PICK i \in 1..n : s[i] = x
    BY <1>4, <2>1 DEF Lists
  <2> QED BY <1>2, <1>3, <1>4, <2>1, <2>2
<1>5. HasLength(r, n - 1) /\ \A i \in 1..(n - 1) : r[i] = s[i + 1]
  BY <1>1 DEF HasLength, AllButFirst
<1>6. ASSUME NEW i \in 1..(n - 1) PROVE r[i] \in S /\ p + 1 <= r[i] /\ r[i] < b
  <2>1. i + 1 \in 1..n /\ i + 1 # 1 /\ r[i] = s[i + 1]
    BY <1>1, <1>5
  <2> QED BY <1>2, <1>3, <2>1
<1>7. ASSUME NEW i \in 1..(n - 1), NEW j \in 1..(n - 1), i < j PROVE r[i] < r[j]
  <2>1. i + 1 \in 1..n /\ j + 1 \in 1..n /\ i + 1 < j + 1
    BY <1>1, <1>7
  <2>2. s[i + 1] < s[j + 1]
    BY <2>1 DEF Lists
  <2> QED BY <1>5, <2>2
<1>8. ASSUME NEW x \in S, p + 1 <= x, x < b PROVE \E i \in 1..(n - 1) : r[i] = x
  <2>1. x \in Nat /\ a <= x /\ x # p
    BY <1>2, <1>8
  <2>2. PICK i \in 1..n : s[i] = x
    BY <1>8, <2>1 DEF Lists
  <2>3. i - 1 \in 1..(n - 1) /\ (i - 1) + 1 = i
    BY <1>1, <2>1, <2>2
  <2>4. r[i - 1] = x
    BY <1>5, <2>2, <2>3
  <2> QED BY <2>3, <2>4
<1>9. Lists(r, n - 1, p + 1, b, S)
  BY <1>5, <1>6, <1>7, <1>8 DEF Lists
<1> QED BY <1>2, <1>4, <1>9

(* Two lists, one behind the other.                                        *)
LEMMA ListsJoined ==
    ASSUME NEW s, NEW n, NEW a \in Nat, NEW b \in Nat, NEW S, S \subseteq Nat,
           Lists(s, n, a, b, S), NEW r, NEW m, NEW c \in Nat, Lists(r, m, b, c, S),
           a <= b, b <= c, NEW q, q = Joined(s, r)
    PROVE  Lists(q, n + m, a, c, S)
<1>1. HasLength(s, n) /\ HasLength(r, m) /\ n \in Nat /\ m \in Nat
  BY DEF Lists, HasLength
<1>2. /\ HasLength(q, n + m)
      /\ \A i \in 1..n : q[i] = s[i]
      /\ \A i \in 1..m : q[n + i] = r[i]
  BY <1>1, Appended
<1>3. ASSUME NEW i \in 1..n
      PROVE  q[i] = s[i] /\ s[i] \in S /\ s[i] \in Nat /\ a <= s[i] /\ s[i] < b
  BY <1>2 DEF Lists
<1>4. ASSUME NEW i \in 1..m
      PROVE  q[n + i] = r[i] /\ r[i] \in S /\ r[i] \in Nat /\ b <= r[i] /\ r[i] < c
  BY <1>2 DEF Lists
<1>5. ASSUME NEW i \in 1..(n + m) PROVE i \in 1..n \/ \E j \in 1..m : i = n + j
  <2>1. CASE i <= n
    BY <1>1, <2>1
  <2>2. CASE n < i
    <3>1. i - n \in 1..m /\ i = n + (i - n)
      BY <1>1, <2>2
    <3> QED BY <3>1
  <2> QED BY <1>1, <2>1, <2>2
<1>6. ASSUME NEW i \in 1..(n + m) PROVE q[i] \in S /\ a <= q[i] /\ q[i] < c
  <2>1. CASE i \in 1..n
    BY <1>3, <2>1
  <2>2. ASSUME NEW j \in 1..m, i = n + j PROVE q[i] \in S /\ a <= q[i] /\ q[i] < c
    BY <1>4, <2>2
  <2> QED BY <1>5, <2>1, <2>2
<1>7. ASSUME NEW i \in 1..(n + m), NEW j \in 1..(n + m), i < j PROVE q[i] < q[j]
  <2>1. CASE i \in 1..n /\ j \in 1..n
    <3>1. s[i] < s[j]
      BY <1>7, <2>1 DEF Lists
    <3> QED BY <1>3, <2>1, <3>1
  <2>2. ASSUME i \in 1..n, NEW k \in 1..m, j = n + k PROVE q[i] < q[j]
    <3>1. s[i] \in Nat /\ s[i] < b /\ q[i] = s[i]
      BY <1>3, <2>2
    <3>2. r[k] \in Nat /\ b <= r[k] /\ q[j] = r[k]
      BY <1>4, <2>2
    <3> QED BY <3>1, <3>2
  <2>3. ASSUME NEW k \in 1..m, i = n + k, NEW l \in 1..m, j = n + l PROVE q[i] < q[j]
    <3>1. k < l
      BY <1>1, <1>7, <2>3
    <3>2. r[k] < r[l]
      BY <3>1 DEF Lists
    <3> QED BY <1>4, <2>3, <3>2
  <2>4. ASSUME NEW k \in 1..m, i = n + k, j \in 1..n PROVE FALSE
    BY <1>1, <1>7, <2>4
  <2> QED BY <1>5, <2>1, <2>2, <2>3, <2>4
<1>8. ASSUME NEW p \in S, a <= p, p < c PROVE \E i \in 1..(n + m) : q[i] = p
  <2>1. CASE p < b
    <3>1. PICK i \in 1..n : s[i] = p
      BY <1>8, <2>1 DEF Lists
    <3>2. i \in 1..(n + m)
      BY <1>1
    <3> QED BY <1>3, <3>1, <3>2
  <2>2. CASE b <= p
    <3>1. PICK i \in 1..m : r[i] = p
      BY <1>8, <2>2 DEF Lists
    <3>2. n + i \in 1..(n + m)
      BY <1>1
    <3> QED BY <1>4, <3>1, <3>2
  <2>3. p \in Nat
    OBVIOUS
  <2> QED BY <2>1, <2>2, <2>3
<1> QED BY <1>2, <1>6, <1>7, <1>8 DEF Lists
=============================================================================
