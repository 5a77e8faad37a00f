--------------------------- MODULE ExtensionsProofs ---------------------------
(***************************************************************************)
(* Lemmas about lists, and what Dedupe and Resolve compute for every list. *)
(* The library's induction theorems take an operator, which the provers    *)
(* cannot instantiate; a least counterexample takes their place.           *)
(***************************************************************************)
EXTENDS Extensions, SequenceTheorems, WellFoundedInduction, TLAPS

-------------------------------------------------------------------------------
(***************************************************************************)
(* Lists.                                                                  *)
(***************************************************************************)

\* A function on 1 .. n is a list of n elements.
LEMMA FunctionIsSequence ==
    ASSUME NEW n \in Nat, NEW f, f = [i \in 1 .. n |-> f[i]]
    PROVE  /\ IsSequence(f)
           /\ Len(f) = n
           /\ DOMAIN f = 1 .. n
           /\ Range(f) = {f[i] : i \in 1 .. n}
<1>1. \A i \in 1 .. n : f[i] \in Range(f)
  BY DEF Range
<1>2. f \in [1 .. n -> Range(f)]
  BY <1>1
<1>3. Range(f) = {f[i] : i \in 1 .. n}
  BY DEF Range
<1> QED
  BY <1>2, <1>3 DEF IsSequence

\* A list over any set is a list.
LEMMA ListOf ==
    ASSUME NEW S, NEW list \in Seq(S)
    PROVE  IsSequence(list)
<1>1. Len(list) \in Nat /\ list = [i \in 1 .. Len(list) |-> list[i]]
  OBVIOUS
<1> QED
  BY <1>1, FunctionIsSequence

\* What is known of a list: where it is defined, and that its length is a number.
LEMMA SequenceDomain ==
    ASSUME NEW s, IsSequence(s)
    PROVE  /\ Len(s) \in Nat
           /\ DOMAIN s = 1 .. Len(s)
           /\ s = [i \in 1 .. Len(s) |-> s[i]]
BY LenProperties DEF IsSequence

\* Two lists in a row: the elements of the first, then those of the second.
LEMMA ConcatElements ==
    ASSUME NEW s, NEW u, IsSequence(s), IsSequence(u)
    PROVE  /\ IsSequence(s \o u)
           /\ Len(s) \in Nat /\ Len(u) \in Nat /\ Len(s \o u) = Len(s) + Len(u)
           /\ DOMAIN (s \o u) = 1 .. Len(s) + Len(u)
           /\ \A n \in 1 .. Len(s) : (s \o u)[n] = s[n]
           /\ \A n \in 1 .. Len(u) : (s \o u)[Len(s) + n] = u[n]
           /\ Range(s \o u) = Range(s) \cup Range(u)
<1> DEFINE R == Range(s) \cup Range(u)
           w == s \o u
<1>1. s \in Seq(R) /\ u \in Seq(R)
  BY SeqMonotonic DEF IsSequence
<1>2. /\ Len(s) \in Nat /\ DOMAIN s = 1 .. Len(s)
      /\ Len(u) \in Nat /\ DOMAIN u = 1 .. Len(u)
  BY SequenceDomain
<1> HIDE DEF R
<1>3. /\ w \in Seq(R) /\ Len(w) = Len(s) + Len(u)
      /\ DOMAIN w = 1 .. Len(s) + Len(u)
      /\ \A n \in 1 .. Len(s) : w[n] = s[n]
      /\ \A n \in 1 .. Len(u) : w[Len(s) + n] = u[n]
  BY <1>1, <1>2
<1> HIDE DEF w
<1>4. Range(w) = Range(s) \cup Range(u)
  <2>1. ASSUME NEW i \in DOMAIN w
        PROVE  w[i] \in Range(s) \cup Range(u)
    <3>1. CASE i <= Len(s)
      BY <1>2, <1>3, <2>1, <3>1 DEF Range
    <3>2. CASE ~(i <= Len(s))
      <4>1. i - Len(s) \in 1 .. Len(u) /\ Len(s) + (i - Len(s)) = i
        BY <1>2, <1>3, <2>1, <3>2
      <4> QED
        BY <1>2, <1>3, <4>1 DEF Range
    <3> QED
      BY <3>1, <3>2
  <2>2. ASSUME NEW i \in DOMAIN s
        PROVE  s[i] \in Range(w)
    <3>1. i \in DOMAIN w /\ w[i] = s[i]
      BY <1>2, <1>3
    <3> QED
      BY <3>1 DEF Range
  <2>3. ASSUME NEW i \in DOMAIN u
        PROVE  u[i] \in Range(w)
    <3>1. Len(s) + i \in DOMAIN w /\ w[Len(s) + i] = u[i]
      BY <1>2, <1>3
    <3> QED
      BY <3>1 DEF Range
  <2> QED
    BY <2>1, <2>2, <2>3 DEF Range
<1>5. w = [i \in 1 .. Len(s) + Len(u) |-> w[i]] /\ Len(s) + Len(u) \in Nat
  BY <1>2, <1>3
<1>6. IsSequence(w)
  BY <1>5, FunctionIsSequence
<1> QED
  BY <1>2, <1>3, <1>4, <1>6 DEF w

\* Three lists in a row, put together in either order.
Associate(s, t, u) == (s \o t) \o u = s \o (t \o u)

LEMMA ConcatThree ==
    ASSUME NEW S, NEW s \in Seq(S), NEW t \in Seq(S), NEW u \in Seq(S)
    PROVE  Associate(s, t, u)
<1> DEFINE left  == (s \o t) \o u
           right == s \o (t \o u)
           m == Len(s)
           n == Len(t)
           k == Len(u)
<1>1. m \in Nat /\ n \in Nat /\ k \in Nat
  OBVIOUS
<1>2. /\ s \o t \in Seq(S) /\ Len(s \o t) = m + n
      /\ \A i \in 1 .. m + n : (s \o t)[i] = IF i <= m THEN s[i] ELSE t[i - m]
  BY ConcatProperties
<1>3. /\ t \o u \in Seq(S) /\ Len(t \o u) = n + k
      /\ \A i \in 1 .. n + k : (t \o u)[i] = IF i <= n THEN t[i] ELSE u[i - n]
  BY ConcatProperties
<1> DEFINE st == s \o t
           tu == t \o u
<1> HIDE DEF st, tu, m, n, k
<1>4. /\ st \o u \in Seq(S) /\ Len(st \o u) = (m + n) + k
      /\ \A i \in 1 .. (m + n) + k : (st \o u)[i] = IF i <= m + n THEN st[i] ELSE u[i - (m + n)]
  BY <1>2, ConcatProperties DEF st, k
<1>5. /\ s \o tu \in Seq(S) /\ Len(s \o tu) = m + (n + k)
      /\ \A i \in 1 .. m + (n + k) : (s \o tu)[i] = IF i <= m THEN s[i] ELSE tu[i - m]
  BY <1>3, ConcatProperties DEF tu, m
<1>6. ASSUME NEW i \in 1 .. (m + n) + k
      PROVE  (st \o u)[i] = (s \o tu)[i]
  <2>1. i \in 1 .. m + (n + k)
    BY <1>1
  <2>2. CASE i <= m
    <3>1. i \in 1 .. m + n /\ i <= m + n
      BY <1>1, <2>2
    <3> QED
      BY <1>2, <1>4, <1>5, <2>1, <2>2, <3>1 DEF st
  <2>3. CASE ~(i <= m) /\ i <= m + n
    <3>1. i \in 1 .. m + n /\ i - m \in 1 .. n + k /\ i - m <= n
      BY <1>1, <2>3
    <3> QED
      BY <1>2, <1>3, <1>4, <1>5, <2>1, <2>3, <3>1 DEF st, tu
  <2>4. CASE ~(i <= m + n)
    <3>1. ~(i <= m) /\ i - m \in 1 .. n + k /\ ~(i - m <= n) /\ (i - m) - n = i - (m + n)
      BY <1>1, <2>4
    <3> QED
      BY <1>3, <1>4, <1>5, <2>1, <2>4, <3>1 DEF tu
  <2> QED
    BY <2>2, <2>3, <2>4
<1>7. Len(st \o u) = Len(s \o tu) /\ Len(st \o u) = (m + n) + k
  BY <1>1, <1>4, <1>5
<1>8. st \o u = s \o tu
  BY <1>4, <1>5, <1>6, <1>7, SeqEqual
<1> QED
  BY <1>8 DEF st, tu, Associate

\* A queue: what is appended comes last, and the head is what leaves it.
LEMMA QueueMoves ==
    ASSUME NEW s, IsSequence(s)
    PROVE  /\ \A e : IsSequence(Append(s, e)) /\ Range(Append(s, e)) = Range(s) \cup {e}
           /\ s # <<>> => /\ Head(s) \in Range(s)
                          /\ IsSequence(Tail(s)) /\ Range(Tail(s)) \subseteq Range(s)
<1>1. s \in Seq(Range(s)) /\ Len(s) \in Nat /\ DOMAIN s = 1 .. Len(s)
  BY SequenceDomain DEF IsSequence
<1>2. ASSUME NEW e
      PROVE  IsSequence(Append(s, e)) /\ Range(Append(s, e)) = Range(s) \cup {e}
  <2> DEFINE w == Append(s, e)
             R == Range(s) \cup {e}
  <2>1. s \in Seq(R) /\ e \in R
    BY <1>1, SeqMonotonic
  <2> HIDE DEF R
  <2>2. /\ w \in Seq(R) /\ Len(w) = Len(s) + 1
        /\ \A i \in 1 .. Len(s) : w[i] = s[i]
        /\ w[Len(s) + 1] = e
    BY <2>1, AppendProperties
  <2> HIDE DEF w
  <2>3. /\ w = [i \in 1 .. Len(s) + 1 |-> w[i]] /\ Len(s) + 1 \in Nat
    BY <1>1, <2>2
  <2>4. IsSequence(w) /\ Range(w) = {w[i] : i \in 1 .. Len(s) + 1}
    BY <2>3, FunctionIsSequence
  <2>5. \A i \in 1 .. Len(s) + 1 : i \in 1 .. Len(s) \/ i = Len(s) + 1
    BY <1>1
  <2>6. 1 .. Len(s) \subseteq 1 .. Len(s) + 1 /\ Len(s) + 1 \in 1 .. Len(s) + 1
    BY <1>1
  <2>7. Range(w) = {s[i] : i \in 1 .. Len(s)} \cup {e}
    BY <2>2, <2>4, <2>5, <2>6
  <2>8. Range(s) = {s[i] : i \in 1 .. Len(s)}
    BY <1>1 DEF Range
  <2> QED
    BY <2>4, <2>7, <2>8 DEF w
<1>3. ASSUME s # <<>>
      PROVE  /\ Head(s) \in Range(s)
             /\ IsSequence(Tail(s)) /\ Range(Tail(s)) \subseteq Range(s)
  <2> DEFINE w == Tail(s)
  <2>1. /\ Head(s) \in Range(s)
        /\ w \in Seq(Range(s))
        /\ Len(w) = Len(s) - 1
    BY <1>1, <1>3, HeadTailProperties
  <2> HIDE DEF w
  <2>2. IsSequence(w)
    BY <2>1, ListOf
  <2>3. Range(w) = {w[i] : i \in 1 .. Len(w)}
    BY <2>2, SequenceDomain DEF Range
  <2>4. \A i \in 1 .. Len(w) : w[i] \in Range(s)
    BY <2>1
  <2> QED
    BY <2>1, <2>2, <2>3, <2>4 DEF w
<1> QED
  BY <1>2, <1>3

-------------------------------------------------------------------------------
(***************************************************************************)
(* Recursion over the places of a list.                                    *)
(***************************************************************************)

\* A set of numbers has a least one.
LEMMA LeastNumber ==
    ASSUME NEW T, T \subseteq Nat, T # {}
    PROVE  \E x \in T : \A y \in T : x <= y
<1> DEFINE Below == OpToRel(<, Nat)
<1>1. IsWellFoundedOn(Below, Nat)
  BY NatLessThanWellFounded
<1>2. \A x, y \in Nat : x < y => <<x, y>> \in Below
  BY DEF OpToRel
<1> HIDE DEF Below
<1>3. \E x \in T : \A y \in T : <<y, x>> \notin Below
  BY <1>1, WFMin
<1>4. PICK x \in T : \A y \in T : <<y, x>> \notin Below
  BY <1>3
<1>5. ASSUME NEW y \in T
      PROVE  x <= y
  <2>1. x \in Nat /\ y \in Nat
    BY <1>4
  <2>2. ~(y < x)
    BY <1>2, <1>4, <2>1
  <2> QED
    BY <2>1, <2>2
<1> QED
  BY <1>4, <1>5

\* f starts with first and goes on by step, for n steps.
Recurs(f, first, step, n) ==
    f[0] = first /\ \A i \in 1 .. n : f[i] = step[<<i, f[i - 1]>>]

\* There is such a function.
LEMMA Recursion ==
    ASSUME NEW S, NEW first \in S, NEW n \in Nat, NEW step \in [(1 .. n) \X S -> S]
    PROVE  \E f \in [0 .. n -> S] : Recurs(f, first, step, n)
<1> DEFINE Good(m) == \E f \in [0 .. m -> S] : Recurs(f, first, step, m)
           Bad == {m \in 0 .. n : ~Good(m)}
<1>1. SUFFICES ASSUME Bad # {} PROVE FALSE
  BY SMT
<1>2. PICK m \in Bad : \A l \in Bad : m <= l
  <2>1. Bad \subseteq Nat
    OBVIOUS
  <2> HIDE DEF Bad
  <2> QED
    BY <1>1, <2>1, LeastNumber
<1>3. m \in 0 .. n /\ ~Good(m)
  BY <1>2
<1>4. ASSUME m = 0
      PROVE  FALSE
  <2> DEFINE f == [i \in 0 .. 0 |-> first]
  <2>1. f \in [0 .. 0 -> S] /\ Recurs(f, first, step, 0)
    BY DEF Recurs
  <2> HIDE DEF f
  <2> QED
    BY <1>3, <1>4, <2>1
<1>5. ASSUME m # 0
      PROVE  FALSE
  <2>1. m - 1 \in 0 .. n /\ m \in 1 .. n /\ ~(m <= m - 1)
    BY <1>3, <1>5
  <2>2. Good(m - 1)
    BY <1>2, <2>1
  <2>3. PICK f \in [0 .. m - 1 -> S] : Recurs(f, first, step, m - 1)
    BY <2>2
  <2> DEFINE g == [i \in 0 .. m |-> IF i = m THEN step[<<m, f[m - 1]>>] ELSE f[i]]
  <2>4. \A i \in 0 .. m : i = m \/ i \in 0 .. m - 1
    BY <2>1
  <2>5. m - 1 \in 0 .. m - 1 /\ f[m - 1] \in S
    BY <2>1, <2>3
  <2>6. step[<<m, f[m - 1]>>] \in S
    BY <2>1, <2>5
  <2>7. g \in [0 .. m -> S]
    BY <2>4, <2>6
  <2>8. g[m] = step[<<m, f[m - 1]>>] /\ \A i \in 0 .. m - 1 : g[i] = f[i]
    BY <2>1
  <2> HIDE DEF g
  <2>9. Recurs(g, first, step, m)
    <3>1. g[0] = first
      BY <2>1, <2>3, <2>8 DEF Recurs
    <3>2. ASSUME NEW i \in 1 .. m
          PROVE  g[i] = step[<<i, g[i - 1]>>]
      <4>1. CASE i = m
        BY <2>1, <2>5, <2>8, <4>1
      <4>2. CASE i # m
        <5>1. i \in 1 .. m - 1 /\ i \in 0 .. m - 1 /\ i - 1 \in 0 .. m - 1
          BY <2>1, <4>2
        <5> QED
          BY <2>3, <2>8, <5>1 DEF Recurs
      <4> QED
        BY <4>1, <4>2
    <3> QED
      BY <3>1, <3>2 DEF Recurs
  <2> QED
    BY <1>3, <2>7, <2>9
<1> QED
  BY <1>4, <1>5

\* A set of places that has the first and, with each, the next has them all.
LEMMA AllPlaces ==
    ASSUME NEW n \in Nat, NEW Good, 0 \in Good,
           \A i \in 1 .. n : i - 1 \in Good => i \in Good
    PROVE  0 .. n \subseteq Good
<1> SUFFICES ASSUME 0 .. n \ Good # {} PROVE FALSE
  OBVIOUS
<1>1. 0 .. n \ Good \subseteq Nat
  OBVIOUS
<1>2. PICK m \in 0 .. n \ Good : \A l \in 0 .. n \ Good : m <= l
  BY <1>1, LeastNumber
<1>3. m \in 1 .. n /\ m - 1 \in 0 .. n /\ ~(m <= m - 1)
  BY <1>2
<1> QED
  BY <1>2, <1>3

-------------------------------------------------------------------------------
(***************************************************************************)
(* Dedupe.                                                                 *)
(***************************************************************************)

\* In refs, a is mentioned before b is.
Precedes(refs, a, b) ==
    \E k \in DOMAIN refs : refs[k] = a /\ \A l \in 1 .. k : refs[l] # b

\* list has what refs has, each once, in the order of first mention.
Distils(list, refs) ==
    /\ IsSequence(list)
    /\ Range(list) = Range(refs)
    /\ \A i, j \in DOMAIN list : i < j => Precedes(refs, list[i], list[j])

\* The prefix of a list is distilled into list.
DistilsPrefix(list, refs, n) ==
    /\ Range(list) = {refs[k] : k \in 1 .. n}
    /\ \A i, j \in DOMAIN list :
          i < j => \E k \in 1 .. n : refs[k] = list[i] /\ \A l \in 1 .. k : refs[l] # list[j]

\* One more reference: kept unless it is there.
Keep(list, ref) == IF Contains(list, ref) THEN list ELSE Append(list, ref)

LEMMA KeepDistils ==
    ASSUME NEW refs, IsSequence(refs), NEW n \in 1 .. Len(refs),
           NEW list \in Seq(Range(refs)), DistilsPrefix(list, refs, n - 1)
    PROVE  /\ Keep(list, refs[n]) \in Seq(Range(refs))
           /\ DistilsPrefix(Keep(list, refs[n]), refs, n)
<1>1. /\ Len(refs) \in Nat /\ DOMAIN refs = 1 .. Len(refs)
      /\ Len(list) \in Nat /\ DOMAIN list = 1 .. Len(list)
  BY SequenceDomain
<1>2. n \in Nat /\ 1 .. n = (1 .. n - 1) \cup {n} /\ refs[n] \in Range(refs)
  BY <1>1 DEF Range
<1>3. {refs[k] : k \in 1 .. n} = {refs[k] : k \in 1 .. n - 1} \cup {refs[n]}
  BY <1>2
<1>4. CASE Contains(list, refs[n])
  <2>1. Keep(list, refs[n]) = list
    BY <1>4 DEF Keep
  <2>2. refs[n] \in Range(list)
    BY <1>1, <1>4 DEF Contains, Range
  <2>3. Range(list) = {refs[k] : k \in 1 .. n}
    BY <1>3, <2>2 DEF DistilsPrefix
  <2>4. ASSUME NEW i \in DOMAIN list, NEW j \in DOMAIN list, i < j
        PROVE  \E k \in 1 .. n : refs[k] = list[i] /\ \A l \in 1 .. k : refs[l] # list[j]
    BY <1>2, <2>4 DEF DistilsPrefix
  <2> QED
    BY <2>1, <2>3, <2>4 DEF DistilsPrefix
<1>5. CASE ~Contains(list, refs[n])
  <2> DEFINE more == Append(list, refs[n])
  <2>1. Keep(list, refs[n]) = more
    BY <1>5 DEF Keep
  <2>2. /\ more \in Seq(Range(refs)) /\ Len(more) = Len(list) + 1
        /\ \A i \in 1 .. Len(list) : more[i] = list[i]
        /\ more[Len(list) + 1] = refs[n]
    BY <1>2, AppendProperties
  <2>3. IsSequence(list)
    BY <1>1, FunctionIsSequence
  <2>4. Range(more) = Range(list) \cup {refs[n]}
    BY <2>3, QueueMoves
  <2> HIDE DEF more
  <2>5. Range(more) = {refs[k] : k \in 1 .. n}
    BY <1>3, <2>4 DEF DistilsPrefix
  <2>6. refs[n] \notin Range(list)
    BY <1>1, <1>5 DEF Contains, Range
  <2>7. ASSUME NEW i \in DOMAIN more, NEW j \in DOMAIN more, i < j
        PROVE  \E k \in 1 .. n : refs[k] = more[i] /\ \A l \in 1 .. k : refs[l] # more[j]
    <3>1. DOMAIN more = 1 .. Len(list) + 1
      BY <2>2
    <3>2. i \in DOMAIN list /\ more[i] = list[i]
      BY <1>1, <2>2, <2>7, <3>1
    <3>3. CASE j \in DOMAIN list
      <4>1. more[j] = list[j]
        BY <1>1, <2>2, <3>3
      <4> QED
        BY <1>2, <2>7, <3>2, <3>3, <4>1 DEF DistilsPrefix
    <3>4. CASE j \notin DOMAIN list
      <4>1. j = Len(list) + 1
        BY <1>1, <3>1, <3>4
      <4>2. list[i] \in Range(list)
        BY <3>2 DEF Range
      <4>3. PICK k \in 1 .. n - 1 : refs[k] = list[i]
        BY <4>2 DEF DistilsPrefix
      <4>4. \A l \in 1 .. k : l \in 1 .. n - 1
        BY <1>2, <4>3
      <4>5. \A l \in 1 .. k : refs[l] \in Range(list)
        BY <4>4 DEF DistilsPrefix
      <4>6. \A l \in 1 .. k : refs[l] # more[j]
        BY <2>2, <2>6, <4>1, <4>5
      <4> QED
        BY <1>2, <3>2, <4>3, <4>6
    <3> QED
      BY <3>3, <3>4
  <2> QED
    BY <2>1, <2>2, <2>5, <2>7 DEF DistilsPrefix
<1> QED
  BY <1>4, <1>5

\* Dedupe goes through a list, keeping each reference unless it is there.
LEMMA DedupeRecurs ==
    ASSUME NEW refs, IsSequence(refs)
    PROVE  \E out \in [0 .. Len(refs) -> Seq(Range(refs))] :
              /\ out[0] = <<>>
              /\ \A i \in 1 .. Len(refs) : out[i] = Keep(out[i - 1], refs[i])
              /\ Dedupe(refs) = out[Len(refs)]
<1> DEFINE n == Len(refs)
           S == Seq(Range(refs))
           step == [p \in (1 .. n) \X S |-> Keep(p[2], refs[p[1]])]
<1>1. n \in Nat /\ DOMAIN refs = 1 .. n
  BY SequenceDomain
<1>2. ASSUME NEW i \in 1 .. n, NEW list \in S
      PROVE  Keep(list, refs[i]) \in S /\ step[<<i, list>>] = Keep(list, refs[i])
  <2>1. refs[i] \in Range(refs)
    BY <1>1 DEF Range
  <2>2. Append(list, refs[i]) \in S
    BY <2>1, AppendProperties
  <2>3. <<i, list>> \in (1 .. n) \X S /\ <<i, list>>[1] = i /\ <<i, list>>[2] = list
    OBVIOUS
  <2> QED
    BY <2>2, <2>3 DEF Keep
<1>3. <<>> \in S
  OBVIOUS
<1>4. step \in [(1 .. n) \X S -> S]
  BY <1>2
<1> HIDE DEF step, S
<1>5. PICK f \in [0 .. n -> S] : Recurs(f, <<>>, step, n)
  BY <1>1, <1>3, <1>4, Recursion
<1> HIDE DEF n
<1>6. \A i \in 1 .. n : i - 1 \in 0 .. n /\ i \in 0 .. n /\ i # 0
  BY <1>1
<1>7. \A i \in 1 .. n : f[i] = Keep(f[i - 1], refs[i])
  BY <1>2, <1>5, <1>6 DEF Recurs
<1> DEFINE Body(g) == [i \in 0 .. n |->
                          IF i = 0
                          THEN <<>>
                          ELSE LET earlier == g[i - 1]
                               IN  IF Contains(earlier, refs[i]) THEN earlier
                                                                ELSE Append(earlier, refs[i])]
           out == CHOOSE g : g = Body(g)
<1>8. f = Body(f)
  <2>1. f[0] = <<>>
    BY <1>5 DEF Recurs
  <2>2. ASSUME NEW i \in 0 .. n
        PROVE  f[i] = IF i = 0 THEN <<>>
                      ELSE IF Contains(f[i - 1], refs[i]) THEN f[i - 1]
                                                          ELSE Append(f[i - 1], refs[i])
    <3>1. CASE i = 0
      BY <2>1, <3>1
    <3>2. CASE i # 0
      <4>1. i \in 1 .. n
        BY <1>1, <3>2
      <4> QED
        BY <1>7, <3>2, <4>1 DEF Keep
    <3> QED
      BY <3>1, <3>2
  <2>3. f = [i \in 0 .. n |-> f[i]]
    BY <1>5
  <2> QED
    BY <2>2, <2>3
<1>9. Dedupe(refs) = out[n]
  BY DEF Dedupe, n
<1>10. out = Body(out)
  BY <1>8
<1>11. out[0] = <<>> /\ DOMAIN out = 0 .. n
  <2>1. 0 \in 0 .. n
    BY <1>1
  <2>2. Body(out)[0] = <<>> /\ DOMAIN Body(out) = 0 .. n
    <3> HIDE DEF out
    <3> QED
      BY <2>1
  <2> HIDE DEF out, Body
  <2> QED
    BY <1>10, <2>2
<1>12. \A i \in 1 .. n : out[i] = Keep(out[i - 1], refs[i])
  <2> TAKE i \in 1 .. n
  <2>1. out[i] = Body(out)[i]
    BY <1>10
  <2> HIDE DEF out
  <2> QED
    BY <1>6, <2>1 DEF Keep
<1>13. out = [i \in 0 .. n |-> out[i]]
  BY <1>10
<1> HIDE DEF out, Body
<1>14. out \in [0 .. n -> S]
  <2> DEFINE Good == {i \in 0 .. n : out[i] \in S}
  <2>1. 0 \in Good
    BY <1>1, <1>3, <1>11
  <2>2. \A i \in 1 .. n : i - 1 \in Good => i \in Good
    BY <1>2, <1>6, <1>12
  <2>3. 0 .. n \subseteq Good
    <3> HIDE DEF Good
    <3> QED
      BY <1>1, <2>1, <2>2, AllPlaces
  <2> QED
    BY <1>13, <2>3
<1> QED
  BY <1>9, <1>11, <1>12, <1>14 DEF n, S

\* Dedupe keeps every reference once, in the order of first mention.
THEOREM DedupeDistils ==
    ASSUME NEW refs, IsSequence(refs)
    PROVE  Distils(Dedupe(refs), refs)
<1> DEFINE n == Len(refs)
<1>1. n \in Nat /\ DOMAIN refs = 1 .. n
  BY SequenceDomain
<1>2. PICK out \in [0 .. n -> Seq(Range(refs))] :
         /\ out[0] = <<>>
         /\ \A i \in 1 .. n : out[i] = Keep(out[i - 1], refs[i])
         /\ Dedupe(refs) = out[n]
  BY DedupeRecurs
<1> DEFINE Good == {i \in 0 .. n : DistilsPrefix(out[i], refs, i)}
<1>3. 0 \in Good
  <2>1. 1 .. 0 = {} /\ DOMAIN <<>> = {} /\ 0 \in 0 .. n
    BY <1>1
  <2>2. DistilsPrefix(<<>>, refs, 0)
    BY <2>1 DEF DistilsPrefix, Range
  <2> QED
    BY <1>2, <2>1, <2>2
<1>4. ASSUME NEW i \in 1 .. n, i - 1 \in Good
      PROVE  i \in Good
  <2>1. i - 1 \in 0 .. n /\ i \in 0 .. n
    BY <1>1
  <2>2. out[i - 1] \in Seq(Range(refs)) /\ DistilsPrefix(out[i - 1], refs, i - 1)
    BY <1>2, <1>4, <2>1
  <2>3. DistilsPrefix(Keep(out[i - 1], refs[i]), refs, i)
    BY <2>2, KeepDistils
  <2> QED
    BY <1>2, <2>1, <2>3
<1>5. 0 .. n \subseteq Good
  <2> HIDE DEF Good
  <2> QED
    BY <1>1, <1>3, <1>4, AllPlaces
<1>6. DistilsPrefix(out[n], refs, n) /\ out[n] \in Seq(Range(refs))
  BY <1>1, <1>2, <1>5
<1>7. IsSequence(out[n])
  BY <1>6, ListOf
<1>8. Range(refs) = {refs[k] : k \in 1 .. n}
  BY <1>1 DEF Range
<1> DEFINE list == out[n]
<1>9. IsSequence(list) /\ Range(list) = Range(refs) /\ Dedupe(refs) = list
  BY <1>2, <1>6, <1>7, <1>8 DEF DistilsPrefix
<1>10. DistilsPrefix(list, refs, n)
  BY <1>6
<1> HIDE DEF list
<1>11. \A i, j \in DOMAIN list : i < j => Precedes(refs, list[i], list[j])
  BY <1>1, <1>10 DEF DistilsPrefix, Precedes
<1> QED
  BY <1>9, <1>11 DEF Distils

\* Deduplicating a list whose first part is deduplicated already is
\* deduplicating all of it.
LEMMA DedupeInTwoLoops ==
    ASSUME NEW first, NEW rest, IsSequence(first), IsSequence(rest)
    PROVE  Distils(Dedupe(Dedupe(first) \o rest), first \o rest)
<1> DEFINE once == Dedupe(first)
           half == once \o rest
           all  == first \o rest
           list == Dedupe(half)
           f == Len(first)
           o == Len(once)
           r == Len(rest)
<1>1. Distils(once, first)
  BY DedupeDistils
<1>2. IsSequence(once) /\ Range(once) = Range(first)
  BY <1>1 DEF Distils
<1>3. /\ o \in Nat /\ DOMAIN once = 1 .. o
      /\ f \in Nat /\ DOMAIN first = 1 .. f
      /\ r \in Nat /\ DOMAIN rest = 1 .. r
  BY <1>2, SequenceDomain
<1> HIDE DEF once
<1>4. /\ IsSequence(half) /\ DOMAIN half = 1 .. Len(once) + Len(rest)
      /\ \A k \in 1 .. Len(once) : half[k] = once[k]
      /\ \A k \in 1 .. Len(rest) : half[Len(once) + k] = rest[k]
      /\ Range(half) = Range(once) \cup Range(rest)
  BY <1>2, ConcatElements
<1>5. /\ IsSequence(all) /\ DOMAIN all = 1 .. Len(first) + Len(rest)
      /\ \A k \in 1 .. Len(first) : all[k] = first[k]
      /\ \A k \in 1 .. Len(rest) : all[Len(first) + k] = rest[k]
      /\ Range(all) = Range(first) \cup Range(rest)
  BY ConcatElements
<1>6. Distils(list, half)
  BY <1>4, DedupeDistils
<1> HIDE DEF half, all, list, f, o, r
<1>7. ASSUME NEW a, NEW b, Precedes(half, a, b), b \in Range(half)
      PROVE  Precedes(all, a, b)
  <2>1. PICK k \in 1 .. o + r : half[k] = a /\ \A l \in 1 .. k : half[l] # b
    BY <1>4, <1>7 DEF Precedes, o, r
  <2>2. CASE k \in 1 .. o
    <3>1. a = once[k] /\ \A l \in 1 .. k : l \in 1 .. o /\ once[l] # b
      BY <1>3, <1>4, <2>1, <2>2 DEF o
    <3>2. CASE b \in Range(once)
      <4>1. PICK j \in 1 .. o : once[j] = b
        BY <1>3, <3>2 DEF Range
      <4>2. k < j
        BY <1>3, <2>2, <3>1, <4>1
      <4>3. Precedes(first, a, b)
        BY <1>1, <1>3, <2>2, <3>1, <4>1, <4>2 DEF Distils
      <4>4. PICK m \in 1 .. f : first[m] = a /\ \A l \in 1 .. m : first[l] # b
        BY <1>3, <4>3 DEF Precedes
      <4>5. m \in 1 .. f + r /\ \A l \in 1 .. m : l \in 1 .. f
        BY <1>3, <4>4
      <4>6. all[m] = a /\ \A l \in 1 .. m : all[l] # b
        BY <1>5, <4>4, <4>5 DEF f
      <4> QED
        BY <1>5, <4>5, <4>6 DEF Precedes, f, r
    <3>3. CASE b \notin Range(once)
      <4>1. a \in Range(first)
        BY <1>2, <1>3, <2>2, <3>1 DEF Range
      <4>2. PICK m \in 1 .. f : first[m] = a
        BY <1>3, <4>1 DEF Range
      <4>3. m \in 1 .. f + r /\ \A l \in 1 .. m : l \in 1 .. f
        BY <1>3, <4>2
      <4>4. \A l \in 1 .. f : first[l] # b
        BY <1>2, <1>3, <3>3 DEF Range
      <4>5. all[m] = a /\ \A l \in 1 .. m : all[l] # b
        BY <1>5, <4>2, <4>3, <4>4 DEF f
      <4> QED
        BY <1>5, <4>3, <4>5 DEF Precedes, f, r
    <3> QED
      BY <3>2, <3>3
  <2>3. CASE k \notin 1 .. o
    <3> DEFINE m == k - o
    <3>1. m \in 1 .. r /\ k = o + m /\ \A l \in 1 .. o : l \in 1 .. k
      BY <1>3, <2>1, <2>3
    <3>2. \A l \in 1 .. m : l \in 1 .. r /\ o + l \in 1 .. k
      BY <1>3, <3>1
    <3> HIDE DEF m
    <3>3. a = rest[m] /\ \A l \in 1 .. m : rest[l] # b
      BY <1>4, <2>1, <3>1, <3>2 DEF o, r
    <3>4. \A l \in 1 .. o : once[l] # b
      BY <1>4, <2>1, <3>1 DEF o
    <3>5. b \notin Range(first)
      BY <1>2, <1>3, <3>4 DEF Range
    <3>6. \A l \in 1 .. f : first[l] # b
      BY <1>3, <3>5 DEF Range
    <3>7. f + m \in 1 .. f + r /\ all[f + m] = a
      BY <1>3, <1>5, <3>1, <3>3 DEF f, r
    <3>8. ASSUME NEW l \in 1 .. f + m
          PROVE  all[l] # b
      <4>1. CASE l \in 1 .. f
        BY <1>5, <3>6, <4>1 DEF f
      <4>2. CASE l \notin 1 .. f
        <5>1. l - f \in 1 .. m /\ l = f + (l - f)
          BY <1>3, <3>1, <4>2
        <5>2. all[f + (l - f)] = rest[l - f]
          BY <1>5, <3>2, <5>1 DEF f, r
        <5> QED
          BY <3>3, <5>1, <5>2
      <4> QED
        BY <4>1, <4>2
    <3> QED
      BY <1>5, <3>7, <3>8 DEF Precedes, f, r
  <2> QED
    BY <2>2, <2>3
<1>8. IsSequence(list) /\ Range(list) = Range(half) /\ Range(half) = Range(all)
  BY <1>2, <1>4, <1>5, <1>6 DEF Distils
<1>9. ASSUME NEW i \in DOMAIN list, NEW j \in DOMAIN list, i < j
      PROVE  Precedes(all, list[i], list[j])
  <2>1. Precedes(half, list[i], list[j])
    BY <1>6, <1>9 DEF Distils
  <2>2. list[j] \in Range(half)
    BY <1>8 DEF Range
  <2> QED
    BY <1>7, <2>1, <2>2
<1>10. Distils(list, all)
  BY <1>8, <1>9 DEF Distils
<1> QED
  BY <1>10 DEF list, half, once, all

-------------------------------------------------------------------------------
(***************************************************************************)
(* Resolve.                                                                *)
(***************************************************************************)

\* What lists i = 1 .. n put together after first holds.
Gathered(first, lists, n) == Range(first) \cup UNION {Range(lists[i]) : i \in 1 .. n}

\* g is first with the lists appended one by one.
Joins(g, first, lists, n) ==
    g[0] = first /\ \A i \in 1 .. n : g[i] = g[i - 1] \o lists[i]

LEMMA JoinExists ==
    ASSUME NEW U, NEW first \in Seq(U), NEW n \in Nat, NEW lists,
           \A i \in 1 .. n : lists[i] \in Seq(U)
    PROVE  \E g \in [0 .. n -> Seq(U)] : Joins(g, first, lists, n)
<1> DEFINE S == Seq(U)
           step == [p \in (1 .. n) \X S |-> p[2] \o lists[p[1]]]
<1>1. ASSUME NEW i \in 1 .. n, NEW list \in S
      PROVE  list \o lists[i] \in S /\ step[<<i, list>>] = list \o lists[i]
  <2>1. list \o lists[i] \in S
    BY ConcatProperties
  <2>2. <<i, list>> \in (1 .. n) \X S /\ <<i, list>>[1] = i /\ <<i, list>>[2] = list
    OBVIOUS
  <2> QED
    BY <2>1, <2>2
<1>2. step \in [(1 .. n) \X S -> S]
  BY <1>1
<1>3. first \in S
  OBVIOUS
<1> HIDE DEF step, S
<1>4. PICK g \in [0 .. n -> S] : Recurs(g, first, step, n)
  BY <1>2, <1>3, Recursion
<1>5. \A i \in 1 .. n : i - 1 \in 0 .. n
  OBVIOUS
<1>6. Joins(g, first, lists, n)
  BY <1>1, <1>4, <1>5 DEF Joins, Recurs
<1> QED
  BY <1>4, <1>6 DEF S

\* What is in the lists, put together.
LEMMA JoinGathers ==
    ASSUME NEW U, NEW first \in Seq(U), NEW n \in Nat, NEW lists,
           \A i \in 1 .. n : lists[i] \in Seq(U),
           NEW g \in [0 .. n -> Seq(U)], Joins(g, first, lists, n)
    PROVE  Range(g[n]) = Gathered(first, lists, n)
<1> DEFINE Good == {i \in 0 .. n : Range(g[i]) = Gathered(first, lists, i)}
<1>1. \A list \in Seq(U) : IsSequence(list)
  BY ListOf
<1>2. 0 \in Good
  <2>1. 1 .. 0 = {} /\ 0 \in 0 .. n
    OBVIOUS
  <2> QED
    BY <2>1 DEF Joins, Gathered
<1>3. ASSUME NEW i \in 1 .. n, i - 1 \in Good
      PROVE  i \in Good
  <2>1. i - 1 \in 0 .. n /\ i \in 0 .. n /\ 1 .. i = (1 .. i - 1) \cup {i}
    OBVIOUS
  <2>2. IsSequence(g[i - 1]) /\ IsSequence(lists[i])
    BY <1>1, <2>1
  <2>3. Range(g[i - 1] \o lists[i]) = Range(g[i - 1]) \cup Range(lists[i])
    BY <2>2, ConcatElements
  <2>4. Range(g[i]) = Gathered(first, lists, i - 1) \cup Range(lists[i])
    BY <1>3, <2>3 DEF Joins
  <2>5. Gathered(first, lists, i) = Gathered(first, lists, i - 1) \cup Range(lists[i])
    BY <2>1 DEF Gathered
  <2> QED
    BY <2>1, <2>4, <2>5
<1>4. 0 .. n \subseteq Good
  <2> HIDE DEF Good
  <2> QED
    BY <1>2, <1>3, AllPlaces
<1> QED
  BY <1>4

Continues(g, first, h, n) == g[n] = first \o h[n]

\* Appending to a longer list is appending to its end.
LEMMA JoinAfter ==
    ASSUME NEW U, NEW first \in Seq(U), NEW n \in Nat, NEW lists,
           \A i \in 1 .. n : lists[i] \in Seq(U),
           NEW g \in [0 .. n -> Seq(U)], Joins(g, first, lists, n),
           NEW h \in [0 .. n -> Seq(U)], Joins(h, <<>>, lists, n)
    PROVE  Continues(g, first, h, n)
<1> DEFINE Good == {i \in 0 .. n : g[i] = first \o h[i]}
<1>1. 0 \in Good
  BY ConcatEmptySeq DEF Joins
<1>2. ASSUME NEW i \in 1 .. n, i - 1 \in Good
      PROVE  i \in Good
  <2>1. i - 1 \in 0 .. n /\ i \in 0 .. n
    OBVIOUS
  <2>2. h[i - 1] \in Seq(U) /\ lists[i] \in Seq(U)
    BY <2>1
  <2>3. (first \o h[i - 1]) \o lists[i] = first \o (h[i - 1] \o lists[i])
    <3>1. Associate(first, h[i - 1], lists[i])
      BY <2>2, ConcatThree
    <3> QED
      BY <3>1 DEF Associate
  <2>4. g[i] = g[i - 1] \o lists[i] /\ h[i] = h[i - 1] \o lists[i]
    BY DEF Joins
  <2> QED
    BY <1>2, <2>1, <2>3, <2>4
<1>3. 0 .. n \subseteq Good
  <2> HIDE DEF Good
  <2> QED
    BY <1>1, <1>2, AllPlaces
<1> QED
  BY <1>3 DEF Continues

\* What a registry grants: its core references, then those of each extension.
Granted(registry, enabled) == [i \in DOMAIN enabled |-> registry.extensions[enabled[i]]]
HoldsReferences(registry, enabled) ==
    /\ IsSequence(enabled)
    /\ IsSequence(registry.core)
    /\ \A i \in DOMAIN enabled : IsSequence(registry.extensions[enabled[i]])

\* Resolve deduplicates the core references with those of each extension after
\* them.
LEMMA ResolveJoins ==
    ASSUME NEW registry, NEW enabled, HoldsReferences(registry, enabled)
    PROVE  LET n == Len(enabled)
               exts == Granted(registry, enabled)
               U == Gathered(registry.core, exts, n)
           IN  /\ n \in Nat /\ DOMAIN enabled = 1 .. n
               /\ registry.core \in Seq(U)
               /\ \A i \in 1 .. n : exts[i] \in Seq(U)
               /\ \E g \in [0 .. n -> Seq(U)] :
                     Joins(g, registry.core, exts, n) /\ Resolve(registry, enabled) = Dedupe(g[n])
<1> DEFINE n == Len(enabled)
           core == registry.core
           exts == Granted(registry, enabled)
           U == Gathered(core, exts, n)
<1>1. n \in Nat /\ DOMAIN enabled = 1 .. n
  BY SequenceDomain DEF HoldsReferences
<1>2. \A i \in 1 .. n : exts[i] = registry.extensions[enabled[i]]
  BY <1>1 DEF Granted
<1>3. IsSequence(core) /\ \A i \in 1 .. n : IsSequence(exts[i])
  BY <1>1, <1>2 DEF HoldsReferences
<1>4. Range(core) \subseteq U /\ \A i \in 1 .. n : Range(exts[i]) \subseteq U
  BY DEF Gathered
<1> HIDE DEF U, exts, core
<1>5. core \in Seq(U) /\ \A i \in 1 .. n : exts[i] \in Seq(U)
  <2>1. core \in Seq(Range(core)) /\ \A i \in 1 .. n : exts[i] \in Seq(Range(exts[i]))
    BY <1>3 DEF IsSequence
  <2>2. core \in Seq(U)
    BY <1>4, <2>1, SeqMonotonic
  <2>3. ASSUME NEW i \in 1 .. n
        PROVE  exts[i] \in Seq(U)
    BY <1>4, <2>1, SeqMonotonic
  <2> QED
    BY <2>2, <2>3
<1> DEFINE Body(g) == [i \in 0 .. n |-> IF i = 0 THEN registry.core
                                        ELSE g[i - 1] \o registry.extensions[enabled[i]]]
           refs == CHOOSE g : g = Body(g)
<1>6. Resolve(registry, enabled) = Dedupe(refs[n])
  BY DEF Resolve
<1> HIDE DEF n
<1>7. PICK f \in [0 .. n -> Seq(U)] : Joins(f, core, exts, n)
  BY <1>1, <1>5, JoinExists
<1>8. f = Body(f)
  <2>1. ASSUME NEW i \in 0 .. n
        PROVE  f[i] = IF i = 0 THEN registry.core
                      ELSE f[i - 1] \o registry.extensions[enabled[i]]
    <3>1. CASE i = 0
      BY <1>7, <3>1 DEF Joins, core
    <3>2. CASE i # 0
      <4>1. i \in 1 .. n
        BY <1>1, <3>2
      <4> QED
        BY <1>2, <1>7, <3>2, <4>1 DEF Joins
    <3> QED
      BY <3>1, <3>2
  <2>2. f = [i \in 0 .. n |-> f[i]]
    BY <1>7
  <2> QED
    BY <2>1, <2>2
<1>9. refs = Body(refs)
  BY <1>8
<1> DEFINE g == refs
<1>10. \A h : Body(h) = [i \in 0 .. n |-> Body(h)[i]]
  OBVIOUS
<1>11. \A h : Body(h)[0] = core /\ \A i \in 1 .. n : Body(h)[i] = h[i - 1] \o exts[i]
  <2> TAKE h
  <2>1. 0 \in 0 .. n /\ \A i \in 1 .. n : i \in 0 .. n /\ i # 0
    BY <1>1
  <2> QED
    BY <1>2, <2>1 DEF core
<1> HIDE DEF refs, Body
<1>12. Joins(refs, core, exts, n) /\ refs = [i \in 0 .. n |-> refs[i]]
  <2>1. refs[0] = core
    BY <1>9, <1>11
  <2>2. ASSUME NEW i \in 1 .. n
        PROVE  refs[i] = refs[i - 1] \o exts[i]
    BY <1>9, <1>11
  <2>3. refs = [i \in 0 .. n |-> refs[i]]
    BY <1>9, <1>10
  <2> QED
    BY <2>1, <2>2, <2>3 DEF Joins
<1>13. refs \in [0 .. n -> Seq(U)]
  <2> DEFINE Good == {i \in 0 .. n : refs[i] \in Seq(U)}
  <2>1. 0 \in Good
    BY <1>1, <1>5, <1>12 DEF Joins
  <2>2. ASSUME NEW i \in 1 .. n, i - 1 \in Good
        PROVE  i \in Good
    <3>1. refs[i] = refs[i - 1] \o exts[i] /\ refs[i - 1] \in Seq(U) /\ exts[i] \in Seq(U)
      BY <1>5, <1>12, <2>2 DEF Joins
    <3>2. refs[i] \in Seq(U)
      BY <3>1, ConcatProperties
    <3>3. i \in 0 .. n
      BY <1>1
    <3> QED
      BY <3>2, <3>3
  <2>3. 0 .. n \subseteq Good
    <3> HIDE DEF Good
    <3> QED
      BY <1>1, <2>1, <2>2, AllPlaces
  <2> QED
    BY <1>12, <2>3
<1>14. \E h \in [0 .. n -> Seq(U)] :
          Joins(h, core, exts, n) /\ Resolve(registry, enabled) = Dedupe(h[n])
  BY <1>6, <1>12, <1>13
<1> QED
  BY <1>1, <1>5, <1>14 DEF n, core, exts, U

\* What Resolve returns is what the registry grants, each reference once.
THEOREM ResolveGrants ==
    ASSUME NEW registry, NEW enabled, HoldsReferences(registry, enabled)
    PROVE  /\ IsSequence(Resolve(registry, enabled))
           /\ Range(Resolve(registry, enabled))
                 = Range(registry.core)
                   \cup UNION {Range(registry.extensions[enabled[i]]) : i \in DOMAIN enabled}
<1> DEFINE n == Len(enabled)
           exts == Granted(registry, enabled)
           U == Gathered(registry.core, exts, n)
<1>1. n \in Nat /\ DOMAIN enabled = 1 .. n /\ registry.core \in Seq(U)
      /\ \A i \in 1 .. n : exts[i] \in Seq(U)
  BY ResolveJoins
<1>2. PICK g \in [0 .. n -> Seq(U)] :
         Joins(g, registry.core, exts, n) /\ Resolve(registry, enabled) = Dedupe(g[n])
  BY ResolveJoins
<1>3. Range(registry.core)
      \cup UNION {Range(registry.extensions[enabled[i]]) : i \in DOMAIN enabled} = U
  BY <1>1 DEF Granted, Gathered
<1> HIDE DEF n, exts, U
<1>4. Range(g[n]) = U /\ g[n] \in Seq(U)
  <2>1. Range(g[n]) = Gathered(registry.core, exts, n)
    BY <1>1, <1>2, JoinGathers
  <2>2. g[n] \in Seq(U)
    BY <1>1, <1>2
  <2> QED
    BY <2>1, <2>2 DEF U
<1>5. IsSequence(g[n])
  BY <1>4 DEF IsSequence
<1>6. Distils(Dedupe(g[n]), g[n])
  BY <1>5, DedupeDistils
<1> QED
  BY <1>2, <1>3, <1>4, <1>6 DEF Distils

\* Resolve deduplicates the core references and all the extensions', flattened.
LEMMA ResolveFlattens ==
    ASSUME NEW registry, NEW enabled, HoldsReferences(registry, enabled)
    PROVE  /\ IsSequence(registry.core \o FlattenSeq(Granted(registry, enabled)))
           /\ Resolve(registry, enabled)
                 = Dedupe(registry.core \o FlattenSeq(Granted(registry, enabled)))
<1> DEFINE n == Len(enabled)
           exts == Granted(registry, enabled)
           U == Gathered(registry.core, exts, n)
<1>1. n \in Nat /\ DOMAIN enabled = 1 .. n /\ registry.core \in Seq(U)
      /\ \A i \in 1 .. n : exts[i] \in Seq(U)
  BY ResolveJoins
<1>2. PICK g \in [0 .. n -> Seq(U)] :
         Joins(g, registry.core, exts, n) /\ Resolve(registry, enabled) = Dedupe(g[n])
  BY ResolveJoins
<1>3. exts = [i \in 1 .. n |-> exts[i]]
  BY <1>1 DEF Granted
<1> HIDE DEF n, exts, U
<1>4. Len(exts) = n /\ (n = 0 => exts = <<>>)
  <2>1. Len(exts) = n
    BY <1>1, <1>3, FunctionIsSequence
  <2>2. n = 0 => exts = [i \in 1 .. 0 |-> exts[i]]
    BY <1>3
  <2>3. [i \in 1 .. 0 |-> exts[i]] = <<>>
    OBVIOUS
  <2> QED
    BY <2>1, <2>2, <2>3
<1>5. <<>> \in Seq(U)
  OBVIOUS
<1>6. PICK h \in [0 .. n -> Seq(U)] : Joins(h, <<>>, exts, n)
  BY <1>1, <1>5, JoinExists
<1>7. g[n] = registry.core \o h[n]
  <2>1. Continues(g, registry.core, h, n)
    BY <1>1, <1>2, <1>6, JoinAfter
  <2> QED
    BY <2>1 DEF Continues
<1>8. FlattenSeq(exts) = h[n]
  <2>1. CASE n = 0
    <3>1. FlattenSeq(exts) = exts
      BY <1>4, <2>1 DEF FlattenSeq
    <3>2. h[0] = <<>>
      BY <1>6 DEF Joins
    <3> QED
      BY <1>4, <2>1, <3>1, <3>2
  <2>2. CASE n # 0
    <3> DEFINE Body(e) == [i \in 1 .. Len(exts) |-> IF i = 1 THEN exts[i] ELSE e[i - 1] \o exts[i]]
               flat == CHOOSE e : e = Body(e)
    <3>1. FlattenSeq(exts) = flat[Len(exts)]
      BY <1>4, <2>2 DEF FlattenSeq
    <3> DEFINE f == [i \in 1 .. n |-> h[i]]
    <3>2. \A i \in 1 .. n : f[i] = h[i]
      OBVIOUS
    <3>3. f = [i \in 1 .. n |-> f[i]]
      OBVIOUS
    <3> HIDE DEF f
    <3>4. h[1] = exts[1]
      <4>1. 1 \in 1 .. n
        BY <1>1, <2>2
      <4>2. h[1] = <<>> \o exts[1] /\ exts[1] \in Seq(U)
        <5>1. h[1] = h[1 - 1] \o exts[1] /\ h[0] = <<>>
          BY <1>6, <4>1 DEF Joins
        <5> QED
          BY <1>1, <4>1, <5>1, 1 - 1 = 0
      <4> QED
        BY <4>2, ConcatEmptySeq
    <3>5. f = Body(f)
      <4>1. ASSUME NEW i \in 1 .. n
            PROVE  f[i] = IF i = 1 THEN exts[i] ELSE f[i - 1] \o exts[i]
        <5>1. CASE i = 1
          BY <3>2, <3>4, <5>1
        <5>2. CASE i # 1
          <6>1. i - 1 \in 1 .. n
            BY <1>1, <5>2
          <6>2. h[i] = h[i - 1] \o exts[i]
            BY <1>6 DEF Joins
          <6> QED
            BY <3>2, <5>2, <6>1, <6>2
        <5> QED
          BY <5>1, <5>2
      <4> QED
        BY <1>4, <3>3, <4>1
    <3>6. flat = Body(flat)
      BY <3>5
    <3>7. \A e : /\ Body(e)[1] = exts[1]
                 /\ \A i \in 1 .. n : i # 1 => Body(e)[i] = e[i - 1] \o exts[i]
      <4> TAKE e
      <4>1. 1 \in 1 .. n
        BY <1>1, <2>2
      <4> QED
        BY <1>4, <4>1
    <3> HIDE DEF flat, Body
    <3> DEFINE Good == {i \in 0 .. n : i = 0 \/ flat[i] = h[i]}
    <3>8. 0 \in Good
      BY <1>1
    <3>9. ASSUME NEW i \in 1 .. n, i - 1 \in Good
          PROVE  i \in Good
      <4>1. i \in 0 .. n
        BY <1>1
      <4>2. CASE i = 1
        BY <3>4, <3>6, <3>7, <4>1, <4>2
      <4>3. CASE i # 1
        <5>1. i - 1 # 0
          BY <1>1, <4>3
        <5>2. flat[i - 1] = h[i - 1]
          BY <3>9, <5>1
        <5>3. flat[i] = flat[i - 1] \o exts[i]
          BY <3>6, <3>7, <4>3
        <5>4. h[i] = h[i - 1] \o exts[i]
          BY <1>6 DEF Joins
        <5> QED
          BY <4>1, <5>2, <5>3, <5>4
      <4> QED
        BY <4>2, <4>3
    <3>10. 0 .. n \subseteq Good
      <4> HIDE DEF Good
      <4> QED
        BY <1>1, <3>8, <3>9, AllPlaces
    <3>11. flat[n] = h[n]
      BY <1>1, <2>2, <3>10
    <3> QED
      BY <1>4, <3>1, <3>11
  <2> QED
    BY <2>1, <2>2
<1>9. IsSequence(g[n])
  <2>1. g[n] \in Seq(U)
    BY <1>1, <1>2
  <2> QED
    BY <2>1, ListOf
<1> QED
  BY <1>2, <1>7, <1>8, <1>9 DEF exts
===============================================================================
