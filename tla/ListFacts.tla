------------------------------- MODULE ListFacts -------------------------------
(***************************************************************************)
(* Facts about numbers, recursive functions and lists that the proofs of   *)
(* several components need.  Induction is on a set of numbers, and what a  *)
(* recursive definition computes is described by a trace: the values it    *)
(* passes, from the first to the last.                                     *)
(***************************************************************************)
EXTENDS SequencesExt, FiniteSetTheorems, WellFoundedInduction, TLAPS

-----------------------------------------------------------------------------
(* Induction on sets.                                                      *)

\* Every non-empty set of naturals has a least element.
LEMMA SmallestElement ==
    ASSUME NEW S \in SUBSET Nat, S # {}
    PROVE  \E x \in S : \A y \in S : x <= y
<1> DEFINE R == OpToRel(<, Nat)
<1>1. IsWellFoundedOn(R, Nat) BY NatLessThanWellFounded
<1>2. \A a, b \in Nat : a < b => <<a, b>> \in R BY Zenon DEF OpToRel
<1> HIDE DEF R
<1>3. PICK x \in S : \A y \in S : <<y, x>> \notin R
      BY <1>1, WFMin
<1>4. ASSUME NEW y \in S PROVE x <= y
  <2>1. ~(y < x) BY Zenon, <1>2, <1>3
  <2>2. x \in Nat /\ y \in Nat OBVIOUS
  <2>. QED BY <2>1, <2>2
<1>. QED BY <1>4

\* A set that has 0 and with every number the next one has all numbers.
LEMMA AllNumbers ==
    ASSUME NEW P, 0 \in P, \A k \in Nat : k \in P => k + 1 \in P
    PROVE  \A k \in Nat : k \in P
<1> DEFINE Bad == {k \in Nat : k \notin P}
<1> SUFFICES ASSUME Bad # {} PROVE FALSE
  OBVIOUS
<1>1. Bad \in SUBSET Nat /\ Bad # {} OBVIOUS
<1>2. PICK m \in Bad : \A k \in Bad : m <= k
  <2> HIDE DEF Bad
  <2>. QED BY <1>1, SmallestElement
<1>3. m \in Nat /\ m # 0 /\ m - 1 \in Nat /\ m - 1 \notin Bad
  <2>1. m \in Nat /\ m # 0 OBVIOUS
  <2>2. m - 1 \in Bad => m <= m - 1 BY <1>2
  <2>. QED BY <2>1, <2>2
<1>4. m - 1 \in P BY <1>3
<1>. QED BY <1>3, <1>4

\* The same below a bound.
LEMMA NumbersUpTo ==
    ASSUME NEW n \in Nat, NEW P, 0 \in P, \A k \in 1 .. n : k - 1 \in P => k \in P
    PROVE  \A k \in 0 .. n : k \in P
<1> DEFINE Q == {k \in Nat : k <= n => k \in P}
<1>1. 0 \in Q OBVIOUS
<1>2. ASSUME NEW k \in Nat, k \in Q PROVE k + 1 \in Q
  <2> SUFFICES ASSUME k + 1 <= n PROVE k + 1 \in P
    OBVIOUS
  <2>1. k \in P /\ k + 1 \in 1 .. n BY <1>2
  <2>2. (k + 1) - 1 = k OBVIOUS
  <2>. QED BY <2>1, <2>2
<1>3. \A k \in Nat : k \in Q
  <2> HIDE DEF Q
  <2>. QED BY <1>1, <1>2, AllNumbers
<1>. QED BY <1>3
-----------------------------------------------------------------------------
(* Folds.                                                                  *)

\* The last of some numbers up to n that n is one of.
LEMMA LastOfRange ==
    ASSUME NEW n \in Nat \ {0}, NEW x \in SUBSET (1 .. n), n \in x
    PROVE  Max(x) = n
<1>1. \A y \in x : n >= y OBVIOUS
<1>2. \A m \in x : (\A y \in x : m >= y) => m = n OBVIOUS
<1>. QED BY <1>1, <1>2 DEF Max

\* The functions on the sets of list indices that take their value from that of the
\* set without its greatest element.
FoldsBy(f, n, base, step) ==
    f = [x \in SUBSET (1 .. n) |-> IF x = {} THEN base ELSE step[Max(x)][f[x \ {Max(x)}]]]

\* There is one, whatever the steps are.
LEMMA FoldExists ==
    ASSUME NEW T, NEW base \in T, NEW n \in Nat, NEW step \in [1 .. n -> [T -> T]]
    PROVE  \E f \in [SUBSET (1 .. n) -> T] : FoldsBy(f, n, base, step)
<1> DEFINE P == {k \in 0 .. n : \E f \in [SUBSET (1 .. k) -> T] : FoldsBy(f, k, base, step)}
<1>1. 0 \in P
  <2> DEFINE f == [x \in SUBSET (1 .. 0) |-> base]
  <2>1. SUBSET (1 .. 0) = {{}} OBVIOUS
  <2>2. f \in [SUBSET (1 .. 0) -> T] OBVIOUS
  <2>3. FoldsBy(f, 0, base, step) BY <2>1 DEF FoldsBy
  <2>. QED BY <2>2, <2>3
<1>2. ASSUME NEW k \in 1 .. n, k - 1 \in P PROVE k \in P
  <2>1. PICK f \in [SUBSET (1 .. k - 1) -> T] : FoldsBy(f, k - 1, base, step) BY <1>2
  <2> DEFINE g == [x \in SUBSET (1 .. k) |-> IF k \in x THEN step[k][f[x \ {k}]] ELSE f[x]]
  <2>2. \A x \in SUBSET (1 .. k) : x \ {k} \in SUBSET (1 .. k - 1) OBVIOUS
  <2>3. \A x \in SUBSET (1 .. k) : k \notin x => x \in SUBSET (1 .. k - 1) OBVIOUS
  <2>4. g \in [SUBSET (1 .. k) -> T]
    <3>1. \A x \in SUBSET (1 .. k) : f[x \ {k}] \in T BY <2>2
    <3>2. step[k] \in [T -> T] OBVIOUS
    <3>. QED BY <2>3, <3>1, <3>2
  <2>5. ASSUME NEW x \in SUBSET (1 .. k)
        PROVE  g[x] = IF x = {} THEN base ELSE step[Max(x)][g[x \ {Max(x)}]]
    <3>1. CASE k \in x
      <4>1. Max(x) = k BY <3>1, LastOfRange
      <4>2. x \ {k} \in SUBSET (1 .. k) /\ k \notin x \ {k} OBVIOUS
      <4>3. g[x \ {k}] = f[x \ {k}] BY <4>2
      <4>4. x # {} /\ g[x] = step[k][f[x \ {k}]] BY <3>1
      <4> HIDE DEF g
      <4>. QED BY Zenon, <4>1, <4>3, <4>4
    <3>2. CASE k \notin x
      <4>1. x \in SUBSET (1 .. k - 1) BY <2>3, <3>2
      <4>2. f[x] = IF x = {} THEN base ELSE step[Max(x)][f[x \ {Max(x)}]]
            BY Zenon, <2>1, <4>1 DEF FoldsBy
      <4>3. x \ {Max(x)} \in SUBSET (1 .. k) /\ k \notin x \ {Max(x)} BY <3>2
      <4>. QED BY <3>2, <4>2, <4>3
    <3>. QED BY <3>1, <3>2
  <2>6. FoldsBy(g, k, base, step)
    <3> HIDE DEF g
    <3>. QED BY <2>4, <2>5 DEF FoldsBy
  <2>7. k \in 0 .. n OBVIOUS
  <2> HIDE DEF g
  <2>. QED BY Zenon, <2>4, <2>6, <2>7
<1>3. n \in P
  <2> HIDE DEF P
  <2>1. \A k \in 0 .. n : k \in P BY <1>1, <1>2, NumbersUpTo
  <2>. QED BY <2>1
<1>. QED BY Zenon, <1>3

\* The greatest of some numbers up to n is one of them.
LEMMA MaxOfSome ==
    ASSUME NEW n \in Nat, NEW x \in SUBSET (1 .. n), x # {}
    PROVE  Max(x) \in x /\ Max(x) \in 1 .. n
<1> DEFINE S == {n - y : y \in x}
<1>0. \A y \in x : y \in Nat /\ n - y \in Nat OBVIOUS
<1>1. S \in SUBSET Nat /\ S # {} BY <1>0
<1>2. PICK d \in S : \A e \in S : d <= e
  <2> HIDE DEF S
  <2>. QED BY <1>1, SmallestElement
<1>3. PICK m \in x : d = n - m BY <1>2
<1>4. \A y \in x : n - y \in S OBVIOUS
<1>5. ASSUME NEW y \in x PROVE m >= y
  <2>1. n - m <= n - y
    <3> HIDE DEF S
    <3>. QED BY <1>2, <1>3, <1>4
  <2>. QED BY <1>0, <1>3, <2>1
<1>6. Max(x) \in x BY Zenon, <1>3, <1>5 DEF Max
<1>. QED BY <1>6

\* The function that MapThenFoldSet defines, as far as its values are in T.
IsFold(iter, T, n, base, step) ==
    /\ iter[{}] = base
    /\ \A x \in SUBSET (1 .. n) :
           x # {} /\ iter[x \ {Max(x)}] \in T => iter[x] = step[Max(x)][iter[x \ {Max(x)}]]

\* The values of n steps, from base to last.
Traces(h, n, base, step, last) ==
    /\ h[0] = base /\ h[n] = last
    /\ \A k \in 1 .. n : h[k] = step[k][h[k - 1]]

\* What a fold of n steps passes through: h[k] is its value after k steps.
LEMMA FoldTrace ==
    ASSUME NEW T, NEW base \in T, NEW n \in Nat, NEW step \in [1 .. n -> [T -> T]], NEW iter,
           IsFold(iter, T, n, base, step)
    PROVE  \E h \in [0 .. n -> T] : Traces(h, n, base, step, iter[1 .. n])
<1> DEFINE P == {k \in 0 .. n : iter[1 .. k] \in T}
<1>1. iter[1 .. 0] = base
  <2>1. 1 .. 0 = {} OBVIOUS
  <2>. QED BY <2>1 DEF IsFold
<1>2. ASSUME NEW k \in 1 .. n, iter[1 .. (k - 1)] \in T
      PROVE  iter[1 .. k] = step[k][iter[1 .. (k - 1)]] /\ iter[1 .. k] \in T
  <2>1. 1 .. k \in SUBSET (1 .. n) /\ 1 .. k # {} /\ k \in 1 .. k
    <3>1. k \in Nat /\ 1 <= k /\ k <= n OBVIOUS
    <3>2. \A y \in 1 .. k : y \in 1 .. n BY <3>1
    <3>3. 1 .. k \in SUBSET (1 .. n) BY <3>2
    <3>4. k \in 1 .. k BY <3>1
    <3>. QED BY <3>3, <3>4
  <2>2. Max(1 .. k) = k BY <2>1, LastOfRange
  <2>3. (1 .. k) \ {k} = 1 .. (k - 1) OBVIOUS
  <2>4. iter[1 .. k] = step[k][iter[1 .. (k - 1)]] BY Zenon, <1>2, <2>1, <2>2, <2>3 DEF IsFold
  <2>5. step[k] \in [T -> T] OBVIOUS
  <2>. QED BY <1>2, <2>4, <2>5
<1>3. \A k \in 0 .. n : iter[1 .. k] \in T
  <2>1. 0 \in P BY <1>1
  <2>2. \A k \in 1 .. n : k - 1 \in P => k \in P BY <1>2
  <2>3. \A k \in 0 .. n : k \in P
    <3> HIDE DEF P
    <3>. QED BY <2>1, <2>2, NumbersUpTo
  <2>. QED BY <2>3
<1> DEFINE h == [k \in 0 .. n |-> iter[1 .. k]]
<1>4. h \in [0 .. n -> T] BY <1>3
<1>5. h[0] = base /\ h[n] = iter[1 .. n] BY <1>1
<1>6. ASSUME NEW k \in 1 .. n PROVE h[k] = step[k][h[k - 1]]
  <2>1. k - 1 \in 0 .. n /\ k \in 0 .. n OBVIOUS
  <2>. QED BY <1>2, <1>3, <2>1
<1> HIDE DEF h
<1>. QED BY <1>4, <1>5, <1>6 DEF Traces
-----------------------------------------------------------------------------
(* Lists.                                                                  *)

\* Two lists in a row.
LEMMA BothLists ==
    ASSUME NEW T, NEW s \in Seq(T), NEW t \in Seq(T)
    PROVE  /\ s \o t \in Seq(T)
           /\ Len(s) \in Nat /\ Len(t) \in Nat /\ Len(s \o t) = Len(s) + Len(t)
           /\ \A k \in 1 .. Len(s) + Len(t) :
                  (s \o t)[k] = IF k <= Len(s) THEN s[k] ELSE t[k - Len(s)]
OBVIOUS

\* Lists with the same elements in the same places.
LEMMA SameList ==
    ASSUME NEW T, NEW s \in Seq(T), NEW t \in Seq(T), Len(s) = Len(t),
           \A k \in 1 .. Len(s) : s[k] = t[k]
    PROVE  s = t
OBVIOUS

\* A longer list has the elements of the shorter one and the last.
LEMMA AppendedList ==
    ASSUME NEW T, NEW s \in Seq(T), NEW e \in T
    PROVE  /\ Append(s, e) \in Seq(T) /\ Len(Append(s, e)) = Len(s) + 1
           /\ ToSet(Append(s, e)) = ToSet(s) \cup {e}
           /\ IsInjective(s) /\ e \notin ToSet(s) => IsInjective(Append(s, e))
<1> DEFINE t == Append(s, e)
<1>1. /\ t \in Seq(T) /\ Len(t) = Len(s) + 1
      /\ DOMAIN t = DOMAIN s \cup {Len(s) + 1} /\ Len(s) + 1 \notin DOMAIN s
      /\ \A i \in DOMAIN s : t[i] = s[i]
      /\ t[Len(s) + 1] = e
      OBVIOUS
<1> HIDE DEF t
<1>2. ToSet(t) = ToSet(s) \cup {e} BY <1>1 DEF ToSet
<1>3. IsInjective(s) /\ e \notin ToSet(s) => IsInjective(t) BY <1>1 DEF ToSet, IsInjective
<1>. QED BY <1>1, <1>2, <1>3 DEF t

\* Two lists in a row have the elements of both.
LEMMA ElementsOfBoth ==
    ASSUME NEW T, NEW s \in Seq(T), NEW t \in Seq(T)
    PROVE  /\ ToSet(s \o t) = ToSet(s) \cup ToSet(t)
           /\ IsInjective(s) /\ IsInjective(t) /\ ToSet(s) \cap ToSet(t) = {} => IsInjective(s \o t)
<1> DEFINE st == s \o t
           m == Len(s)
           n == Len(t)
<1>1. /\ m \in Nat /\ n \in Nat /\ DOMAIN s = 1 .. m /\ DOMAIN t = 1 .. n /\ DOMAIN st = 1 .. m + n
      /\ \A k \in 1 .. m + n : st[k] = IF k <= m THEN s[k] ELSE t[k - m]
      OBVIOUS
<1> HIDE DEF st, m, n
<1>2. ToSet(st) = ToSet(s) \cup ToSet(t)
  <2>1. \A k \in 1 .. m : k \in 1 .. m + n /\ st[k] = s[k] BY <1>1
  <2>2. \A k \in 1 .. n : k + m \in 1 .. m + n /\ st[k + m] = t[k] BY <1>1
  <2>3. \A k \in 1 .. m + n : k \in 1 .. m \/ k - m \in 1 .. n BY <1>1
  <2>4. ASSUME NEW k \in 1 .. m + n PROVE st[k] \in ToSet(s) \cup ToSet(t)
    <3>1. CASE k \in 1 .. m BY <1>1, <2>1, <3>1 DEF ToSet
    <3>2. CASE k \notin 1 .. m
      <4>1. k - m \in 1 .. n /\ ~(k <= m) BY <1>1, <2>3, <3>2
      <4>2. st[k] = t[k - m] BY <1>1, <4>1
      <4>. QED BY <1>1, <4>1, <4>2 DEF ToSet
    <3>. QED BY <3>1, <3>2
  <2>5. ASSUME NEW e \in ToSet(s) \cup ToSet(t) PROVE \E k \in 1 .. m + n : e = st[k]
        BY <1>1, <2>1, <2>2 DEF ToSet
  <2>. QED BY <1>1, <2>4, <2>5 DEF ToSet
<1>3. ASSUME IsInjective(s), IsInjective(t), ToSet(s) \cap ToSet(t) = {},
             NEW i \in 1 .. m + n, NEW j \in 1 .. m + n, st[i] = st[j]
      PROVE  i = j
  <2>1. \A k \in 1 .. m : s[k] \in ToSet(s) BY <1>1 DEF ToSet
  <2>2. \A k \in 1 .. n : t[k] \in ToSet(t) BY <1>1 DEF ToSet
  <2>3. CASE i <= m /\ j <= m
    <3>1. i \in 1 .. m /\ j \in 1 .. m /\ s[i] = s[j] BY <1>1, <1>3, <2>3
    <3>. QED BY <1>1, <1>3, <3>1 DEF IsInjective
  <2>4. CASE ~(i <= m) /\ ~(j <= m)
    <3>1. i - m \in 1 .. n /\ j - m \in 1 .. n BY <1>1, <2>4
    <3>2. t[i - m] = t[j - m] BY <1>1, <1>3, <2>4
    <3>3. i - m = j - m BY <1>1, <1>3, <3>1, <3>2 DEF IsInjective
    <3>. QED BY <1>1, <3>3
  <2>5. CASE i <= m /\ ~(j <= m)
    <3>1. i \in 1 .. m /\ j - m \in 1 .. n BY <1>1, <2>5
    <3>2. st[i] = s[i] /\ st[j] = t[j - m] BY <1>1, <2>5
    <3>. QED BY <1>3, <2>1, <2>2, <3>1, <3>2
  <2>6. CASE ~(i <= m) /\ j <= m
    <3>1. j \in 1 .. m /\ i - m \in 1 .. n BY <1>1, <2>6
    <3>2. st[j] = s[j] /\ st[i] = t[i - m] BY <1>1, <2>6
    <3>. QED BY <1>3, <2>1, <2>2, <3>1, <3>2
  <2>. QED BY <2>3, <2>4, <2>5, <2>6
<1>4. IsInjective(s) /\ IsInjective(t) /\ ToSet(s) \cap ToSet(t) = {} => IsInjective(st)
      BY <1>1, <1>3 DEF IsInjective
<1>. QED BY <1>2, <1>4 DEF st

\* A list is its first element and the rest.
LEMMA HeadAndTail ==
    ASSUME NEW T, NEW s \in Seq(T), s # << >>
    PROVE  /\ Head(s) \in T /\ Tail(s) \in Seq(T)
           /\ ToSet(s) = {Head(s)} \cup ToSet(Tail(s))
<1> DEFINE one == <<Head(s)>>
           rest == Tail(s)
<1>1. Head(s) \in T /\ one \in Seq(T) /\ rest \in Seq(T) /\ s = one \o rest OBVIOUS
<1>2. ToSet(one) = {Head(s)} BY DEF ToSet
<1> HIDE DEF one, rest
<1>3. ToSet(one \o rest) = ToSet(one) \cup ToSet(rest) BY <1>1, ElementsOfBoth
<1>. QED BY Zenon, <1>1, <1>2, <1>3 DEF rest
-----------------------------------------------------------------------------
(* Recursion on the numbers up to n.                                       *)

\* There are values of n steps, whatever the steps are.
LEMMA TraceExists ==
    ASSUME NEW T, NEW base \in T, NEW n \in Nat, NEW step \in [1 .. n -> [T -> T]]
    PROVE  \E h \in [0 .. n -> T] : Traces(h, n, base, step, h[n])
<1> DEFINE P == {m \in 0 .. n : \E h \in [0 .. m -> T] :
                                    h[0] = base /\ \A k \in 1 .. m : h[k] = step[k][h[k - 1]]}
<1>1. 0 \in P
  <2> DEFINE h == [k \in 0 .. 0 |-> base]
  <2>1. h \in [0 .. 0 -> T] /\ h[0] = base /\ \A k \in 1 .. 0 : h[k] = step[k][h[k - 1]]
        OBVIOUS
  <2> HIDE DEF h
  <2>. QED BY <2>1
<1>2. ASSUME NEW m \in 1 .. n, m - 1 \in P PROVE m \in P
  <2>1. PICK g \in [0 .. m - 1 -> T] :
                 g[0] = base /\ \A k \in 1 .. m - 1 : g[k] = step[k][g[k - 1]]
        BY <1>2
  <2> DEFINE h == [k \in 0 .. m |-> IF k = m THEN step[m][g[m - 1]] ELSE g[k]]
  <2>2. step[m][g[m - 1]] \in T
    <3>1. step[m] \in [T -> T] /\ g[m - 1] \in T OBVIOUS
    <3>. QED BY <3>1
  <2>3. h \in [0 .. m -> T] BY <2>2
  <2>4. h[0] = base BY <2>1
  <2>5. ASSUME NEW k \in 1 .. m PROVE h[k] = step[k][h[k - 1]]
    <3>1. k \in 0 .. m /\ k - 1 \in 0 .. m /\ k - 1 # m OBVIOUS
    <3>2. h[k - 1] = g[k - 1] BY <3>1
    <3>3. CASE k = m BY <3>1, <3>2, <3>3
    <3>4. CASE k # m
      <4>1. k \in 1 .. m - 1 BY <3>4
      <4>2. h[k] = g[k] BY <3>1, <3>4
      <4>. QED BY <2>1, <3>2, <4>1, <4>2
    <3>. QED BY <3>3, <3>4
  <2> HIDE DEF h
  <2>6. m \in 0 .. n OBVIOUS
  <2>. QED BY <2>3, <2>4, <2>5, <2>6
<1>3. n \in P
  <2> HIDE DEF P
  <2>1. \A k \in 0 .. n : k \in P BY <1>1, <1>2, NumbersUpTo
  <2>. QED BY <2>1
<1>. QED BY Zenon, <1>3 DEF Traces

\* The values that FlattenSeq passes through.
Flattens(h, n, ss) ==
    /\ h[0] = << >> /\ h[n] = FlattenSeq(ss)
    /\ \A k \in 1 .. n : h[k] = h[k - 1] \o ss[k]

\* Lists in a row, from the first to the last.
LEMMA FlattenTrace ==
    ASSUME NEW T, NEW n \in Nat, NEW ss \in [1 .. n -> Seq(T)]
    PROVE  \E h \in [0 .. n -> Seq(T)] : Flattens(h, n, ss)
<1> DEFINE step == [k \in 1 .. n |-> [s \in Seq(T) |-> s \o ss[k]]]
           Flat(f) == f = [i \in 1 .. Len(ss) |-> IF i = 1 THEN ss[i] ELSE f[i - 1] \o ss[i]]
           flat == CHOOSE f : Flat(f)
<1>1. ss \in Seq(Seq(T)) /\ Len(ss) = n OBVIOUS
<1>2. \A k \in 1 .. n : ss[k] \in Seq(T) OBVIOUS
<1>3. \A k \in 1 .. n : \A s \in Seq(T) : s \o ss[k] \in Seq(T) BY <1>2
<1>4. step \in [1 .. n -> [Seq(T) -> Seq(T)]] BY <1>3
<1>5. << >> \in Seq(T) /\ \A s \in Seq(T) : << >> \o s = s OBVIOUS
<1>6. PICK h \in [0 .. n -> Seq(T)] :
               h[0] = << >> /\ \A k \in 1 .. n : h[k] = step[k][h[k - 1]]
  <2> DEFINE U == Seq(T)
  <2>1. step \in [1 .. n -> [U -> U]] /\ << >> \in U BY <1>4, <1>5
  <2> HIDE DEF step, U
  <2>2. \E h \in [0 .. n -> U] : Traces(h, n, << >>, step, h[n]) BY <2>1, TraceExists
  <2>. QED BY Zenon, <2>2 DEF U, Traces
<1>7. ASSUME NEW k \in 1 .. n PROVE h[k] = h[k - 1] \o ss[k]
  <2>1. k - 1 \in 0 .. n /\ h[k - 1] \in Seq(T) OBVIOUS
  <2>. QED BY <1>6, <2>1
<1> HIDE DEF step
<1>8. CASE n = 0
  <2>1. FlattenSeq(ss) = << >> BY <1>1, <1>8 DEF FlattenSeq
  <2>. QED BY <1>6, <1>7, <1>8, <2>1 DEF Flattens
<1>9. CASE n # 0
  <2> DEFINE g == [i \in 1 .. n |-> h[i]]
  <2>1. \A i \in 1 .. n : i \in 0 .. n /\ (i # 1 => i - 1 \in 1 .. n) OBVIOUS
  <2>2. ASSUME NEW i \in 1 .. n PROVE g[i] = IF i = 1 THEN ss[i] ELSE g[i - 1] \o ss[i]
    <3>1. g[i] = h[i - 1] \o ss[i] BY <1>7
    <3>2. i = 1 => h[i - 1] = << >> BY <1>6
    <3>3. i # 1 => g[i - 1] = h[i - 1] BY <2>1
    <3> HIDE DEF g
    <3>. QED BY <1>2, <1>5, <3>1, <3>2, <3>3
  <2>3. g = [i \in 1 .. n |-> g[i]] OBVIOUS
  <2> HIDE DEF g
  <2>4. Flat(g) BY Zenon, <1>1, <2>2, <2>3
  <2>5. Flat(flat) BY Zenon, <2>4
  <2>6. FlattenSeq(ss) = flat[n]
    <3>1. Len(ss) # 0 BY <1>1, <1>9
    <3>2. FlattenSeq(ss) = flat[Len(ss)] BY Zenon, <3>1 DEF FlattenSeq
    <3>. QED BY Zenon, <1>1, <3>2
  <2> HIDE DEF flat
  <2>7. \A i \in 1 .. n : flat[i] = IF i = 1 THEN ss[i] ELSE flat[i - 1] \o ss[i]
        BY Zenon, <1>1, <2>5
  <2> HIDE DEF Flat
  <2> DEFINE P == {k \in 0 .. n : k # 0 => flat[k] = h[k]}
  <2>8. 0 \in P OBVIOUS
  <2>9. ASSUME NEW k \in 1 .. n, k - 1 \in P PROVE k \in P
    <3>1. CASE k = 1
      <4>1. 1 \in 1 .. n /\ 1 - 1 = 0 /\ ss[1] \in Seq(T) BY <1>2, <3>1
      <4>2. h[1] = h[0] \o ss[1] BY <1>7, <4>1
      <4>3. h[1] = ss[1] BY <1>5, <1>6, <4>1, <4>2
      <4>. QED BY <2>7, <3>1, <4>1, <4>3
    <3>2. CASE k # 1
      <4>1. flat[k - 1] = h[k - 1] BY <2>9, <3>2
      <4>2. flat[k] = h[k - 1] \o ss[k] BY <2>7, <3>2, <4>1
      <4>3. h[k] = h[k - 1] \o ss[k] BY <1>7
      <4>4. k \in 0 .. n OBVIOUS
      <4>. QED BY <4>2, <4>3, <4>4
    <3>. QED BY <3>1, <3>2
  <2>10. flat[n] = h[n]
    <3> HIDE DEF P
    <3>1. \A k \in 0 .. n : k \in P BY <2>8, <2>9, NumbersUpTo
    <3>2. n \in P BY <3>1
    <3>. QED BY <1>9, <3>2 DEF P
  <2>. QED BY <1>6, <1>7, <2>6, <2>10 DEF Flattens
<1>. QED BY <1>8, <1>9

\* Lists in a row have the elements of all.
LEMMA FlattenedList ==
    ASSUME NEW T, NEW n \in Nat, NEW ss \in [1 .. n -> Seq(T)]
    PROVE  /\ FlattenSeq(ss) \in Seq(T)
           /\ ToSet(FlattenSeq(ss)) = UNION {ToSet(ss[k]) : k \in 1 .. n}
<1>1. PICK h \in [0 .. n -> Seq(T)] : Flattens(h, n, ss) BY FlattenTrace
<1> DEFINE Of(k) == UNION {ToSet(ss[i]) : i \in 1 .. k}
           P == {k \in 0 .. n : ToSet(h[k]) = Of(k)}
<1>2. 0 \in P
  <2>1. Of(0) = {} OBVIOUS
  <2>2. ToSet(<< >>) = {} BY DEF ToSet
  <2>. QED BY <1>1, <2>1, <2>2 DEF Flattens
<1>3. ASSUME NEW k \in 1 .. n, k - 1 \in P PROVE k \in P
  <2>1. k \in 0 .. n /\ h[k - 1] \in Seq(T) /\ ss[k] \in Seq(T) /\ ToSet(h[k - 1]) = Of(k - 1)
        BY <1>3
  <2>2. ToSet(h[k]) = ToSet(h[k - 1]) \cup ToSet(ss[k])
    <3>1. h[k] = h[k - 1] \o ss[k] BY <1>1 DEF Flattens
    <3>. QED BY <2>1, <3>1, ElementsOfBoth
  <2>3. Of(k) = Of(k - 1) \cup ToSet(ss[k])
    <3>1. 1 .. k = (1 .. k - 1) \cup {k} OBVIOUS
    <3>. QED BY <3>1
  <2> HIDE DEF Of
  <2>. QED BY <2>1, <2>2, <2>3
<1>4. n \in P
  <2> HIDE DEF P
  <2>1. \A k \in 0 .. n : k \in P BY <1>2, <1>3, NumbersUpTo
  <2>. QED BY <2>1
<1>5. h[n] \in Seq(T) OBVIOUS
<1>. QED BY <1>1, <1>4, <1>5 DEF Flattens

\* One more list in the row, and none at all.
LEMMA FlattenAppended ==
    ASSUME NEW T, NEW n \in Nat, NEW ss \in [1 .. n -> Seq(T)], NEW tt \in [1 .. n + 1 -> Seq(T)],
           \A k \in 1 .. n : tt[k] = ss[k]
    PROVE  FlattenSeq(tt) = FlattenSeq(ss) \o tt[n + 1] /\ (n = 0 => FlattenSeq(ss) = << >>)
<1>1. PICK g \in [0 .. n -> Seq(T)] : Flattens(g, n, ss) BY FlattenTrace
<1>2. n + 1 \in Nat OBVIOUS
<1>3. PICK h \in [0 .. n + 1 -> Seq(T)] : Flattens(h, n + 1, tt) BY <1>2, FlattenTrace
<1> DEFINE P == {k \in 0 .. n : h[k] = g[k]}
<1>4. 0 \in P BY <1>1, <1>3 DEF Flattens
<1>5. ASSUME NEW k \in 1 .. n, k - 1 \in P PROVE k \in P
  <2>1. k \in 1 .. n + 1 /\ k \in 0 .. n OBVIOUS
  <2>2. h[k] = h[k - 1] \o tt[k] /\ g[k] = g[k - 1] \o ss[k] BY <1>1, <1>3, <2>1 DEF Flattens
  <2>. QED BY <1>5, <2>1, <2>2
<1>6. h[n] = g[n]
  <2> HIDE DEF P
  <2>1. \A k \in 0 .. n : k \in P BY <1>4, <1>5, NumbersUpTo
  <2>. QED BY <2>1 DEF P
<1>7. n + 1 \in 1 .. n + 1 /\ (n + 1) - 1 = n OBVIOUS
<1>8. h[n + 1] = h[n] \o tt[n + 1] BY <1>3, <1>7 DEF Flattens
<1>. QED BY <1>1, <1>3, <1>6, <1>8 DEF Flattens
-----------------------------------------------------------------------------
(* Enumerations.                                                           *)

\* A finite set of naturals can be listed in ascending order.
LEMMA AscendingExists ==
    ASSUME NEW S \in SUBSET Nat, IsFiniteSet(S)
    PROVE  \E s \in [1 .. Cardinality(S) -> S] :
               \A i, j \in 1 .. Cardinality(S) : i < j => s[i] < s[j]
<1> DEFINE Listed(R) == \E s \in [1 .. Cardinality(R) -> R] :
                           \A i, j \in 1 .. Cardinality(R) : i < j => s[i] < s[j]
           P == {n \in Nat : \A R \in SUBSET Nat : IsFiniteSet(R) /\ Cardinality(R) = n => Listed(R)}
<1>1. 0 \in P
  <2>1. ASSUME NEW R \in SUBSET Nat, IsFiniteSet(R), Cardinality(R) = 0 PROVE Listed(R)
    <3> DEFINE s == [i \in 1 .. 0 |-> i]
    <3>1. s \in [1 .. 0 -> R] /\ \A i, j \in 1 .. 0 : i < j => s[i] < s[j] OBVIOUS
    <3> HIDE DEF s
    <3>. QED BY <2>1, <3>1
  <2>. QED BY <2>1
<1>2. ASSUME NEW n \in Nat, n \in P PROVE n + 1 \in P
  <2>1. ASSUME NEW R \in SUBSET Nat, IsFiniteSet(R), Cardinality(R) = n + 1 PROVE Listed(R)
    <3>1. R # {} BY <2>1, FS_EmptySet
    <3>2. PICK m \in R : \A y \in R : m <= y BY <3>1, SmallestElement
    <3> DEFINE Q == R \ {m}
    <3>3. IsFiniteSet(Q) /\ Cardinality(Q) = n
      <4>1. IsFiniteSet(Q) /\ Cardinality(Q) = IF m \in R THEN Cardinality(R) - 1 ELSE Cardinality(R)
            BY Zenon, <2>1, FS_RemoveElement
      <4> HIDE DEF Q
      <4>. QED BY <2>1, <3>2, <4>1
    <3>4. Q \in SUBSET Nat /\ \A y \in Q : y \in R /\ m < y BY <3>2
    <3>5. PICK t \in [1 .. n -> Q] : \A i, j \in 1 .. n : i < j => t[i] < t[j]
          BY <1>2, <3>3, <3>4
    <3> DEFINE s == [i \in 1 .. n + 1 |-> IF i = 1 THEN m ELSE t[i - 1]]
    <3>6. \A i \in 1 .. n + 1 : i # 1 => i - 1 \in 1 .. n /\ t[i - 1] \in Q OBVIOUS
    <3> HIDE DEF Q
    <3>7. s \in [1 .. n + 1 -> R] BY <3>4, <3>6
    <3>8. ASSUME NEW i \in 1 .. n + 1, NEW j \in 1 .. n + 1, i < j PROVE s[i] < s[j]
      <4>1. j # 1 /\ s[j] = t[j - 1] BY <3>8
      <4>2. CASE i = 1
            BY <3>4, <3>6, <4>1, <4>2
      <4>3. CASE i # 1
        <5>1. s[i] = t[i - 1] BY <4>3
        <5>2. i - 1 \in 1 .. n /\ j - 1 \in 1 .. n /\ i - 1 < j - 1 BY <3>8, <4>3
        <5> HIDE DEF s
        <5>. QED BY <3>5, <4>1, <5>1, <5>2
      <4>. QED BY <4>2, <4>3
    <3> HIDE DEF s
    <3>. QED BY <2>1, <3>7, <3>8
  <2>. QED BY <2>1
<1>3. Cardinality(S) \in P
  <2> HIDE DEF P
  <2>1. \A k \in Nat : k \in P BY <1>1, <1>2, AllNumbers
  <2>2. Cardinality(S) \in Nat BY FS_CardinalityType
  <2>. QED BY <2>1, <2>2
<1>. QED BY <1>3
=============================================================================
