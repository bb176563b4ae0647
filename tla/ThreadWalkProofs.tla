---------------------------- MODULE ThreadWalkProofs ----------------------------
(***************************************************************************)
(* Proofs about ThreadWalk, for folders of any size, any limits and any    *)
(* number of removals: a thread is bounded, connected and, as long as      *)
(* nothing is removed and the limit is not reached, complete.              *)
(***************************************************************************)
EXTENDS ThreadWalk, ListFacts

-----------------------------------------------------------------------------
(* The lists of the walk.                                                  *)

\* The ascending list of a set of UIDs has all of them.
LEMMA AscendingList ==
    ASSUME NEW S \in SUBSET UIDs
    PROVE  Ascending(S) \in Seq(UIDs) /\ ToSet(Ascending(S)) = S
<1> DEFINE n == Cardinality(S)
           Rises(s) == \A i, j \in DOMAIN s : i < j => s[i] < s[j]
           t == Ascending(S)
<1>1. IsFiniteSet(S) /\ n \in Nat /\ S \in SUBSET Nat
      BY ThreadAssumption, FS_Subset, FS_CardinalityType
<1>2. \E s \in [1 .. n -> S] : Rises(s)
  <2>1. PICK s \in [1 .. n -> S] : \A i, j \in 1 .. n : i < j => s[i] < s[j]
        BY <1>1, AscendingExists
  <2>. QED BY <2>1
<1>3. t \in [1 .. n -> S] /\ Rises(t)
      BY Zenon, <1>2 DEF Ascending
<1> HIDE DEF t
<1>4. \A i, j \in 1 .. n : t[i] = t[j] => i = j
  <2> SUFFICES ASSUME NEW i \in 1 .. n, NEW j \in 1 .. n, t[i] = t[j], i # j PROVE FALSE
    OBVIOUS
  <2>1. t[i] \in Nat /\ t[j] \in Nat BY <1>1, <1>3
  <2>2. i < j \/ j < i BY <1>1
  <2>. QED BY <1>3, <2>1, <2>2
<1>5. t \in Injection(1 .. n, S) BY <1>3, <1>4 DEF Injection, IsInjective
<1>6. IsFiniteSet(1 .. n) /\ Cardinality(1 .. n) = n BY <1>1, FS_Interval
<1>7. t \in Surjection(1 .. n, S) BY <1>1, <1>5, <1>6, FS_Injection
<1>8. ToSet(t) = S
  <2>1. \A e \in S : \E i \in 1 .. n : t[i] = e BY <1>7 DEF Surjection
  <2>2. \A i \in 1 .. n : t[i] \in S BY <1>3
  <2>3. DOMAIN t = 1 .. n BY <1>3
  <2>. QED BY <2>1, <2>2, <2>3 DEF ToSet
<1>9. t \in Seq(UIDs)
  <2>1. \A i \in 1 .. n : t[i] \in UIDs BY <1>3
  <2> HIDE DEF n
  <2>. QED BY <1>1, <1>3, <2>1
<1>. QED BY <1>8, <1>9 DEF t

\* What a search finds: the messages that are there and name the identifier.
LEMMA SearchFinds ==
    ASSUME present \subseteq UIDs, NEW key, NEW id
    PROVE  /\ Search(key, id) \in Seq(UIDs)
           /\ id # NoID => ToSet(Search(key, id)) = {u \in present : id \in Named(u, key)}
<1> DEFINE hits == {u \in present : IF id = NoID THEN Named(u, key) # {} ELSE id \in Named(u, key)}
<1>1. hits \in SUBSET UIDs OBVIOUS
<1>2. Search(key, id) = Ascending(hits) BY DEF Search
<1>3. id # NoID => hits = {u \in present : id \in Named(u, key)} OBVIOUS
<1> HIDE DEF hits
<1>. QED BY <1>1, <1>2, <1>3, AscendingList

\* What one candidate adds to the new ones.
AddFresh(out, u) == IF u \in seenUID \cup ToSet(out) THEN out ELSE Append(out, u)

\* The values that Fresh passes through.
TracesFresh(h, n, candidates) ==
    /\ h[0] = << >> /\ h[n] = Fresh(candidates)
    /\ \A k \in 1 .. n : h[k] = AddFresh(h[k - 1], candidates[k])

\* The new candidates, from the first candidate to the last.
LEMMA FreshTrace ==
    ASSUME NEW n \in Nat, NEW candidates \in [1 .. n -> UIDs]
    PROVE  \E h \in [0 .. n -> Seq(UIDs)] : TracesFresh(h, n, candidates)
<1> DEFINE T == Seq(UIDs)
           step == [k \in 1 .. n |-> [out \in T |-> AddFresh(out, candidates[k])]]
           Fold(f) == f = [x \in SUBSET (DOMAIN candidates) |->
                              IF x = {} THEN << >> ELSE AddFresh(f[x \ {Max(x)}], candidates[Max(x)])]
           iter == CHOOSE f : Fold(f)
<1>1. DOMAIN candidates = 1 .. n OBVIOUS
<1>2. ASSUME NEW out \in T, NEW k \in 1 .. n PROVE AddFresh(out, candidates[k]) \in T
      BY DEF AddFresh
<1>3. step \in [1 .. n -> [T -> T]] BY <1>2
<1>4. << >> \in T OBVIOUS
<1>5. \E f : Fold(f)
  <2>1. PICK f \in [SUBSET (1 .. n) -> T] : FoldsBy(f, n, << >>, step)
    <3> HIDE DEF step, T, Fold
    <3>. QED BY <1>3, <1>4, FoldExists
  <2>2. ASSUME NEW x \in SUBSET (1 .. n), x # {}
        PROVE  step[Max(x)][f[x \ {Max(x)}]] = AddFresh(f[x \ {Max(x)}], candidates[Max(x)])
    <3>1. Max(x) \in 1 .. n BY <2>2, MaxOfSome
    <3>2. f[x \ {Max(x)}] \in T OBVIOUS
    <3>. QED BY <3>1, <3>2
  <2> HIDE DEF step
  <2>3. Fold(f) BY Zenon, <1>1, <2>1, <2>2 DEF FoldsBy
  <2>. QED BY <2>3
<1>6. Fold(iter) BY Zenon, <1>5
<1>7. Fresh(candidates) = iter[1 .. n]
  <2>1. Fresh(candidates) = iter[DOMAIN candidates]
        BY Zenon DEF Fresh, FoldLeft, MapThenFoldSet, AddFresh
  <2>. QED BY Zenon, <1>1, <2>1
<1> HIDE DEF iter
<1>8. iter[{}] = << >> BY Zenon, <1>1, <1>6
<1>9. IsFold(iter, T, n, << >>, step)
  <2>1. \A x \in SUBSET (1 .. n) :
             x # {} /\ iter[x \ {Max(x)}] \in T => iter[x] = step[Max(x)][iter[x \ {Max(x)}]]
    <3> SUFFICES ASSUME NEW x \in SUBSET (1 .. n), x # {}, iter[x \ {Max(x)}] \in T
                 PROVE  iter[x] = step[Max(x)][iter[x \ {Max(x)}]]
      BY Zenon
    <3>1. Max(x) \in 1 .. n BY MaxOfSome
    <3>2. iter[x] = AddFresh(iter[x \ {Max(x)}], candidates[Max(x)]) BY Zenon, <1>1, <1>6
    <3>. QED BY <3>1, <3>2
  <2>. QED BY Zenon, <1>8, <2>1 DEF IsFold
<1>10. PICK h \in [0 .. n -> T] : Traces(h, n, << >>, step, iter[1 .. n])
  <2> HIDE DEF step, T, Fold
  <2>. QED BY <1>3, <1>4, <1>9, FoldTrace
<1>11. ASSUME NEW k \in 1 .. n PROVE h[k] = AddFresh(h[k - 1], candidates[k])
  <2>1. k - 1 \in 0 .. n /\ h[k - 1] \in T OBVIOUS
  <2>. QED BY <1>10, <2>1 DEF Traces
<1> HIDE DEF step
<1>. QED BY Zenon, <1>7, <1>10, <1>11 DEF Traces, TracesFresh

\* The new candidates are those not taken before, each once.
LEMMA FreshOnce ==
    ASSUME NEW candidates \in Seq(UIDs)
    PROVE  /\ Fresh(candidates) \in Seq(UIDs)
           /\ IsInjective(Fresh(candidates))
           /\ ToSet(Fresh(candidates)) = ToSet(candidates) \ seenUID
<1> DEFINE n == Len(candidates)
           First(k) == {candidates[i] : i \in 1 .. k}
<1>1. n \in Nat /\ candidates \in [1 .. n -> UIDs] /\ ToSet(candidates) = First(n) BY DEF ToSet
<1> HIDE DEF n
<1>2. PICK h \in [0 .. n -> Seq(UIDs)] : TracesFresh(h, n, candidates) BY <1>1, FreshTrace
<1> DEFINE P == {k \in 0 .. n : ToSet(h[k]) = First(k) \ seenUID /\ IsInjective(h[k])}
<1>3. 0 \in P
  <2>1. First(0) = {} OBVIOUS
  <2>2. ToSet(<< >>) = {} /\ IsInjective(<< >>) BY DEF ToSet, IsInjective
  <2>3. h[0] = << >> /\ 0 \in 0 .. n BY <1>1, <1>2 DEF TracesFresh
  <2> HIDE DEF First
  <2>. QED BY <2>1, <2>2, <2>3
<1>4. ASSUME NEW k \in 1 .. n, k - 1 \in P PROVE k \in P
  <2> DEFINE s == h[k - 1]
             u == candidates[k]
  <2>1. /\ s \in Seq(UIDs) /\ u \in UIDs /\ k \in 0 .. n
        /\ ToSet(s) = First(k - 1) \ seenUID /\ IsInjective(s)
        BY <1>1, <1>4
  <2>2. h[k] = AddFresh(s, u) BY <1>2 DEF TracesFresh
  <2>3. First(k) = First(k - 1) \cup {u}
    <3>1. 1 .. k = (1 .. k - 1) \cup {k} BY <1>1
    <3>. QED BY <3>1
  <2> HIDE DEF s, u, First
  <2>4. CASE u \in seenUID \cup ToSet(s)
    <3>1. h[k] = s BY <2>2, <2>4 DEF AddFresh
    <3>. QED BY <2>1, <2>3, <2>4, <3>1
  <2>5. CASE u \notin seenUID \cup ToSet(s)
    <3>1. h[k] = Append(s, u) BY <2>2, <2>5 DEF AddFresh
    <3>2. ToSet(h[k]) = ToSet(s) \cup {u} /\ IsInjective(h[k])
          BY <2>1, <2>5, <3>1, AppendedList
    <3>. QED BY <2>1, <2>3, <2>5, <3>2
  <2>. QED BY <2>4, <2>5
<1>5. n \in P
  <2> HIDE DEF P
  <2>1. \A k \in 0 .. n : k \in P BY <1>1, <1>3, <1>4, NumbersUpTo
  <2>. QED BY <1>1, <2>1
<1>6. h[n] \in Seq(UIDs) BY <1>1
<1> HIDE DEF First
<1>. QED BY <1>1, <1>2, <1>5, <1>6 DEF TracesFresh

\* What is fetched of some new candidates: all of them unless the limit is reached.
LEMMA FirstFewTaken ==
    ASSUME NEW us \in Seq(UIDs), IsInjective(us), limit \in Nat, result \in Seq(UIDs),
           Len(result) <= limit
    PROVE  /\ FirstFew(us) \in Seq(UIDs) /\ IsInjective(FirstFew(us))
           /\ ToSet(FirstFew(us)) \subseteq ToSet(us)
           /\ Len(result) + Len(FirstFew(us)) <= limit
           /\ Len(result) + Len(FirstFew(us)) < limit => ToSet(FirstFew(us)) = ToSet(us)
<1> DEFINE room == limit - Len(result)
           m == IF Len(us) <= room THEN Len(us) ELSE room
           new == FirstFew(us)
<1>1. room \in Nat /\ Len(us) \in Nat /\ m \in 0 .. Len(us) OBVIOUS
<1>2. new = SubSeq(us, 1, m) BY DEF FirstFew
<1> HIDE DEF new, m
<1>3. /\ new \in Seq(UIDs) /\ Len(new) = m /\ DOMAIN new = 1 .. m /\ DOMAIN us = 1 .. Len(us)
      /\ \A i \in 1 .. m : i \in 1 .. Len(us) /\ new[i] = us[i]
      BY <1>1, <1>2
<1>4. IsInjective(new) BY <1>3 DEF IsInjective
<1>5. ToSet(new) \subseteq ToSet(us) BY <1>3 DEF ToSet
<1>6. Len(result) + m <= limit BY <1>1 DEF m
<1>7. Len(result) + m < limit => ToSet(new) = ToSet(us)
  <2> SUFFICES ASSUME Len(result) + m < limit PROVE ToSet(new) = ToSet(us)
    OBVIOUS
  <2>1. m = Len(us) BY <1>1 DEF m
  <2>. QED BY <1>3, <2>1 DEF ToSet
<1>. QED BY <1>3, <1>4, <1>5, <1>6, <1>7 DEF new

\* A list of the elements of a set has each once.
LEMMA OrderedOnce ==
    ASSUME NEW S \in SUBSET UIDs, NEW s \in Orders(S)
    PROVE  s \in Seq(UIDs) /\ IsInjective(s) /\ ToSet(s) = S /\ Len(s) = Cardinality(S)
<1> DEFINE n == Cardinality(S)
<1>1. IsFiniteSet(S) /\ n \in Nat BY ThreadAssumption, FS_Subset, FS_CardinalityType
<1>2. s \in [1 .. n -> S] /\ ToSet(s) = S BY DEF Orders
<1>3. s \in Surjection(1 .. n, S) BY <1>2 DEF Surjection, ToSet
<1>4. IsFiniteSet(1 .. n) /\ Cardinality(1 .. n) = n BY <1>1, FS_Interval
<1>5. s \in Injection(1 .. n, S) BY <1>3, <1>4, FS_Surjection
<1>6. IsInjective(s) BY <1>5 DEF Injection
<1>7. s \in Seq(UIDs) /\ Len(s) = n BY <1>1, <1>2
<1>. QED BY <1>2, <1>6, <1>7
-----------------------------------------------------------------------------
(* The inductive invariant.                                                *)

Started == {"next", "fetch", "ok"} \cup Keys

\* Where the walk is.
Places ==
    /\ pc \in {"idle", "root"} => result = << >> /\ seenID = {}
    /\ pc \in Started => result # << >>
    /\ pc \in Started \cup {"root"} => limit > 0
    /\ fetching # << >> => pc \in {"fetch", "error"}
    /\ pc \in Keys => /\ queue # << >> /\ Len(result) < limit
                      /\ Head(queue) # NoID /\ Head(queue) \in seenID

\* What was taken is taken once, and fits within the limit.
Taken ==
    /\ result # << >> => result[1] = start
    /\ IsInjective(result) /\ IsInjective(fetching)
    /\ ToSet(result) \cap ToSet(fetching) = {}
    /\ ToSet(result) \cup ToSet(fetching) \subseteq seenUID
    /\ Len(result) + Len(fetching) <= limit

\* Each message but the first names an identifier that one discovered before it has or
\* replies to.
Discovered ==
    \A k \in 2 .. Len(result) :
        \E j \in 1 .. k - 1 : Follows(result[j]) \cap Mentions(result[k]) # {}

\* An identifier that is looked up comes from a message of the thread.
Led ==
    /\ \A id \in ToSet(queue) \ {NoID} : \E j \in DOMAIN result : id \in Follows(result[j])
    /\ \A u \in ToSet(fetching) : \E j \in DOMAIN result : Follows(result[j]) \cap Mentions(u) # {}
    /\ pc \in Keys => \A u \in ToSet(found) : Head(queue) \in Mentions(u)
    /\ Discovered

\* The messages that name the identifier being looked up in the headers searched so far.
Collected(key) == \A v \in UIDs : Head(queue) \in Named(v, key) => v \in ToSet(found)

\* While nothing has been removed and the limit has not been reached, nothing that an
\* identifier looked up leads to has been left out.
Complete ==
    present = UIDs /\ pc # "error" =>
        /\ seenUID = ToSet(result) \cup ToSet(fetching)
        /\ \A k \in DOMAIN result : Follows(result[k]) \subseteq seenID \cup ToSet(queue)
        /\ pc = "In-Reply-To" => Collected("Message-ID")
        /\ pc = "References" => Collected("Message-ID") /\ Collected("In-Reply-To")
        /\ Len(result) + Len(fetching) < limit =>
               \A id \in seenID, v \in UIDs :
                   /\ ~(pc \in Keys /\ id = Head(queue))
                   /\ id \in Mentions(v)
                   => v \in seenUID
        /\ pc = "ok" => queue = << >> \/ Len(result) >= limit

\* What is returned is what was found, each message once.
Answered == pc = "ok" => IsInjective(returned) /\ ToSet(returned) = ToSet(result)

WalkInv == TypeOK /\ Places /\ Taken /\ Led /\ Complete /\ Answered
-----------------------------------------------------------------------------
(* The identifiers of a message.                                           *)

\* What a message leads to and what it names.
LEMMA LinksOf ==
    ASSUME headers \in [UIDs -> Message], NEW u \in UIDs
    PROVE  /\ Leads(u) \in Seq(IDs \cup {NoID})
           /\ Follows(u) = ToSet(Leads(u)) \ {NoID} /\ Follows(u) \subseteq IDs
           /\ Follows(u) = (ToSet(headers[u].inReplyTo) \cup {headers[u].id}) \ {NoID}
           /\ \A id : id \in Mentions(u) <=> \E key \in Keys : id \in Named(u, key)
<1> DEFINE m == headers[u]
           one == <<m.id>>
           T == IDs \cup {NoID}
<1>1. m.id \in T /\ m.inReplyTo \in Seq(IDs) BY DEF Message
<1>2. m.inReplyTo \in Seq(T) BY <1>1
<1>3. one \in Seq(T) /\ ToSet(one) = {m.id} BY <1>1 DEF ToSet
<1>4. Leads(u) = one \o m.inReplyTo BY DEF Leads
<1> HIDE DEF m, one, T
<1>5. Leads(u) \in Seq(T) /\ ToSet(Leads(u)) = {m.id} \cup ToSet(m.inReplyTo)
      BY <1>2, <1>3, <1>4, BothLists, ElementsOfBoth
<1>6. Follows(u) = ToSet(Leads(u)) \ {NoID} BY DEF Follows
<1>7. ToSet(Leads(u)) \subseteq T BY <1>5 DEF ToSet
<1>8. \A id : id \in Mentions(u) <=> \E key \in Keys : id \in Named(u, key) BY DEF Mentions
<1>. QED BY <1>5, <1>6, <1>7, <1>8 DEF m, T

\* The headers stay as they are.
LEMMA LinksKept ==
    ASSUME UNCHANGED headers
    PROVE  \A u : Follows(u)' = Follows(u) /\ Mentions(u)' = Mentions(u)
                  /\ \A key : Named(u, key)' = Named(u, key)
BY DEF Follows, Leads, Mentions, Named, Header
-----------------------------------------------------------------------------
(* Every step keeps the invariant.                                         *)

\* The initial states satisfy the invariant.
LEMMA WalkInit ==
    ASSUME Init
    PROVE  WalkInv
<1>1. ToSet(<< >>) = {} /\ IsInjective(<< >>) BY DEF ToSet, IsInjective
<1>2. TypeOK BY ThreadAssumption DEF Init, TypeOK
<1>3. Places BY DEF Init, Places, Started, Keys
<1>4. Taken BY <1>1 DEF Init, Taken
<1>5. Discovered BY DEF Init, Discovered
<1>6. Led BY <1>1, <1>5 DEF Init, Led, Keys
<1>7. Complete BY <1>1 DEF Init, Complete, Keys
<1>8. Answered BY DEF Init, Answered
<1>. QED BY <1>2, <1>3, <1>4, <1>6, <1>7, <1>8 DEF WalkInv

\* Steps that leave the lists alone: another command is due, the walk ends or fails, or
\* another client removes a message.
LEMMA ListsKept ==
    ASSUME WalkInv, UNCHANGED <<headers, start, walk>>, TypeOK', Answered',
           present' \subseteq present, limit' = limit,
           \/ pc' = pc
           \/ pc' = "error"
           \/ pc' = "ok" /\ pc = "next" /\ (queue = << >> \/ Len(result) >= limit)
    PROVE  WalkInv'
<1>1. /\ queue' = queue /\ seenID' = seenID /\ seenUID' = seenUID /\ found' = found
      /\ fetching' = fetching /\ result' = result
      BY DEF walk
<1>2. \A u : Follows(u)' = Follows(u) /\ Mentions(u)' = Mentions(u)
             /\ \A key : Named(u, key)' = Named(u, key)
      BY LinksKept
<1>3. Places' BY <1>1 DEF WalkInv, Places, Started, Keys
<1>4. Taken' BY <1>1 DEF WalkInv, Taken
<1>5. Led' BY <1>1, <1>2 DEF WalkInv, Led, Discovered, Keys
<1>6. Complete'
  <2> SUFFICES ASSUME present' = UIDs, pc' # "error" PROVE Complete'
    BY DEF Complete
  <2>1. present = UIDs /\ pc # "error" BY DEF WalkInv, TypeOK
  <2>. QED BY <1>1, <1>2, <2>1 DEF WalkInv, Complete, Collected, Keys
<1>. QED BY <1>3, <1>4, <1>5, <1>6 DEF WalkInv

\* The start of a walk.
LEMMA BeginKeeps ==
    ASSUME WalkInv, NEW n \in Limits, Begin(n)
    PROVE  WalkInv'
<1>1. TypeOK' /\ Answered'
  <2>1. /\ limit' = limit \/ limit' \in 0 .. MaxThread
        /\ pc' \in {"root", "error"}
        /\ UNCHANGED <<headers, present, start, walk, returned>>
        BY DEF Begin
  <2>. QED BY <2>1 DEF walk, WalkInv, TypeOK, Returned, Answered
<1>2. CASE pc' = "error"
  <2>1. limit' = limit \/ pc' = "root" BY DEF Begin
  <2>. QED BY <1>1, <1>2, <2>1, ListsKept DEF Begin
<1>3. CASE pc' # "error"
  <2>1. /\ pc = "idle" /\ pc' = "root" /\ limit' \in 1 .. MaxThread
        /\ UNCHANGED <<headers, present, start, walk>>
        BY <1>3 DEF Begin
  <2>2. result = << >> /\ fetching = << >> /\ seenID = {} BY <2>1 DEF WalkInv, Places
  <2>3. \A u : Follows(u)' = Follows(u) /\ Mentions(u)' = Mentions(u)
               /\ \A key : Named(u, key)' = Named(u, key)
        BY <2>1, LinksKept
  <2>4. Places' BY <2>1, <2>2 DEF walk, Places, Started, Keys
  <2>5. Taken' BY <2>1, <2>2 DEF walk, WalkInv, Taken
  <2>6. Led' BY <2>1, <2>2, <2>3 DEF walk, WalkInv, Led, Discovered, Keys
  <2>7. Complete' BY <2>1, <2>2, <2>3 DEF walk, WalkInv, Complete, Keys
  <2>. QED BY <1>1, <2>4, <2>5, <2>6, <2>7 DEF WalkInv
<1>. QED BY <1>2, <1>3

\* The message asked for.
LEMMA RootKeeps ==
    ASSUME WalkInv, FetchRoot
    PROVE  WalkInv'
<1>1. CASE start \notin present
  <2>1. pc' = "error" /\ UNCHANGED <<headers, present, start, limit, walk, returned>>
        BY <1>1 DEF FetchRoot, walk
  <2>2. TypeOK' /\ Answered' BY <2>1 DEF walk, WalkInv, TypeOK, Returned, Answered
  <2>. QED BY <2>1, <2>2, ListsKept
<1>2. CASE start \in present
  <2> DEFINE replies == headers[start].inReplyTo
             own == IF headers[start].id = NoID THEN << >> ELSE <<headers[start].id>>
             T == IDs \cup {NoID}
  <2>1. /\ pc = "root" /\ pc' = "next" /\ result' = <<start>> /\ seenUID' = {start}
        /\ queue' = replies \o own
        /\ UNCHANGED <<headers, present, start, limit, seenID, found, fetching, returned>>
        BY <1>2 DEF FetchRoot
  <2>2. start \in UIDs /\ headers \in [UIDs -> Message] /\ headers[start] \in Message
        BY DEF WalkInv, TypeOK
  <2>3. fetching = << >> /\ result = << >> /\ seenID = {} /\ limit \in Nat
        BY <2>1 DEF WalkInv, Places, TypeOK
  <2>4. replies \in Seq(T) /\ own \in Seq(T)
    <3>1. headers[start].inReplyTo \in Seq(IDs) /\ headers[start].id \in T BY <2>2 DEF Message
    <3>2. replies \in Seq(T) BY <3>1
    <3>3. own \in Seq(T)
      <4>1. \A e \in T : <<e>> \in Seq(T) /\ << >> \in Seq(T) OBVIOUS
      <4> HIDE DEF T
      <4>. QED BY <3>1, <4>1
    <3>. QED BY <3>2, <3>3
  <2>5. ToSet(own) = {headers[start].id} \ {NoID} BY DEF ToSet
  <2> HIDE DEF replies, own, T
  <2>6. queue' \in Seq(T) /\ ToSet(queue)' = ToSet(replies) \cup ToSet(own)
    <3>1. replies \o own \in Seq(T) BY <2>4, BothLists
    <3>2. ToSet(replies \o own) = ToSet(replies) \cup ToSet(own) BY <2>4, ElementsOfBoth
    <3>3. ToSet(queue)' = ToSet(replies \o own) BY <2>1 DEF ToSet
    <3>. QED BY <2>1, <3>1, <3>2, <3>3
  <2>7. \A u : Follows(u)' = Follows(u) /\ Mentions(u)' = Mentions(u)
        BY <2>1, LinksKept
  <2>8. Follows(start) = (ToSet(replies) \cup {headers[start].id}) \ {NoID}
        BY <2>2, LinksOf DEF replies
  <2>9. TypeOK'
    <3>1. result' \in Seq(UIDs) BY <2>1, <2>2
    <3>. QED BY <2>1, <2>2, <2>6, <3>1 DEF WalkInv, TypeOK, T
  <2>10. /\ DOMAIN result' = {1} /\ result'[1] = start /\ Len(result') = 1 /\ ToSet(result)' = {start}
         /\ result' # << >> /\ IsInjective(result)'
    <3>1. DOMAIN result' = {1} /\ result'[1] = start /\ Len(result') = 1 /\ result' # << >>
          BY <2>1
    <3>. QED BY <3>1 DEF ToSet, IsInjective
  <2>11. limit > 0 BY <2>1 DEF WalkInv, Places
  <2>12. Places' BY <2>1, <2>3, <2>10, <2>11 DEF Places, Started, Keys
  <2>13. Taken'
    <3>1. ToSet(fetching)' = {} /\ IsInjective(fetching)' /\ Len(fetching') = 0
          BY <2>1, <2>3 DEF ToSet, IsInjective
    <3>. QED BY <2>1, <2>3, <2>10, <2>11, <3>1 DEF Taken
  <2>14. Led'
    <3>1. \A id \in ToSet(queue)' \ {NoID} : id \in Follows(start) BY <2>5, <2>6, <2>8
    <3>2. Discovered' BY <2>10 DEF Discovered
    <3>3. ToSet(fetching)' = {} BY <2>1, <2>3 DEF ToSet
    <3>. QED BY <2>1, <2>7, <2>10, <3>1, <3>2, <3>3 DEF Led, Keys
  <2>15. Complete'
    <3>1. Follows(start) \subseteq ToSet(queue)' BY <2>5, <2>6, <2>8
    <3>2. ToSet(fetching)' = {} BY <2>1, <2>3 DEF ToSet
    <3>. QED BY <2>1, <2>3, <2>7, <2>10, <3>1, <3>2 DEF Complete, Keys
  <2>. QED BY <2>1, <2>9, <2>12, <2>13, <2>14, <2>15 DEF WalkInv, Answered
<1>. QED BY <1>1, <1>2

\* An identifier is taken from the queue, or skipped.
LEMMA NextKeeps ==
    ASSUME WalkInv, NextID
    PROVE  WalkInv'
<1> DEFINE T == IDs \cup {NoID}
<1>1. /\ pc = "next" /\ queue \in Seq(T) /\ queue # << >> /\ Len(result) < limit
      /\ UNCHANGED <<headers, present, start, limit, seenUID, fetching, result, returned>>
      /\ seenID \subseteq IDs
      BY DEF NextID, WalkInv, TypeOK
<1>2. /\ Head(queue) \in T /\ Tail(queue) \in Seq(T)
      /\ ToSet(queue) = {Head(queue)} \cup ToSet(Tail(queue))
      BY <1>1, HeadAndTail
<1>3. \A u : Follows(u)' = Follows(u) /\ Mentions(u)' = Mentions(u)
             /\ \A key : Named(u, key)' = Named(u, key)
      BY <1>1, LinksKept
<1>4. fetching = << >> /\ result # << >> /\ limit > 0 BY <1>1 DEF WalkInv, Places, Started
<1>5. Taken' BY <1>1 DEF WalkInv, Taken
<1>6. CASE Head(queue) \in seenID \cup {NoID}
  <2>1. queue' = Tail(queue) /\ pc' = pc /\ seenID' = seenID /\ found' = found
        BY <1>6 DEF NextID
  <2>2. ToSet(queue)' = ToSet(Tail(queue)) BY <2>1 DEF ToSet
  <2>3. TypeOK' BY <1>1, <1>2, <2>1 DEF WalkInv, TypeOK
  <2>4. Places' BY <1>1, <2>1 DEF WalkInv, Places, Started, Keys
  <2>5. Led' BY <1>1, <1>2, <1>3, <2>1, <2>2 DEF WalkInv, Led, Discovered, Keys
  <2>6. Complete'
    <3> SUFFICES ASSUME present = UIDs PROVE Complete'
      BY <1>1 DEF Complete
    <3>1. \A k \in DOMAIN result : NoID \notin Follows(result[k]) BY DEF Follows
    <3>2. \A k \in DOMAIN result : Follows(result[k]) \subseteq seenID \cup ToSet(Tail(queue))
          BY <1>1, <1>2, <1>6, <3>1 DEF WalkInv, Complete
    <3>. QED BY <1>1, <1>3, <2>1, <2>2, <3>2 DEF WalkInv, Complete, Keys
  <2>. QED BY <1>1, <1>5, <2>1, <2>3, <2>4, <2>5, <2>6 DEF WalkInv, Answered
<1>7. CASE Head(queue) \notin seenID \cup {NoID}
  <2>1. queue' = queue /\ pc' = "Message-ID" /\ seenID' = seenID \cup {Head(queue)} /\ found' = << >>
        BY <1>7 DEF NextID
  <2>2. TypeOK' BY <1>1, <1>2, <1>7, <2>1 DEF WalkInv, TypeOK, Keys
  <2>3. Places' BY <1>1, <1>2, <1>4, <1>7, <2>1 DEF Places, Started, Keys
  <2>4. ToSet(found)' = {} BY <2>1 DEF ToSet
  <2>5. Led' BY <1>1, <1>2, <1>3, <2>1, <2>4 DEF WalkInv, Led, Discovered, Keys
  <2>6. Complete'
    <3> SUFFICES ASSUME present = UIDs PROVE Complete'
      BY <1>1 DEF Complete
    <3>. QED BY <1>1, <1>3, <2>1 DEF WalkInv, Complete, Keys
  <2>. QED BY <1>5, <2>1, <2>2, <2>3, <2>5, <2>6 DEF WalkInv, Answered
<1>. QED BY <1>6, <1>7

\* One of the first two searches.
LEMMA MoreKeeps ==
    ASSUME WalkInv, NEW key, NEW then, SearchMore(key, then),
           \/ key = "Message-ID" /\ then = "In-Reply-To"
           \/ key = "In-Reply-To" /\ then = "References"
    PROVE  WalkInv'
<1> DEFINE id == Head(queue)
           hits == Search(key, id)
<1>1. /\ pc = key /\ pc' = then /\ pc \in Keys /\ pc' \in Keys
      /\ found' = found \o hits
      /\ UNCHANGED <<headers, present, start, limit, queue, seenID, seenUID, fetching, result,
                     returned>>
      BY DEF SearchMore, Keys
<1>2. found \in Seq(UIDs) /\ present \subseteq UIDs BY DEF WalkInv, TypeOK
<1>3. id # NoID BY <1>1 DEF WalkInv, Places
<1>4. hits \in Seq(UIDs) /\ ToSet(hits) = {u \in present : id \in Named(u, key)}
      BY <1>2, <1>3, SearchFinds
<1>5. \A u : Follows(u)' = Follows(u) /\ Mentions(u)' = Mentions(u)
             /\ \A k : Named(u, k)' = Named(u, k)
      BY <1>1, LinksKept
<1>6. id' = id BY <1>1
<1>7. \A u : id \in Named(u, key) => id \in Mentions(u) BY <1>1 DEF Mentions
<1> HIDE DEF hits
<1>8. found' \in Seq(UIDs) /\ ToSet(found)' = ToSet(found) \cup ToSet(hits)
  <2>1. found \o hits \in Seq(UIDs) BY <1>2, <1>4, BothLists
  <2>2. ToSet(found \o hits) = ToSet(found) \cup ToSet(hits) BY <1>2, <1>4, ElementsOfBoth
  <2>3. ToSet(found)' = ToSet(found \o hits) BY <1>1 DEF ToSet
  <2>. QED BY <1>1, <2>1, <2>2, <2>3
<1>9. TypeOK' BY <1>1, <1>8 DEF WalkInv, TypeOK
<1>10. Places' BY <1>1 DEF WalkInv, Places, Started, Keys
<1>11. Taken' BY <1>1 DEF WalkInv, Taken
<1>12. Led'
  <2>1. \A u \in ToSet(found)' : id \in Mentions(u) BY <1>1, <1>4, <1>7, <1>8 DEF WalkInv, Led
  <2>. QED BY <1>1, <1>5, <1>6, <2>1 DEF WalkInv, Led, Discovered, Keys
<1>13. Complete'
  <2> SUFFICES ASSUME present = UIDs PROVE Complete'
    BY <1>1 DEF Complete
  <2>1. Collected(key)' BY <1>1, <1>4, <1>5, <1>6, <1>8 DEF Collected
  <2>2. key = "In-Reply-To" => Collected("Message-ID")'
        BY <1>1, <1>5, <1>6, <1>8 DEF WalkInv, Complete, Collected
  <2>. QED BY <1>1, <1>5, <1>6, <2>1, <2>2 DEF WalkInv, Complete, Keys
<1>14. Answered' BY <1>1 DEF Answered, Keys
<1>. QED BY <1>9, <1>10, <1>11, <1>12, <1>13, <1>14 DEF WalkInv

\* The last search, and the choice of what to fetch.
LEMMA LastKeeps ==
    ASSUME WalkInv, SearchLast
    PROVE  WalkInv'
<1> DEFINE T == IDs \cup {NoID}
           id == Head(queue)
           hits == Search("References", id)
           all == found \o hits
           us == Fresh(all)
           new == FirstFew(us)
<1>1. /\ pc = "References" /\ pc \in Keys
      /\ seenUID' = seenUID \cup ToSet(new) /\ fetching' = new
      /\ pc' = IF new = << >> THEN "next" ELSE "fetch"
      /\ queue' = Tail(queue) /\ found' = << >>
      /\ UNCHANGED <<headers, present, start, limit, seenID, result, returned>>
      BY DEF SearchLast, Keys
<1>2. /\ found \in Seq(UIDs) /\ present \subseteq UIDs /\ queue \in Seq(T) /\ seenID \subseteq IDs
      /\ limit \in Nat /\ result \in Seq(UIDs) /\ seenUID \subseteq UIDs
      BY DEF WalkInv, TypeOK
<1>3. /\ id # NoID /\ id \in seenID /\ queue # << >> /\ Len(result) < limit /\ fetching = << >>
      /\ result # << >> /\ limit > 0
      BY <1>1 DEF WalkInv, Places, Started, Keys
<1>4. hits \in Seq(UIDs) /\ ToSet(hits) = {u \in present : id \in Named(u, "References")}
      BY <1>2, <1>3, SearchFinds
<1>5. \A u : Follows(u)' = Follows(u) /\ Mentions(u)' = Mentions(u)
             /\ \A k : Named(u, k)' = Named(u, k)
      BY <1>1, LinksKept
<1>6. \A u \in ToSet(found) \cup ToSet(hits) : id \in Mentions(u)
      BY <1>1, <1>4 DEF WalkInv, Led, Mentions
<1>7. /\ Tail(queue) \in Seq(T) /\ ToSet(Tail(queue)) \subseteq ToSet(queue)
      /\ ToSet(queue) = {id} \cup ToSet(Tail(queue))
      BY <1>2, <1>3, HeadAndTail
<1> HIDE DEF hits, id
<1>8. all \in Seq(UIDs) /\ ToSet(all) = ToSet(found) \cup ToSet(hits)
      BY <1>2, <1>4, BothLists, ElementsOfBoth
<1> HIDE DEF all
<1>9. us \in Seq(UIDs) /\ IsInjective(us) /\ ToSet(us) = ToSet(all) \ seenUID
      BY <1>8, FreshOnce
<1> HIDE DEF us
<1>10. /\ new \in Seq(UIDs) /\ IsInjective(new) /\ ToSet(new) \subseteq ToSet(us)
       /\ Len(result) + Len(new) <= limit
       /\ Len(result) + Len(new) < limit => ToSet(new) = ToSet(us)
       BY <1>2, <1>3, <1>9, FirstFewTaken
<1> HIDE DEF new
<1>11. /\ ToSet(fetching)' = ToSet(new) /\ ToSet(found)' = {} /\ ToSet(fetching) = {}
       /\ ToSet(queue)' = ToSet(Tail(queue)) /\ ToSet(result)' = ToSet(result)
       BY <1>1, <1>3 DEF ToSet
<1>12. ToSet(new) \subseteq UIDs BY <1>10 DEF ToSet
<1>13. TypeOK' BY <1>1, <1>7, <1>10, <1>12 DEF WalkInv, TypeOK
<1>14. Places' BY <1>1, <1>3 DEF Places, Started, Keys
<1>15. Taken'
  <2>1. ToSet(result) \cap ToSet(new) = {} BY <1>9, <1>10 DEF WalkInv, Taken
  <2>. QED BY <1>1, <1>10, <1>11, <2>1 DEF WalkInv, Taken
<1>16. Led'
  <2>1. PICK j \in DOMAIN result : id \in Follows(result[j])
        BY <1>3, <1>7 DEF WalkInv, Led
  <2>2. \A u \in ToSet(new) : id \in Mentions(u) BY <1>6, <1>8, <1>9, <1>10
  <2>. QED BY <1>1, <1>5, <1>7, <1>11, <2>1, <2>2 DEF WalkInv, Led, Discovered, Keys
<1>17. Complete'
  <2> SUFFICES ASSUME present = UIDs PROVE Complete'
    BY <1>1 DEF Complete
  <2>1. /\ seenUID = ToSet(result) \cup ToSet(fetching)
        /\ \A k \in DOMAIN result : Follows(result[k]) \subseteq seenID \cup ToSet(queue)
        /\ Collected("Message-ID") /\ Collected("In-Reply-To")
        /\ Len(result) + Len(fetching) < limit =>
               \A i \in seenID, v \in UIDs :
                   ~(pc \in Keys /\ i = id) /\ i \in Mentions(v) => v \in seenUID
        BY <1>1 DEF WalkInv, Complete, id
  <2>2. ASSUME Len(result) + Len(new) < limit, NEW v \in UIDs, id \in Mentions(v)
        PROVE  v \in seenUID'
    <3>1. \E key \in Keys : id \in Named(v, key)
          BY <2>2, LinksOf DEF WalkInv, TypeOK
    <3>2. v \in ToSet(found) \cup ToSet(hits)
          BY <1>4, <2>1, <3>1 DEF Collected, Keys, id
    <3>. QED BY <1>1, <1>8, <1>9, <1>10, <2>2, <3>2
  <2>3. Len(fetching) = 0 /\ Len(new) \in Nat BY <1>3, <1>10
  <2>4. ASSUME Len(result) + Len(new) < limit, NEW i \in seenID, NEW v \in UIDs, i \in Mentions(v)
        PROVE  v \in seenUID'
    <3>1. CASE i = id BY <2>2, <2>4, <3>1
    <3>2. CASE i # id
          BY <1>1, <1>3, <2>1, <2>3, <2>4, <3>2
    <3>. QED BY <3>1, <3>2
  <2>. QED BY <1>1, <1>3, <1>5, <1>7, <1>11, <2>1, <2>4 DEF Complete
<1>18. Answered' BY <1>1 DEF Answered
<1>. QED BY <1>13, <1>14, <1>15, <1>16, <1>17, <1>18 DEF WalkInv

\* A list without repetitions is as long as it has elements.
LEMMA CountedOnce ==
    ASSUME NEW s \in Seq(UIDs), IsInjective(s)
    PROVE  IsFiniteSet(ToSet(s)) /\ Cardinality(ToSet(s)) = Len(s)
<1> DEFINE n == Len(s)
           S == ToSet(s)
<1>1. n \in Nat /\ DOMAIN s = 1 .. n OBVIOUS
<1>2. s \in Surjection(1 .. n, S)
  <2>1. s \in [1 .. n -> S] BY DEF ToSet
  <2>. QED BY <1>1, <2>1 DEF Surjection, ToSet
<1>3. s \in Injection(1 .. n, S) BY <1>2 DEF Injection, Surjection
<1>4. IsFiniteSet(1 .. n) /\ Cardinality(1 .. n) = n BY <1>1, FS_Interval
<1>5. IsFiniteSet(S) /\ Cardinality(S) = n
  <2> HIDE DEF S, n
  <2>. QED BY <1>2, <1>3, <1>4, FS_Surjection
<1>. QED BY <1>5

\* The new messages, those that are still there, join the thread, and what they name
\* the queue.
LEMMA FetchKeeps ==
    ASSUME WalkInv, Fetch
    PROVE  WalkInv'
<1> DEFINE T == IDs \cup {NoID}
           S == ToSet(fetching) \cap present
<1>1. PICK got \in Orders(S) :
          /\ result' = result \o got
          /\ queue' = queue \o FlattenSeq([k \in DOMAIN got |-> Leads(got[k])])
      BY DEF Fetch
<1>2. /\ pc = "fetch" /\ pc' = "next" /\ fetching' = << >>
      /\ UNCHANGED <<headers, present, start, limit, seenID, seenUID, found, returned>>
      BY DEF Fetch
<1>3. /\ headers \in [UIDs -> Message] /\ result \in Seq(UIDs) /\ fetching \in Seq(UIDs)
      /\ queue \in Seq(T) /\ present \subseteq UIDs /\ limit \in Nat
      BY DEF WalkInv, TypeOK
<1>4. /\ got \in Seq(UIDs) /\ IsInjective(got) /\ ToSet(got) = S /\ Len(got) = Cardinality(S)
      BY <1>3, OrderedOnce
<1>5. Len(got) \in Nat /\ Len(got) <= Len(fetching) /\ (S = ToSet(fetching) => Len(got) = Len(fetching))
  <2>1. IsFiniteSet(ToSet(fetching)) /\ Cardinality(ToSet(fetching)) = Len(fetching)
        BY <1>3, CountedOnce DEF WalkInv, Taken
  <2>2. S \subseteq ToSet(fetching) OBVIOUS
  <2> HIDE DEF S
  <2>3. Cardinality(S) <= Cardinality(ToSet(fetching)) BY <2>1, <2>2, FS_Subset
  <2>. QED BY <1>4, <2>1, <2>3
<1> DEFINE leads == [k \in DOMAIN got |-> Leads(got[k])]
           more == FlattenSeq(leads)
<1>6. /\ more \in Seq(T)
      /\ ToSet(more) = UNION {ToSet(Leads(got[k])) : k \in DOMAIN got}
  <2>1. DOMAIN got = 1 .. Len(got) /\ \A k \in DOMAIN got : got[k] \in UIDs BY <1>4
  <2>2. \A k \in DOMAIN got : Leads(got[k]) \in Seq(T) BY <1>3, <2>1, LinksOf
  <2>3. leads \in [1 .. Len(got) -> Seq(T)] BY <2>1, <2>2
  <2>4. \A k \in DOMAIN got : leads[k] = Leads(got[k]) OBVIOUS
  <2> DEFINE n == Len(got)
  <2> HIDE DEF leads, T, n
  <2>5. n \in Nat /\ leads \in [1 .. n -> Seq(T)] BY <1>5, <2>3 DEF n
  <2>6. more \in Seq(T) /\ ToSet(more) = UNION {ToSet(leads[k]) : k \in 1 .. n}
        BY <2>5, FlattenedList
  <2>. QED BY <2>1, <2>4, <2>6 DEF n, T
<1> HIDE DEF leads, more
<1>7. /\ result' \in Seq(UIDs) /\ ToSet(result)' = ToSet(result) \cup S
      /\ Len(result') = Len(result) + Len(got)
      /\ \A k \in 1 .. Len(result) + Len(got) :
             result'[k] = IF k <= Len(result) THEN result[k] ELSE got[k - Len(result)]
  <2>1. /\ result \o got \in Seq(UIDs) /\ Len(result \o got) = Len(result) + Len(got)
        /\ \A k \in 1 .. Len(result) + Len(got) :
               (result \o got)[k] = IF k <= Len(result) THEN result[k] ELSE got[k - Len(result)]
        BY <1>3, <1>4, BothLists
  <2>2. ToSet(result \o got) = ToSet(result) \cup ToSet(got) BY <1>3, <1>4, ElementsOfBoth
  <2>3. ToSet(result)' = ToSet(result \o got) BY <1>1 DEF ToSet
  <2>. QED BY <1>1, <1>4, <2>1, <2>2, <2>3
<1>8. queue' \in Seq(T) /\ ToSet(queue)' = ToSet(queue) \cup ToSet(more)
  <2>1. queue' = queue \o more BY <1>1 DEF more, leads
  <2> HIDE DEF T
  <2>2. queue \o more \in Seq(T) BY <1>3, <1>6, BothLists
  <2>3. ToSet(queue \o more) = ToSet(queue) \cup ToSet(more) BY <1>3, <1>6, ElementsOfBoth
  <2>4. ToSet(queue)' = ToSet(queue \o more) BY <2>1 DEF ToSet
  <2>. QED BY <2>1, <2>2, <2>3, <2>4
<1>9. /\ Len(result) \in Nat /\ Len(fetching) \in Nat
      /\ result # << >> /\ limit > 0 /\ Len(result) > 0
      /\ DOMAIN result = 1 .. Len(result) /\ DOMAIN result' = 1 .. Len(result')
  <2>1. result # << >> /\ limit > 0 BY <1>2 DEF WalkInv, Places, Started
  <2>. QED BY <1>3, <1>7, <2>1
<1>10. \A u : Follows(u)' = Follows(u) /\ Mentions(u)' = Mentions(u)
              /\ \A k : Named(u, k)' = Named(u, k)
       BY <1>2, LinksKept
<1>11. ToSet(fetching)' = {} /\ IsInjective(fetching)' /\ Len(fetching') = 0
       BY <1>2 DEF ToSet, IsInjective
<1>12. \A j \in 1 .. Len(result) : j \in DOMAIN result' /\ result'[j] = result[j]
       BY <1>5, <1>7, <1>9
<1>13. \A u \in S : \E j \in DOMAIN result' : result'[j] = u
       BY <1>7 DEF ToSet
<1>14. TypeOK' BY <1>2, <1>7, <1>8 DEF WalkInv, TypeOK
<1>15. Places' BY <1>2, <1>5, <1>7, <1>9 DEF Places, Started, Keys
<1>16. Taken'
  <2>1. IsInjective(result)'
    <3>1. ToSet(result) \cap ToSet(got) = {} BY <1>4 DEF WalkInv, Taken
    <3>2. IsInjective(result \o got)
          BY <1>3, <1>4, <3>1, ElementsOfBoth DEF WalkInv, Taken
    <3>3. IsInjective(result)' <=> IsInjective(result \o got) BY <1>1 DEF IsInjective
    <3>. QED BY <3>2, <3>3
  <2>2. result'[1] = start BY <1>9, <1>12 DEF WalkInv, Taken
  <2>3. ToSet(result)' \subseteq seenUID BY <1>7 DEF WalkInv, Taken
  <2>4. Len(result') <= limit BY <1>3, <1>5, <1>7, <1>9 DEF WalkInv, Taken
  <2>. QED BY <1>2, <1>7, <1>11, <2>1, <2>2, <2>3, <2>4 DEF Taken
<1>17. Led'
  <2>1. ASSUME NEW id \in ToSet(queue)' \ {NoID} PROVE \E j \in DOMAIN result' : id \in Follows(result'[j])
    <3>1. CASE id \in ToSet(queue)
          BY <1>9, <1>12, <2>1, <3>1 DEF WalkInv, Led
    <3>2. CASE id \in ToSet(more)
      <4>1. PICK k \in DOMAIN got : id \in ToSet(Leads(got[k])) BY <1>6, <3>2
      <4>2. got[k] \in S BY <1>4 DEF ToSet
      <4>3. id \in Follows(got[k]) BY <2>1, <4>1 DEF Follows
      <4>. QED BY <1>13, <4>2, <4>3
    <3>. QED BY <1>8, <2>1, <3>1, <3>2
  <2>2. ASSUME NEW k \in 2 .. Len(result')
        PROVE  \E j \in 1 .. k - 1 : Follows(result'[j]) \cap Mentions(result'[k]) # {}
    <3>1. CASE k <= Len(result)
      <4>1. k \in 2 .. Len(result) BY <1>9, <3>1
      <4>2. PICK j \in 1 .. k - 1 : Follows(result[j]) \cap Mentions(result[k]) # {}
            BY <4>1 DEF WalkInv, Led, Discovered
      <4>3. j \in 1 .. Len(result) /\ k \in 1 .. Len(result) BY <1>9, <4>1
      <4>. QED BY <1>12, <4>2, <4>3
    <3>2. CASE ~(k <= Len(result))
      <4>1. k - Len(result) \in 1 .. Len(got) /\ k \in 1 .. Len(result) + Len(got)
            BY <1>5, <1>7, <1>9, <3>2
      <4>2. result'[k] = got[k - Len(result)] BY <1>7, <3>2, <4>1
      <4>3. DOMAIN got = 1 .. Len(got) BY <1>4
      <4>4. got[k - Len(result)] \in ToSet(got) BY <4>1, <4>3 DEF ToSet
      <4>5. result'[k] \in ToSet(fetching) BY <1>4, <4>2, <4>4
      <4>6. PICK j \in DOMAIN result : Follows(result[j]) \cap Mentions(result'[k]) # {}
            BY <4>5 DEF WalkInv, Led
      <4>7. j \in 1 .. k - 1 /\ j \in 1 .. Len(result) BY <1>9, <3>2
      <4>. QED BY <1>12, <4>6, <4>7
    <3>. QED BY <3>1, <3>2
  <2>3. Discovered' BY <1>10, <2>2 DEF Discovered
  <2>. QED BY <1>2, <1>10, <1>11, <2>1, <2>3 DEF Led, Keys
<1>18. Complete'
  <2> SUFFICES ASSUME present = UIDs PROVE Complete'
    BY <1>2 DEF Complete
  <2>1. /\ seenUID = ToSet(result) \cup ToSet(fetching)
        /\ \A k \in DOMAIN result : Follows(result[k]) \subseteq seenID \cup ToSet(queue)
        /\ Len(result) + Len(fetching) < limit =>
               \A i \in seenID, v \in UIDs : i \in Mentions(v) => v \in seenUID
        BY <1>2 DEF WalkInv, Complete, Keys
  <2>2. S = ToSet(fetching) BY <1>3 DEF ToSet
  <2>3. seenUID' = ToSet(result)' BY <1>2, <1>7, <2>1, <2>2
  <2>4. ASSUME NEW k \in DOMAIN result' PROVE Follows(result'[k]) \subseteq seenID \cup ToSet(queue)'
    <3>1. CASE k <= Len(result)
      <4>1. k \in DOMAIN result /\ result'[k] = result[k] BY <1>9, <1>12, <3>1
      <4>. QED BY <1>8, <2>1, <4>1
    <3>2. CASE ~(k <= Len(result))
      <4>1. k - Len(result) \in 1 .. Len(got) /\ k \in 1 .. Len(result) + Len(got)
            BY <1>5, <1>7, <1>9, <3>2
      <4>2. result'[k] = got[k - Len(result)] BY <1>7, <3>2, <4>1
      <4>3. DOMAIN got = 1 .. Len(got) BY <1>4
      <4>4. ToSet(Leads(result'[k])) \subseteq ToSet(more) BY <1>6, <4>1, <4>2, <4>3
      <4>. QED BY <1>8, <4>4 DEF Follows
    <3>. QED BY <3>1, <3>2
  <2>5. Len(result') = Len(result) + Len(fetching) BY <1>5, <1>7, <2>2
  <2>. QED BY <1>2, <1>9, <1>10, <1>11, <2>1, <2>3, <2>4, <2>5 DEF Complete, Keys
<1>. QED BY <1>2, <1>14, <1>15, <1>16, <1>17, <1>18 DEF WalkInv, Answered

\* Every step keeps the invariant.
LEMMA WalkStep ==
    ASSUME WalkInv, [Next]_vars
    PROVE  WalkInv'
<1>1. CASE \E n \in Limits : Begin(n) BY <1>1, BeginKeeps
<1>2. CASE FetchRoot BY <1>2, RootKeeps
<1>3. CASE NextID BY <1>3, NextKeeps
<1>4. CASE SearchMore("Message-ID", "In-Reply-To") BY <1>4, MoreKeeps
<1>5. CASE SearchMore("In-Reply-To", "References") BY <1>5, MoreKeeps
<1>6. CASE SearchLast BY <1>6, LastKeeps
<1>7. CASE Fetch BY <1>7, FetchKeeps
<1>8. CASE Finish
  <2>1. /\ pc = "next" /\ pc' = "ok" /\ (queue = << >> \/ Len(result) >= limit)
        /\ UNCHANGED <<headers, present, start, limit, walk>>
        /\ returned' \in Orders(ToSet(result))
        BY <1>8 DEF Finish
  <2>2. ToSet(result) \in SUBSET UIDs BY DEF WalkInv, TypeOK, ToSet
  <2>3. returned' \in Seq(UIDs) /\ IsInjective(returned') /\ ToSet(returned') = ToSet(result)
        BY <2>1, <2>2, OrderedOnce
  <2>4. TypeOK' BY <2>1, <2>3 DEF walk, WalkInv, TypeOK, Returned
  <2>5. Answered'
    <3>1. /\ IsInjective(returned)' <=> IsInjective(returned')
          /\ ToSet(returned)' = ToSet(returned') /\ ToSet(result)' = ToSet(result)
          BY <2>1 DEF IsInjective, ToSet, walk
    <3>. QED BY <2>3, <3>1 DEF Answered
  <2>. QED BY <2>1, <2>4, <2>5, ListsKept
<1>9. CASE Fail
  <2>1. pc' = "error" /\ UNCHANGED <<headers, present, start, limit, walk, returned>>
        BY <1>9 DEF Fail
  <2>2. TypeOK' /\ Answered' BY <2>1 DEF walk, WalkInv, TypeOK, Returned, Answered
  <2>. QED BY <2>1, <2>2, ListsKept
<1>10. CASE \E u \in UIDs : Expunge(u)
  <2>1. /\ present' \subseteq present /\ UNCHANGED <<headers, pc, start, limit, walk, returned>>
        /\ pc # "ok"
        BY <1>10 DEF Expunge, Keys
  <2>2. TypeOK' /\ Answered' BY <2>1 DEF walk, WalkInv, TypeOK, Answered
  <2>. QED BY <2>1, <2>2, ListsKept
<1>11. CASE UNCHANGED vars
  <2>1. UNCHANGED <<headers, present, pc, start, limit, walk, returned>>
        BY <1>11 DEF vars, walk
  <2>2. TypeOK' BY <2>1 DEF walk, WalkInv, TypeOK
  <2>3. Answered'
    <3>1. /\ IsInjective(returned)' <=> IsInjective(returned)
          /\ ToSet(returned)' = ToSet(returned) /\ ToSet(result)' = ToSet(result)
          BY <2>1 DEF IsInjective, ToSet, walk
    <3>. QED BY <2>1, <3>1 DEF WalkInv, Answered
  <2>. QED BY <2>1, <2>2, <2>3, ListsKept
<1>. QED BY <1>1, <1>2, <1>3, <1>4, <1>5, <1>6, <1>7, <1>8, <1>9, <1>10, <1>11
         DEF Next, Walk, Quiescent

\* The invariant holds of every walk.
LEMMA WalkInvAlways == Spec => []WalkInv
<1>1. Init => WalkInv BY WalkInit
<1>2. WalkInv /\ [Next]_vars => WalkInv' BY WalkStep
<1>. QED BY <1>1, <1>2, PTL DEF Spec
-----------------------------------------------------------------------------
(* How far the walk is from its end.                                       *)

\* The identifiers that a walk may still look up.
Unlooked == (UNION {Follows(u) : u \in UIDs}) \ seenID

\* What is left to do with one identifier, and before the first.
Stages ==
    [p \in {"idle", "root", "next", "fetch"} \cup Keys \cup Returned |->
        CASE p = "idle" -> 7 [] p = "root" -> 6
          [] p = "Message-ID" -> 5 [] p = "In-Reply-To" -> 4 [] p = "References" -> 3
          [] p = "fetch" -> 2 [] p = "next" -> 1
          [] OTHER -> 0]

\* A step of the walk looks up one of finitely many identifiers, or comes closer to the
\* next look-up or to the end, or shortens the queue; only other clients make steps
\* besides, and these are bounded by the messages that are there.
Advances ==
    /\ IsFiniteSet(Unlooked)
    /\ \/ Unlooked' \subseteq Unlooked /\ Unlooked' # Unlooked
       \/ Unlooked' = Unlooked /\ Stages[pc'] < Stages[pc]
       \/ Unlooked' = Unlooked /\ pc' = pc /\ Len(queue') < Len(queue)
       \/ present' \subseteq present /\ present' # present /\ UNCHANGED <<pc, walk>>

\* The elements of a list are finitely many.
LEMMA FiniteList ==
    ASSUME NEW T, NEW s \in Seq(T)
    PROVE  IsFiniteSet(ToSet(s))
<1> DEFINE n == Len(s)
           S == ToSet(s)
<1>1. n \in Nat /\ DOMAIN s = 1 .. n OBVIOUS
<1>2. s \in Surjection(1 .. n, S)
  <2>1. s \in [1 .. n -> S] BY DEF ToSet
  <2>. QED BY <1>1, <2>1 DEF Surjection, ToSet
<1>3. IsFiniteSet(1 .. n) BY <1>1, FS_Interval
<1> HIDE DEF S, n
<1>4. IsFiniteSet(S) BY <1>2, <1>3, FS_Surjection
<1>. QED BY <1>4 DEF S

\* Finitely many identifiers are named in a folder.
LEMMA UnlookedFinite ==
    ASSUME headers \in [UIDs -> Message]
    PROVE  IsFiniteSet(Unlooked)
<1> DEFINE F == [u \in UIDs |-> Follows(u)]
           R == {Follows(u) : u \in UIDs}
           A == UNION R
<1>1. \A u \in UIDs : IsFiniteSet(Follows(u))
  <2> SUFFICES ASSUME NEW u \in UIDs PROVE IsFiniteSet(Follows(u))
    OBVIOUS
  <2>1. Leads(u) \in Seq(IDs \cup {NoID}) /\ Follows(u) = ToSet(Leads(u)) \ {NoID} BY LinksOf
  <2>2. IsFiniteSet(ToSet(Leads(u))) BY <2>1, FiniteList
  <2>3. Follows(u) \in SUBSET ToSet(Leads(u)) BY <2>1
  <2>. QED BY <2>2, <2>3, FS_Subset
<1>2. F \in Surjection(UIDs, R) BY DEF Surjection
<1>3. \A T \in R : IsFiniteSet(T) BY <1>1
<1> HIDE DEF F, R
<1>4. IsFiniteSet(R) BY <1>2, FS_Surjection, ThreadAssumption
<1>5. IsFiniteSet(A) BY <1>3, <1>4, FS_UNION
<1>6. Unlooked \in SUBSET A BY DEF Unlooked, R
<1> HIDE DEF A
<1>. QED BY <1>5, <1>6, FS_Subset

\* Every step of a walk brings it closer to its end.
LEMMA StepAdvances ==
    ASSUME WalkInv, Next, ~(UNCHANGED vars)
    PROVE  Advances
<1>0. /\ TypeOK /\ IsFiniteSet(Unlooked)
  <2>1. TypeOK BY DEF WalkInv
  <2>. QED BY <2>1, UnlookedFinite DEF TypeOK
<1>1. ASSUME UNCHANGED <<headers, seenID>> PROVE Unlooked' = Unlooked
      BY <1>1, LinksKept DEF Unlooked
<1>2. ASSUME UNCHANGED <<headers, seenID>>, pc' # pc,
             \/ pc = "idle"
             \/ pc = "root" /\ pc' \in {"next"} \cup Returned
             \/ pc = "Message-ID" /\ pc' \in {"In-Reply-To"} \cup Returned
             \/ pc = "In-Reply-To" /\ pc' \in {"References"} \cup Returned
             \/ pc = "References" /\ pc' \in {"fetch", "next"} \cup Returned
             \/ pc = "fetch" /\ pc' \in {"next"} \cup Returned
             \/ pc = "next" /\ pc' \in Returned,
             pc' \in {"idle", "root", "next", "fetch"} \cup Keys \cup Returned
      PROVE  Advances
  <2>1. Stages[pc'] < Stages[pc] BY <1>2 DEF Stages, Keys, Returned
  <2>. QED BY <1>0, <1>1, <1>2, <2>1 DEF Advances
<1>3. CASE \E n \in Limits : Begin(n)
  <2>1. pc = "idle" /\ pc' \in {"root", "error"} /\ UNCHANGED <<headers, seenID>>
        BY <1>3 DEF Begin, walk
  <2>. QED BY <1>2, <2>1 DEF Returned
<1>4. CASE FetchRoot
  <2>1. pc = "root" /\ pc' \in {"next", "error"} /\ UNCHANGED <<headers, seenID>>
        BY <1>4 DEF FetchRoot
  <2>. QED BY <1>2, <2>1 DEF Returned
<1>5. CASE NextID
  <2>1. /\ pc = "next" /\ queue \in Seq(IDs \cup {NoID}) /\ queue # << >> /\ headers' = headers
        BY <1>0, <1>5 DEF NextID, TypeOK
  <2>2. CASE Head(queue) \in seenID \cup {NoID}
    <3>1. queue' = Tail(queue) /\ pc' = pc /\ seenID' = seenID BY <1>5, <2>2 DEF NextID
    <3>2. Len(queue') < Len(queue) BY <2>1, <3>1
    <3>. QED BY <1>0, <1>1, <2>1, <3>1, <3>2 DEF Advances
  <2>3. CASE Head(queue) \notin seenID \cup {NoID}
    <3>1. seenID' = seenID \cup {Head(queue)} BY <1>5, <2>3 DEF NextID
    <3>2. Head(queue) \in ToSet(queue) BY <2>1, HeadAndTail
    <3>3. PICK j \in DOMAIN result : Head(queue) \in Follows(result[j])
          BY <2>3, <3>2 DEF WalkInv, Led
    <3>4. result[j] \in UIDs BY <1>0, <3>3 DEF TypeOK
    <3>5. Head(queue) \in Unlooked BY <2>3, <3>3, <3>4 DEF Unlooked
    <3>6. \A u : Follows(u)' = Follows(u) BY <2>1, LinksKept
    <3>7. Unlooked' = Unlooked \ {Head(queue)} BY <3>1, <3>6 DEF Unlooked
    <3>. QED BY <1>0, <3>5, <3>7 DEF Advances
  <2>. QED BY <2>2, <2>3
<1>6. CASE SearchMore("Message-ID", "In-Reply-To") \/ SearchMore("In-Reply-To", "References")
  <2>1. /\ UNCHANGED <<headers, seenID>>
        /\ \/ pc = "Message-ID" /\ pc' = "In-Reply-To"
           \/ pc = "In-Reply-To" /\ pc' = "References"
        BY <1>6 DEF SearchMore
  <2>. QED BY <1>2, <2>1 DEF Keys
<1>7. CASE SearchLast
  <2>1. pc = "References" /\ pc' \in {"fetch", "next"} /\ UNCHANGED <<headers, seenID>>
        BY <1>7 DEF SearchLast
  <2>. QED BY <1>2, <2>1
<1>8. CASE Fetch
  <2>1. pc = "fetch" /\ pc' = "next" /\ UNCHANGED <<headers, seenID>>
        BY <1>8 DEF Fetch
  <2>. QED BY <1>2, <2>1
<1>9. CASE Finish \/ Fail
  <2>1. /\ UNCHANGED <<headers, seenID>>
        /\ \/ pc = "next" /\ pc' = "ok"
           \/ pc \in Keys \cup {"root", "fetch"} /\ pc' = "error"
        BY <1>9 DEF Finish, Fail, walk
  <2>. QED BY <1>2, <2>1 DEF Keys, Returned
<1>10. CASE \E u \in UIDs : Expunge(u)
  <2>1. PICK u \in UIDs : Expunge(u) BY <1>10
  <2>2. u \in present /\ present' = present \ {u} /\ UNCHANGED <<pc, walk>> BY <2>1 DEF Expunge
  <2>. QED BY <1>0, <2>2 DEF Advances
<1>. QED BY <1>3, <1>4, <1>5, <1>6, <1>7, <1>8, <1>9, <1>10 DEF Next, Walk, Quiescent
-----------------------------------------------------------------------------
(* The reference definition of a thread.                                   *)

\* The messages of m and those one link away.
Widened(m) == m \cup {v \in UIDs : \E w \in m : Follows(w) \cap Mentions(v) # {}}

\* A set that no link leads out of.
Closed(C) == \A w \in C, v \in UIDs : Follows(w) \cap Mentions(v) # {} => v \in C

\* What is n links away, from no link to as many as there are messages.
LEMMA WithinSteps ==
    ASSUME NEW u \in UIDs
    PROVE  /\ Cardinality(UIDs) \in Nat
           /\ Within(u) \in [0 .. Cardinality(UIDs) -> SUBSET UIDs]
           /\ Within(u)[0] = {u}
           /\ \A k \in 1 .. Cardinality(UIDs) : Within(u)[k] = Widened(Within(u)[k - 1])
<1> DEFINE N == Cardinality(UIDs)
           T == SUBSET UIDs
           step == [k \in 1 .. N |-> [m \in T |-> Widened(m)]]
           Near(near) == near = [n \in 0 .. N |->
                             IF n = 0 THEN {u}
                             ELSE LET m == near[n - 1]
                                  IN  m \cup {v \in UIDs : \E w \in m : Follows(w) \cap Mentions(v) # {}}]
<1>1. N \in Nat BY ThreadAssumption, FS_CardinalityType
<1> HIDE DEF N
<1>2. step \in [1 .. N -> [T -> T]] BY DEF Widened
<1>3. PICK h \in [0 .. N -> T] : h[0] = {u} /\ \A k \in 1 .. N : h[k] = Widened(h[k - 1])
  <2>1. {u} \in T OBVIOUS
  <2> HIDE DEF step, T
  <2>2. PICK h \in [0 .. N -> T] : Traces(h, N, {u}, step, h[N])
        BY <1>1, <1>2, <2>1, TraceExists
  <2>3. ASSUME NEW k \in 1 .. N PROVE h[k] = Widened(h[k - 1])
    <3>1. h[k] = step[k][h[k - 1]] BY <2>2 DEF Traces
    <3>2. k - 1 \in 0 .. N BY <1>1
    <3>3. h[k - 1] \in T BY <3>2
    <3>. QED BY <3>1, <3>3 DEF step
  <2>. QED BY <2>2, <2>3 DEF Traces
<1>4. \A k \in 0 .. N : k # 0 => k \in 1 .. N BY <1>1
<1>5. Near(h)
  <2>1. h = [n \in 0 .. N |-> h[n]] OBVIOUS
  <2>2. \A n \in 0 .. N : h[n] = IF n = 0 THEN {u} ELSE Widened(h[n - 1]) BY <1>3, <1>4
  <2>3. h = [n \in 0 .. N |-> IF n = 0 THEN {u} ELSE Widened(h[n - 1])] BY <2>1, <2>2
  <2>. QED BY Zenon, <2>3 DEF Widened
<1>6. Near(Within(u)) BY Zenon, <1>5 DEF Within, N
<1>7. \A n \in 0 .. N : Within(u)[n] = IF n = 0 THEN {u} ELSE Widened(Within(u)[n - 1])
  <2> DEFINE f == Within(u)
             F(n) == IF n = 0 THEN {u} ELSE Widened(f[n - 1])
  <2>1. f = [n \in 0 .. N |-> F(n)] BY Zenon, <1>6 DEF Widened
  <2> HIDE DEF f, F
  <2>2. \A n \in 0 .. N : f[n] = F(n) BY <2>1
  <2>. QED BY <2>2 DEF f, F
<1>8. DOMAIN Within(u) = 0 .. N BY Zenon, <1>6
<1> HIDE DEF Near
<1> DEFINE P == {k \in 0 .. N : Within(u)[k] \in T}
<1>9. \A k \in 0 .. N : k \in P
  <2>1. 0 \in P BY <1>1, <1>7
  <2>2. ASSUME NEW k \in 1 .. N, k - 1 \in P PROVE k \in P
    <3>1. k \in 0 .. N /\ k # 0 BY <1>1
    <3>2. Within(u)[k] = Widened(Within(u)[k - 1]) BY <1>7, <3>1
    <3>. QED BY <2>2, <3>1, <3>2 DEF Widened
  <2> HIDE DEF P
  <2>. QED BY <1>1, <2>1, <2>2, NumbersUpTo
<1>10. Within(u) \in [0 .. N -> T]
  <2> DEFINE f == Within(u)
  <2>1. f = [n \in 0 .. N |-> f[n]] BY Zenon, <1>6, <1>8 DEF Near
  <2>2. \A n \in 0 .. N : f[n] \in T BY <1>9
  <2> HIDE DEF f, T
  <2>3. f \in [0 .. N -> T] BY <2>1, <2>2
  <2>. QED BY <2>3 DEF f
<1>. QED BY <1>1, <1>4, <1>7, <1>10 DEF N

\* A thread is the least set with the message itself that no link leads out of: more
\* steps than there are messages add nothing.
LEMMA ThreadIsLeastClosed ==
    ASSUME NEW u \in UIDs
    PROVE  /\ Thread(u) \subseteq UIDs /\ u \in Thread(u) /\ Closed(Thread(u))
           /\ \A C \in SUBSET UIDs : u \in C /\ Closed(C) => Thread(u) \subseteq C
<1> DEFINE N == Cardinality(UIDs)
           near(k) == Within(u)[k]
<1>1. /\ N \in Nat /\ near(0) = {u}
      /\ \A k \in 0 .. N : near(k) \subseteq UIDs
      /\ \A k \in 1 .. N : near(k) = Widened(near(k - 1))
      BY WithinSteps
<1>2. IsFiniteSet(UIDs) BY ThreadAssumption
<1>3. Thread(u) = near(N) BY DEF Thread
<1> HIDE DEF near, N
<1>4. \A k \in 0 .. N : IsFiniteSet(near(k)) /\ Cardinality(near(k)) \in Nat /\ Cardinality(near(k)) <= N
  <2> SUFFICES ASSUME NEW k \in 0 .. N
               PROVE  IsFiniteSet(near(k)) /\ Cardinality(near(k)) \in Nat /\ Cardinality(near(k)) <= N
    OBVIOUS
  <2>1. near(k) \in SUBSET UIDs BY <1>1
  <2>. QED BY <1>2, <2>1, FS_Subset, FS_CardinalityType DEF N
<1>5. u \in Thread(u)
  <2> DEFINE P == {k \in 0 .. N : u \in near(k)}
  <2>1. 0 \in P BY <1>1
  <2>2. \A k \in 1 .. N : k - 1 \in P => k \in P BY <1>1 DEF Widened
  <2> HIDE DEF P
  <2>3. \A k \in 0 .. N : k \in P BY <1>1, <2>1, <2>2, NumbersUpTo
  <2>. QED BY <1>1, <1>3, <2>3 DEF P
<1>6. Closed(Thread(u))
  <2> DEFINE P == {k \in 0 .. N : Closed(near(k)) \/ Cardinality(near(k)) >= k + 1}
  <2>1. 0 \in P
    <3>1. Cardinality({u}) = 1 BY FS_Singleton
    <3>. QED BY <1>1, <3>1
  <2>2. ASSUME NEW k \in 1 .. N, k - 1 \in P PROVE k \in P
    <3>1. k - 1 \in 0 .. N /\ k \in 0 .. N BY <1>1
    <3>2. near(k) = Widened(near(k - 1)) /\ near(k - 1) \subseteq UIDs /\ near(k) \subseteq UIDs
          BY <1>1, <3>1
    <3>3. CASE Closed(near(k - 1))
      <4>1. near(k) = near(k - 1) BY <3>2, <3>3 DEF Widened, Closed
      <4>. QED BY <3>1, <3>3, <4>1
    <3>4. CASE ~Closed(near(k - 1))
      <4>1. Cardinality(near(k - 1)) >= (k - 1) + 1 BY <2>2, <3>4
      <4>2. near(k - 1) \subseteq near(k) /\ near(k) # near(k - 1)
            BY <3>2, <3>4 DEF Widened, Closed
      <4>3. IsFiniteSet(near(k)) BY <1>4, <3>1
      <4>4. /\ Cardinality(near(k - 1)) <= Cardinality(near(k))
            /\ Cardinality(near(k)) # Cardinality(near(k - 1))
            BY <4>2, <4>3, FS_Subset
      <4>5. Cardinality(near(k)) \in Nat /\ Cardinality(near(k - 1)) \in Nat BY <1>4, <3>1
      <4>6. Cardinality(near(k)) >= k + 1 BY <4>1, <4>4, <4>5
      <4>. QED BY <3>1, <4>6
    <3>. QED BY <3>3, <3>4
  <2>3. N \in P
    <3> HIDE DEF P
    <3>1. \A k \in 0 .. N : k \in P BY <1>1, <2>1, <2>2, NumbersUpTo
    <3>. QED BY <1>1, <3>1
  <2>4. Cardinality(near(N)) \in Nat /\ Cardinality(near(N)) <= N BY <1>1, <1>4
  <2>5. Closed(near(N)) BY <1>1, <2>3, <2>4
  <2>. QED BY <1>3, <2>5
<1>7. ASSUME NEW C \in SUBSET UIDs, u \in C, Closed(C) PROVE Thread(u) \subseteq C
  <2> DEFINE P == {k \in 0 .. N : near(k) \subseteq C}
  <2>1. 0 \in P BY <1>1, <1>7
  <2>2. ASSUME NEW k \in 1 .. N, k - 1 \in P PROVE k \in P
        BY <1>1, <1>7, <2>2 DEF Widened, Closed
  <2> HIDE DEF P
  <2>3. \A k \in 0 .. N : k \in P BY <1>1, <2>1, <2>2, NumbersUpTo
  <2>. QED BY <1>1, <1>3, <2>3 DEF P
<1>8. Thread(u) \subseteq UIDs BY <1>1, <1>3
<1>. QED BY <1>5, <1>6, <1>7, <1>8
-----------------------------------------------------------------------------
(* What the invariant says of the thread that is returned.                 *)

\* Discovery stays within any set of messages that the message asked for is in and that
\* no link leaves to the rest of the result.
LEMMA DiscoveryStays ==
    ASSUME TypeOK, Discovered, result # << >>, result[1] = start, NEW S, start \in S,
           \A w \in S, v \in ToSet(result) : Follows(w) \cap Mentions(v) # {} => v \in S
    PROVE  ToSet(result) \subseteq S
<1> DEFINE n == Len(result)
           P == {k \in 0 .. n : \A i \in 1 .. k : result[i] \in S}
<1>1. /\ result \in Seq(UIDs) /\ n \in Nat /\ DOMAIN result = 1 .. n
      /\ \A i \in 1 .. n : result[i] \in ToSet(result)
      BY DEF TypeOK, ToSet
<1> HIDE DEF n
<1>2. 0 \in P BY <1>1
<1>3. ASSUME NEW k \in 1 .. n, k - 1 \in P PROVE k \in P
  <2>1. k \in 0 .. n /\ \A i \in 1 .. k - 1 : result[i] \in S BY <1>3
  <2>2. result[k] \in S
    <3>1. CASE k = 1 BY <3>1
    <3>2. CASE k # 1
      <4>1. k \in 2 .. Len(result) BY <1>1, <3>2 DEF n
      <4>2. PICK j \in 1 .. k - 1 : Follows(result[j]) \cap Mentions(result[k]) # {}
            BY <4>1 DEF Discovered
      <4>3. result[j] \in S /\ result[k] \in ToSet(result) BY <1>1, <2>1, <4>2
      <4>. QED BY <4>2, <4>3
    <3>. QED BY <3>1, <3>2
  <2>3. \A i \in 1 .. k : i \in 1 .. k - 1 \/ i = k OBVIOUS
  <2>. QED BY <2>1, <2>2, <2>3
<1>4. n \in P
  <2> HIDE DEF P
  <2>1. \A k \in 0 .. n : k \in P BY <1>1, <1>2, <1>3, NumbersUpTo
  <2>. QED BY <1>1, <2>1
<1>. QED BY <1>1, <1>4 DEF ToSet

\* What the invariant says of a walk that returns a thread.
LEMMA Answers ==
    ASSUME WalkInv, pc = "ok"
    PROVE  /\ TypeOK /\ Discovered /\ result # << >> /\ result[1] = start /\ fetching = << >>
           /\ start \in ToSet(result) /\ ToSet(result) \in SUBSET UIDs
           /\ IsInjective(returned) /\ ToSet(returned) = ToSet(result)
           /\ Len(returned) = Len(result)
           /\ Len(result) \in Nat /\ limit \in Nat /\ Len(result) <= limit
<1>1. /\ TypeOK /\ Discovered /\ result # << >> /\ result[1] = start /\ fetching = << >>
      /\ IsInjective(returned) /\ ToSet(returned) = ToSet(result) /\ IsInjective(result)
      /\ Len(result) + Len(fetching) <= limit
      BY DEF WalkInv, Places, Taken, Led, Started, Answered
<1>2. result \in Seq(UIDs) /\ returned \in Seq(UIDs) /\ limit \in Nat BY <1>1 DEF TypeOK
<1>3. Len(returned) = Len(result) BY <1>1, <1>2, CountedOnce
<1>4. start \in ToSet(result) /\ ToSet(result) \in SUBSET UIDs
  <2>1. 1 \in DOMAIN result BY <1>1, <1>2
  <2>. QED BY <1>1, <1>2, <2>1 DEF ToSet
<1>5. Len(result) \in Nat /\ Len(result) <= limit BY <1>1, <1>2
<1>. QED BY <1>1, <1>2, <1>3, <1>4, <1>5

\* The types of the variables hold of every walk: internal/imap/backend.go, GetThread.
THEOREM ThreadTypes == Spec => []TypeOK
<1>1. WalkInv => TypeOK BY DEF WalkInv
<1>. QED BY <1>1, WalkInvAlways, PTL

\* A thread that is returned is never longer than the limit, has the message asked for
\* and no message twice, in whatever order it is returned: newUIDs, the limit and the
\* last sort in GetThread.
THEOREM ThreadsBounded == Spec => []ThreadBounded
<1>1. ASSUME WalkInv PROVE ThreadBounded
  <2> SUFFICES ASSUME pc = "ok"
               PROVE  Len(returned) <= limit /\ start \in ToSet(returned) /\ IsInjective(returned)
    BY DEF ThreadBounded
  <2>. QED BY <1>1, Answers
<1>. QED BY <1>1, WalkInvAlways, PTL

\* No part of a thread that is returned is cut off from the message asked for: GetThread
\* takes only what an identifier of a message it has leads to.
THEOREM ThreadsConnected == Spec => []ThreadConnected
<1>1. ASSUME WalkInv PROVE ThreadConnected
  <2> SUFFICES ASSUME pc = "ok", NEW S \in SUBSET ToSet(returned), start \in S,
                      \A w \in S, v \in ToSet(returned) \ S : Follows(w) \cap Mentions(v) = {}
               PROVE  S = ToSet(returned)
    BY DEF ThreadConnected
  <2>1. /\ TypeOK /\ Discovered /\ result # << >> /\ result[1] = start
        /\ ToSet(returned) = ToSet(result)
        BY <1>1, Answers
  <2>2. \A w \in S, v \in ToSet(result) : Follows(w) \cap Mentions(v) # {} => v \in S
        BY <2>1
  <2>3. ToSet(result) \subseteq S BY <2>1, <2>2, DiscoveryStays
  <2>. QED BY <2>1, <2>3
<1>. QED BY <1>1, WalkInvAlways, PTL

\* A thread shorter than the limit is the whole thread unless something was removed
\* meanwhile, whatever the messages and the cycles of replies between them.
THEOREM ThreadsComplete == Spec => []ThreadComplete
<1>1. ASSUME WalkInv PROVE ThreadComplete
  <2> SUFFICES ASSUME pc = "ok", Len(returned) < limit, present = UIDs
               PROVE  ToSet(returned) = Thread(start)
    BY DEF ThreadComplete
  <2>1. /\ TypeOK /\ Discovered /\ result # << >> /\ result[1] = start /\ fetching = << >>
        /\ start \in ToSet(result) /\ ToSet(result) \in SUBSET UIDs
        /\ ToSet(returned) = ToSet(result) /\ Len(returned) = Len(result)
        /\ Len(result) \in Nat /\ limit \in Nat
        BY <1>1, Answers
  <2>2. start \in UIDs BY <2>1
  <2>3. ToSet(fetching) = {} /\ Len(fetching) = 0 BY <2>1 DEF ToSet
  <2>4. /\ seenUID = ToSet(result)
        /\ \A k \in DOMAIN result : Follows(result[k]) \subseteq seenID \cup ToSet(queue)
        /\ \A id \in seenID, v \in UIDs : id \in Mentions(v) => v \in seenUID
        /\ queue = << >>
        BY <1>1, <2>1, <2>3 DEF WalkInv, Complete, Keys
  <2>5. ToSet(queue) = {} BY <2>4 DEF ToSet
  <2>6. Closed(ToSet(result))
    <3> SUFFICES ASSUME NEW w \in ToSet(result), NEW v \in UIDs, Follows(w) \cap Mentions(v) # {}
                 PROVE  v \in ToSet(result)
      BY DEF Closed
    <3>1. PICK k \in DOMAIN result : w = result[k] BY DEF ToSet
    <3>2. PICK id \in Follows(w) : id \in Mentions(v) OBVIOUS
    <3>3. id \in seenID BY <2>4, <2>5, <3>1, <3>2
    <3>. QED BY <2>4, <3>2, <3>3
  <2>7. Thread(start) \subseteq ToSet(result) BY <2>1, <2>2, <2>6, ThreadIsLeastClosed
  <2>8. ToSet(result) \subseteq Thread(start)
    <3>1. start \in Thread(start) /\ Closed(Thread(start)) BY <2>2, ThreadIsLeastClosed
    <3>2. \A w \in Thread(start), v \in ToSet(result) :
              Follows(w) \cap Mentions(v) # {} => v \in Thread(start)
          BY <2>1, <3>1 DEF Closed
    <3>. QED BY <2>1, <3>1, <3>2, DiscoveryStays
  <2>. QED BY <2>1, <2>7, <2>8
<1>. QED BY <1>1, WalkInvAlways, PTL

\* A walk takes finitely many steps, over any cycle of replies and whatever the searches
\* find: each step of GetThread looks up one of finitely many identifiers for the first
\* time, or comes closer to the next look-up. What keeps it from ending is a command that
\* neither answers nor fails.
THEOREM WalkAdvances == Spec => [][Advances]_vars
<1>1. WalkInv /\ [Next]_vars => [Advances]_vars BY StepAdvances
<1>. QED BY <1>1, WalkInvAlways, PTL DEF Spec
=============================================================================
