---------------------------- MODULE WorkmailProofs ----------------------------
(***************************************************************************)
(* Proofs about the process, for every set of worlds: any commands,        *)
(* environments, folders and calls.  Types, no connection left, the newest *)
(* messages found, bodies and attachments as they were sent, settings that *)
(* suffice to send.                                                        *)
(***************************************************************************)
EXTENDS Workmail, ListFacts

-----------------------------------------------------------------------------
(* A session: handler, watcher and connection.                             *)

\* Before the first operation there is no connection, no watcher and no cleanup under way.
LEMMA SessionStarts ==
    ASSUME SessionInit
    PROVE  SessionInv
BY CommandAssumption
   DEF SessionInit, SessionInv, SessionTypeOK, NoConnectionLeft, Idle, InCleanup

\* Every step of handler, watcher or server keeps the once, the channel and the connection
\* in agreement, and nobody returns from the cleanup while the connection is open.
LEMMA SessionStep ==
    ASSUME SessionInv, [SessionNext]_sessionVars
    PROVE  SessionInv'
<1>. USE CommandAssumption
         DEF SessionInv, SessionTypeOK, NoConnectionLeft, Idle, InCleanup
<1>1. CASE EndSession
      BY <1>1 DEF EndSession
<1>2. CASE Begin
      BY <1>2 DEF Begin
<1>3. CASE Dialled
      BY <1>3 DEF Dialled
<1>4. CASE DialFails
      BY <1>4 DEF DialFails
<1>5. CASE CommandFails
      BY <1>5 DEF CommandFails
<1>6. CASE CtxEnds
      BY <1>6 DEF CtxEnds
<1>7. CASE \E who \in {"handler", "watcher"} : EnterOnce(who) \/ CloseConn(who)
  <2>1. PICK who \in {"handler", "watcher"} : EnterOnce(who) \/ CloseConn(who)
        BY <1>7
  <2>2. CASE EnterOnce(who)
        BY <2>1, <2>2 DEF EnterOnce
  <2>3. CASE CloseConn(who)
        BY <2>1, <2>3 DEF CloseConn
  <2>. QED BY <2>1, <2>2, <2>3
<1>8. CASE HandlerReturns
      BY <1>8 DEF HandlerReturns, OncePassed
<1>9. CASE Watching
      BY <1>9 DEF Watching, WatcherWakes, WatcherDone, WatcherEnds, OncePassed
<1>10. CASE \E next \in Commands \cup {"cleanup"} : Reply(next)
      BY <1>10 DEF Reply
<1>11. CASE UNCHANGED sessionVars
      BY <1>11 DEF sessionVars
<1>. QED
  BY <1>1, <1>2, <1>3, <1>4, <1>5, <1>6, <1>7, <1>8, <1>9, <1>10, <1>11
     DEF SessionNext, Closing
-----------------------------------------------------------------------------
(* The parser.                                                             *)

\* The bytes of a message.
Byte == Nat \X Nat

\* The content of a part and the separator are bytes.
LEMMA ContentBytes ==
    ASSUME NEW i \in Nat, NEW part \in Part
    PROVE  /\ Content(i, part) \in Seq(Byte) /\ Len(Content(i, part)) = part.len /\ part.len \in Nat
           /\ Separator \in Seq(Byte) /\ Len(Separator) = 2
<1>1. part.len \in Nat BY DEF Part
<1> DEFINE n == part.len
           c == Content(i, part)
<1>2. c = [k \in 1 .. n |-> <<i, k>>] BY DEF Content
<1> HIDE DEF c, n
<1>3. \A k \in 1 .. n : <<i, k>> \in Byte BY <1>1 DEF Byte, n
<1>4. c \in Seq(Byte) /\ Len(c) = n BY <1>1, <1>2, <1>3 DEF n
<1>5. Separator \in Seq(Byte) /\ Len(Separator) = 2
  <2>1. <<0, 1>> \in Byte /\ <<0, 2>> \in Byte BY DEF Byte
  <2>2. \A x, y \in Byte : <<x, y>> \in Seq(Byte) /\ Len(<<x, y>>) = 2 OBVIOUS
  <2>. QED BY <2>1, <2>2 DEF Separator
<1>. QED BY <1>1, <1>4, <1>5 DEF c, n

\* The first n of a list, or all of it.
LEMMA Clipped ==
    ASSUME NEW T, NEW s \in Seq(T), NEW n \in Nat
    PROVE  /\ Clip(s, n) \in Seq(T)
           /\ Len(Clip(s, n)) = IF n < Len(s) THEN n ELSE Len(s)
           /\ \A k \in 1 .. Len(Clip(s, n)) : Clip(s, n)[k] = s[k]
           /\ Len(s) <= n => Clip(s, n) = s
<1> DEFINE m == IF n < Len(s) THEN n ELSE Len(s)
           c == Clip(s, n)
<1>1. m \in 0 .. Len(s) /\ Len(s) \in Nat OBVIOUS
<1>2. c = SubSeq(s, 1, m) BY DEF Clip
<1> HIDE DEF m, c
<1>3. c \in Seq(T) /\ Len(c) = m /\ \A k \in 1 .. m : c[k] = s[k] BY <1>1, <1>2
<1>4. m = Len(s) => c = s BY <1>1, <1>3, SameList
<1>. QED BY <1>1, <1>3, <1>4 DEF c, m

\* The first n of two lists in a row.
ClipsBoth(s, t, n) ==
    /\ Len(s) <= n => n - Len(s) \in Nat /\ Clip(s \o t, n) = s \o Clip(t, n - Len(s))
    /\ n <= Len(s) => Clip(s \o t, n) = Clip(s, n)

LEMMA ClippedBoth ==
    ASSUME NEW T, NEW s \in Seq(T), NEW t \in Seq(T), NEW n \in Nat
    PROVE  ClipsBoth(s, t, n)
<1> DEFINE st == s \o t
           c == Clip(st, n)
<1>1. /\ st \in Seq(T) /\ Len(s) \in Nat /\ Len(t) \in Nat /\ Len(st) = Len(s) + Len(t)
      /\ \A k \in 1 .. Len(s) + Len(t) : st[k] = IF k <= Len(s) THEN s[k] ELSE t[k - Len(s)]
      BY BothLists
<1> HIDE DEF st
<1>2. /\ c \in Seq(T) /\ Len(c) = IF n < Len(st) THEN n ELSE Len(st)
      /\ \A k \in 1 .. Len(c) : c[k] = st[k]
      BY <1>1, Clipped
<1> HIDE DEF c
<1>3. ASSUME Len(s) <= n PROVE n - Len(s) \in Nat /\ c = s \o Clip(t, n - Len(s))
  <2> DEFINE r == n - Len(s)
             d == Clip(t, r)
             sd == s \o d
  <2>1. r \in Nat BY <1>1, <1>3
  <2> HIDE DEF r
  <2>2. /\ d \in Seq(T) /\ Len(d) = IF r < Len(t) THEN r ELSE Len(t)
        /\ \A k \in 1 .. Len(d) : d[k] = t[k]
        BY <2>1, Clipped
  <2> HIDE DEF d
  <2>3. /\ sd \in Seq(T) /\ Len(d) \in Nat /\ Len(sd) = Len(s) + Len(d)
        /\ \A k \in 1 .. Len(s) + Len(d) : sd[k] = IF k <= Len(s) THEN s[k] ELSE d[k - Len(s)]
        BY <2>2, BothLists
  <2> HIDE DEF sd
  <2>4. Len(c) = Len(sd) BY <1>1, <1>2, <1>3, <2>2, <2>3 DEF r
  <2>5. ASSUME NEW k \in 1 .. Len(c) PROVE c[k] = sd[k]
    <3>1. k \in 1 .. Len(s) + Len(t) /\ k \in 1 .. Len(s) + Len(d) BY <1>1, <1>2, <2>3, <2>4
    <3>2. k <= Len(s) \/ k - Len(s) \in 1 .. Len(d) BY <1>1, <3>1, <2>3
    <3>. QED BY <1>1, <1>2, <2>2, <2>3, <3>1, <3>2
  <2>6. c = sd BY <1>2, <2>3, <2>4, <2>5, SameList
  <2>. QED BY <2>1, <2>6 DEF r, d, sd
<1>4. ASSUME n <= Len(s) PROVE c = Clip(s, n)
  <2> DEFINE d == Clip(s, n)
  <2>1. /\ d \in Seq(T) /\ Len(d) = IF n < Len(s) THEN n ELSE Len(s)
        /\ \A k \in 1 .. Len(d) : d[k] = s[k]
        BY Clipped
  <2> HIDE DEF d
  <2>2. Len(c) = Len(d) BY <1>1, <1>2, <1>4, <2>1
  <2>3. ASSUME NEW k \in 1 .. Len(c) PROVE c[k] = d[k]
    <3>1. k \in 1 .. Len(s) + Len(t) /\ k <= Len(s) BY <1>1, <1>2, <1>4, <2>1, <2>2
    <3>. QED BY <1>1, <1>2, <2>1, <2>2, <3>1
  <2>4. c = d BY <1>2, <2>1, <2>2, <2>3, SameList
  <2>. QED BY <2>4 DEF d
<1>. QED BY <1>3, <1>4 DEF c, st, ClipsBoth

\* The first n of the first m.
LEMMA ClippedTwice ==
    ASSUME NEW T, NEW s \in Seq(T), NEW m \in Nat, NEW n \in Nat, n <= m
    PROVE  Clip(Clip(s, m), n) = Clip(s, n)
<1> DEFINE a == Clip(s, m)
           b == Clip(a, n)
           c == Clip(s, n)
<1>1. /\ a \in Seq(T) /\ Len(a) = IF m < Len(s) THEN m ELSE Len(s)
      /\ \A k \in 1 .. Len(a) : a[k] = s[k]
      BY Clipped
<1> HIDE DEF a
<1>2. /\ b \in Seq(T) /\ Len(b) = IF n < Len(a) THEN n ELSE Len(a)
      /\ \A k \in 1 .. Len(b) : b[k] = a[k]
      BY <1>1, Clipped
<1>3. /\ c \in Seq(T) /\ Len(c) = IF n < Len(s) THEN n ELSE Len(s)
      /\ \A k \in 1 .. Len(c) : c[k] = s[k]
      BY Clipped
<1>4. Len(s) \in Nat OBVIOUS
<1> HIDE DEF b, c
<1>5. Len(b) = Len(c) BY <1>1, <1>2, <1>3, <1>4
<1>6. \A k \in 1 .. Len(b) : b[k] = c[k]
  <2>1. \A k \in 1 .. Len(b) : k \in 1 .. Len(a) BY <1>1, <1>2, <1>4
  <2>. QED BY <1>1, <1>2, <1>3, <1>5, <2>1
<1>7. b = c BY <1>2, <1>3, <1>5, <1>6, SameList
<1>. QED BY <1>7 DEF a, b, c

\* s with the body c after it, and a separator between them.
Longer(s, c) == IF c = << >> THEN s ELSE IF s = << >> THEN c ELSE s \o (Separator \o c)

\* A body that keeps the start of what was sent keeps it when the next one is appended, and
\* says so when something is cut off.
LEMMA BodyAppended ==
    ASSUME NEW s \in Seq(Byte), NEW c \in Seq(Byte), NEW limit \in Nat
    PROVE  LET added == AppendBounded(Clip(s, limit), Clip(c, limit), limit)
           IN  /\ Longer(s, c) \in Seq(Byte)
               /\ added.body = Clip(Longer(s, c), limit)
               /\ Len(Longer(s, c)) > limit => Len(s) > limit \/ Len(c) > limit \/ added.cut
<1> DEFINE b == Clip(s, limit)
           d == Clip(c, limit)
           x == IF b # << >> /\ d # << >> THEN Separator \o d ELSE d
           y == IF s # << >> THEN Separator \o c ELSE c
           room == IF Len(b) < limit THEN limit - Len(b) ELSE 0
           r == AppendBounded(b, d, limit)
<1>1. r = [body |-> b \o Clip(x, room), cut |-> Len(x) > room] BY DEF AppendBounded
<1>2. Separator \in Seq(Byte) /\ Len(Separator) = 2
  <2>1. <<0, 1>> \in Byte /\ <<0, 2>> \in Byte BY DEF Byte
  <2>2. \A u, v \in Byte : <<u, v>> \in Seq(Byte) /\ Len(<<u, v>>) = 2 OBVIOUS
  <2>. QED BY <2>1, <2>2 DEF Separator
<1>3. /\ b \in Seq(Byte) /\ Len(b) = (IF limit < Len(s) THEN limit ELSE Len(s))
      /\ Len(s) <= limit => b = s
      BY Clipped
<1>4. /\ d \in Seq(Byte) /\ Len(d) = (IF limit < Len(c) THEN limit ELSE Len(c))
      /\ Len(c) <= limit => d = c
      BY Clipped
<1>5. Len(s) \in Nat /\ Len(c) \in Nat /\ (s = << >> <=> Len(s) = 0) /\ (c = << >> <=> Len(c) = 0)
      OBVIOUS
<1>6. (b = << >> <=> Len(b) = 0) /\ (d = << >> <=> Len(d) = 0)
  <2> HIDE DEF b, d
  <2>. QED BY <1>3, <1>4
<1> HIDE DEF r, b, d
<1>16. r.body = b \o Clip(x, room) /\ (Len(x) > room => r.cut) BY <1>1
<1>17. /\ Separator \o c \in Seq(Byte) /\ Len(Separator \o c) = 2 + Len(c)
       /\ Separator \o d \in Seq(Byte) /\ Len(Separator \o d) = 2 + Len(d)
  <2>1. \A t \in Seq(Byte) : Separator \o t \in Seq(Byte) /\ Len(Separator \o t) = Len(Separator) + Len(t)
        BY <1>2, BothLists
  <2>. QED BY <1>2, <1>4, <2>1
<1>7. y \in Seq(Byte) /\ s \o y \in Seq(Byte) /\ Len(y) = (IF s # << >> THEN Len(c) + 2 ELSE Len(c))
      /\ Len(s \o y) = Len(s) + Len(y)
  <2>1. y \in Seq(Byte) /\ Len(y) = (IF s # << >> THEN Len(c) + 2 ELSE Len(c)) BY <1>5, <1>17
  <2> HIDE DEF y
  <2>. QED BY <2>1, BothLists
<1>8. x \in Seq(Byte) /\ Len(x) = (IF b # << >> /\ d # << >> THEN Len(d) + 2 ELSE Len(d))
      BY <1>4, <1>17
<1>9. Longer(s, c) = IF c = << >> THEN s ELSE s \o y
  <2>1. \A t \in Seq(Byte) : << >> \o t = t OBVIOUS
  <2>. QED BY <2>1 DEF Longer
<1>10. Longer(s, c) \in Seq(Byte) BY <1>7, <1>9
<1> HIDE DEF x, y
<1>11. \A t \in Seq(Byte) : t \o Clip(<< >>, 0) = t /\ t \o << >> = t
  <2>1. \A t \in Seq(Byte) : t \o << >> = t OBVIOUS
  <2>2. << >> \in Seq(Byte) /\ Len(<< >>) = 0 OBVIOUS
  <2>3. Clip(<< >>, 0) = << >> BY <2>2, Clipped
  <2>. QED BY <2>1, <2>3
<1>12. CASE c = << >>
  <2>1. d = << >> /\ x = << >> BY <1>4, <1>5, <1>6, <1>12 DEF x
  <2>2. Clip(x, room) = << >> BY <1>3, <1>5, <2>1, Clipped
  <2>3. r.body = b BY <1>1, <1>3, <1>11, <2>2
  <2>. QED BY <1>9, <1>10, <1>12, <2>3 DEF r, b, d
<1>13. CASE c # << >> /\ limit <= Len(s)
  <2>1. room = 0 /\ Len(b) = limit BY <1>3, <1>5, <1>13
  <2>2. Clip(x, 0) = << >>
    <3>1. Clip(x, 0) \in Seq(Byte) /\ Len(Clip(x, 0)) = 0 BY <1>8, Clipped
    <3>. QED BY <3>1
  <2>3. r.body = b BY <1>1, <1>3, <1>11, <2>1, <2>2
  <2>4. Clip(s \o y, limit) = Clip(s, limit) BY <1>7, <1>13, ClippedBoth DEF ClipsBoth
  <2>5. Len(s \o y) > limit => Len(s) > limit \/ Len(c) > limit \/ r.cut
    <3> SUFFICES ASSUME Len(s) = limit, limit < Len(s \o y) PROVE Len(c) > limit \/ r.cut
      BY <1>5, <1>13
    <3>1. CASE limit = 0
      <4>1. s = << >> /\ Len(c) > 0 BY <1>5, <1>13, <3>1
      <4>2. Len(c) > limit \/ Len(x) > room BY <1>4, <1>5, <1>7, <1>8, <1>13, <2>1, <3>1, <4>1
      <4>. QED BY <1>16, <4>2
    <3>2. CASE limit # 0
      <4>1. Len(d) > 0 BY <1>4, <1>5, <1>13, <3>2
      <4>2. Len(x) > room BY <1>4, <1>8, <2>1, <4>1
      <4>. QED BY <1>16, <4>2
    <3>. QED BY <3>1, <3>2
  <2>. QED BY <1>9, <1>10, <1>13, <2>3, <2>4, <2>5 DEF r, b, d
<1>14. CASE c # << >> /\ Len(s) < limit
  <2>1. b = s /\ room = limit - Len(s) /\ room \in Nat /\ limit > 0 /\ room <= limit
        BY <1>3, <1>5, <1>14
  <2>2. d # << >> BY <1>4, <1>5, <1>6, <1>14, <2>1
  <2> DEFINE m == room
  <2>3. m \in Nat /\ m <= limit BY <2>1
  <2>4. Clip(x, m) = Clip(y, m)
    <3> HIDE DEF m
    <3>1. Clip(d, m) = Clip(c, m) BY <2>3, ClippedTwice DEF d
    <3>2. CASE s = << >>
      <4>1. x = d /\ y = c BY <2>1, <3>2 DEF x, y
      <4>. QED BY <3>1, <4>1
    <3>3. CASE s # << >>
      <4>1. x = Separator \o d /\ y = Separator \o c BY <2>1, <2>2, <3>3 DEF x, y
      <4>2. CASE m <= 2
        <5>1. \A t \in Seq(Byte) : Clip(Separator \o t, m) = Clip(Separator, m)
          <6>1. \A t \in Seq(Byte) : ClipsBoth(Separator, t, m) BY <1>2, <2>3, ClippedBoth
          <6>2. m <= Len(Separator) BY <1>2, <4>2
          <6>. QED BY Zenon, <6>1, <6>2 DEF ClipsBoth
        <5>. QED BY <1>4, <4>1, <5>1
      <4>3. CASE 2 <= m
        <5>1. \A t \in Seq(Byte) : Clip(Separator \o t, m) = Separator \o Clip(t, m - 2)
          <6> SUFFICES ASSUME NEW t \in Seq(Byte)
                       PROVE  Clip(Separator \o t, m) = Separator \o Clip(t, m - 2)
            OBVIOUS
          <6>1. Len(Separator) <= m BY <1>2, <4>3
          <6>2. Clip(Separator \o t, m) = Separator \o Clip(t, m - Len(Separator))
            <7>1. ClipsBoth(Separator, t, m) BY <1>2, <2>3, ClippedBoth
            <7>. QED BY Zenon, <6>1, <7>1 DEF ClipsBoth
          <6>. QED BY <1>2, <6>2
        <5>2. m - 2 \in Nat /\ m - 2 <= limit BY <2>3, <4>3
        <5>3. Clip(d, m - 2) = Clip(c, m - 2) BY <5>2, ClippedTwice DEF d
        <5>. QED BY <1>4, <4>1, <5>1, <5>3
      <4>. QED BY <2>3, <4>2, <4>3
    <3>. QED BY <3>2, <3>3
  <2>5. Clip(s \o y, limit) = s \o Clip(y, m)
    <3>1. Len(s) <= limit BY <1>5, <1>14
    <3>2. ClipsBoth(s, y, limit) BY <1>7, ClippedBoth
    <3>3. Clip(s \o y, limit) = s \o Clip(y, limit - Len(s)) BY Zenon, <3>1, <3>2 DEF ClipsBoth
    <3>. QED BY <2>1, <3>3
  <2>6. r.body = Clip(s \o y, limit) BY <1>1, <2>1, <2>4, <2>5
  <2>7. Len(s \o y) > limit => Len(c) > limit \/ r.cut
    <3>1. Len(s \o y) > limit /\ ~(Len(c) > limit) => Len(x) > room
          BY <1>4, <1>5, <1>7, <1>8, <2>1, <2>2
    <3>. QED BY <1>16, <3>1
  <2>. QED BY <1>9, <1>10, <1>14, <2>6, <2>7 DEF r, b, d
<1>15. limit <= Len(s) \/ Len(s) < limit BY <1>5
<1>. QED BY <1>12, <1>13, <1>14, <1>15

\* The values that Picked passes through.
Picks(h, n, parts, chosen) ==
    /\ h[0] = << >> /\ h[n] = Picked(parts, chosen)
    /\ \A k \in 1 .. n : h[k] = IF k \in chosen THEN Append(h[k - 1], k) ELSE h[k - 1]

\* The indices chosen, from the first part to the last.
LEMMA PickedTrace ==
    ASSUME NEW n \in Nat, NEW parts \in [1 .. n -> Part], NEW chosen
    PROVE  \E h \in [0 .. n -> Seq(1 .. n)] : Picks(h, n, parts, chosen)
<1> DEFINE T == Seq(1 .. n)
           Pick(out, i) == IF i \in chosen THEN Append(out, i) ELSE out
           step == [k \in 1 .. n |-> [out \in T |-> Pick(out, k)]]
           indices == [i \in DOMAIN parts |-> i]
           Fold(f) == f = [x \in SUBSET (DOMAIN indices) |->
                              IF x = {} THEN << >> ELSE Pick(f[x \ {Max(x)}], indices[Max(x)])]
           iter == CHOOSE f : Fold(f)
<1>1. DOMAIN indices = 1 .. n /\ \A i \in 1 .. n : indices[i] = i OBVIOUS
<1>2. ASSUME NEW out \in T, NEW k \in 1 .. n PROVE Pick(out, k) \in T
  <2>1. Append(out, k) \in T
    <3> DEFINE R == 1 .. n
    <3>1. out \in Seq(R) /\ k \in R OBVIOUS
    <3> HIDE DEF R
    <3>2. Append(out, k) \in Seq(R) BY <3>1
    <3>. QED BY <3>2 DEF R
  <2> HIDE DEF T
  <2>. QED BY <2>1
<1> HIDE DEF Pick
<1>3. step \in [1 .. n -> [T -> T]] BY <1>2
<1>4. << >> \in T OBVIOUS
<1>5. \E f : Fold(f)
  <2>1. PICK f \in [SUBSET (1 .. n) -> T] : FoldsBy(f, n, << >>, step)
    <3> HIDE DEF step, T, Fold
    <3>. QED BY <1>3, <1>4, FoldExists
  <2>2. ASSUME NEW x \in SUBSET (1 .. n), x # {}
        PROVE  step[Max(x)][f[x \ {Max(x)}]] = Pick(f[x \ {Max(x)}], indices[Max(x)])
    <3>1. Max(x) \in 1 .. n BY <2>2, MaxOfSome
    <3>2. f[x \ {Max(x)}] \in T OBVIOUS
    <3>. QED BY <3>1, <3>2
  <2> HIDE DEF step, indices
  <2>3. Fold(f) BY Zenon, <1>1, <2>1, <2>2 DEF FoldsBy
  <2>. QED BY <2>3
<1>6. Fold(iter) BY Zenon, <1>5
<1>7. Picked(parts, chosen) = iter[1 .. n]
  <2>1. Picked(parts, chosen) = iter[DOMAIN indices]
        BY Zenon DEF Picked, FoldLeftDomain, FoldLeft, MapThenFoldSet, Pick
  <2>. QED BY Zenon, <1>1, <2>1
<1> HIDE DEF iter, indices
<1>8. iter[{}] = << >> BY Zenon, <1>1, <1>6
<1>9. IsFold(iter, T, n, << >>, step)
  <2>1. \A x \in SUBSET (1 .. n) :
             x # {} /\ iter[x \ {Max(x)}] \in T => iter[x] = step[Max(x)][iter[x \ {Max(x)}]]
    <3> SUFFICES ASSUME NEW x \in SUBSET (1 .. n), x # {}, iter[x \ {Max(x)}] \in T
                 PROVE  iter[x] = step[Max(x)][iter[x \ {Max(x)}]]
      BY Zenon
    <3>1. Max(x) \in 1 .. n BY MaxOfSome
    <3>2. iter[x] = Pick(iter[x \ {Max(x)}], indices[Max(x)]) BY Zenon, <1>1, <1>6
    <3>3. indices[Max(x)] = Max(x) BY <1>1, <3>1
    <3>. QED BY <3>1, <3>2, <3>3
  <2>. QED BY Zenon, <1>8, <2>1 DEF IsFold
<1>10. PICK h \in [0 .. n -> T] : Traces(h, n, << >>, step, iter[1 .. n])
  <2> HIDE DEF step, T, Fold
  <2>. QED BY <1>3, <1>4, <1>9, FoldTrace
<1>11. ASSUME NEW k \in 1 .. n PROVE h[k] = Pick(h[k - 1], k)
  <2>1. k - 1 \in 0 .. n /\ h[k - 1] \in T OBVIOUS
  <2>. QED BY <1>10, <2>1 DEF Traces
<1> HIDE DEF step
<1>. QED BY Zenon, <1>7, <1>10, <1>11 DEF Traces, Picks, Pick

\* An attachment as ParseRaw lists it, and what it makes of a message.
ListedFile == [index : Nat, size : Nat, tooLarge : BOOLEAN, data : Seq(Byte)]
Parsed == [text : Seq(Byte), html : Seq(Byte), truncated : BOOLEAN, attachments : Seq(ListedFile)]

BodyTypes == {"text/plain", "text/html"}
BodyOf(out, type) == IF type = "text/plain" THEN out.text ELSE out.html

\* A body that is appended stays a list of bytes.
LEMMA AppendedBytes ==
    ASSUME NEW dst \in Seq(Byte), NEW src \in Seq(Byte), NEW limit \in Nat
    PROVE  AppendBounded(dst, src, limit).body \in Seq(Byte)
<1> DEFINE added == IF dst # << >> /\ src # << >> THEN Separator \o src ELSE src
           room == IF Len(dst) < limit THEN limit - Len(dst) ELSE 0
<1>1. AppendBounded(dst, src, limit).body = dst \o Clip(added, room) BY DEF AppendBounded
<1>2. Separator \in Seq(Byte)
  <2>1. <<0, 1>> \in Byte /\ <<0, 2>> \in Byte BY DEF Byte
  <2>2. \A u, v \in Byte : <<u, v>> \in Seq(Byte) OBVIOUS
  <2>. QED BY <2>1, <2>2 DEF Separator
<1>3. added \in Seq(Byte) /\ room \in Nat BY <1>2
<1> HIDE DEF added, room
<1>4. Clip(added, room) \in Seq(Byte) BY <1>3, Clipped
<1>. QED BY <1>1, <1>4

\* What an inline part adds, and cuts off.
GrowsBody(next, out, i, part, limit) ==
    /\ next.attachments = out.attachments
    /\ out.truncated => next.truncated
    /\ \A type \in BodyTypes :
           IF part.type = type
           THEN LET added == AppendBounded(BodyOf(out, type), Clip(Content(i, part), limit), limit)
                IN  BodyOf(next, type) = added.body
                    /\ (Len(Content(i, part)) > limit \/ added.cut => next.truncated)
           ELSE BodyOf(next, type) = BodyOf(out, type)

LEMMA BodyAdded ==
    ASSUME NEW out \in Parsed, NEW i \in Nat, NEW part \in Part, NEW limit \in Nat
    PROVE  /\ AddBody(out, i, part, limit) \in Parsed
           /\ GrowsBody(AddBody(out, i, part, limit), out, i, part, limit)
<1> DEFINE c == Content(i, part)
           d == Clip(c, limit)
           text == AppendBounded(out.text, d, limit)
           html == AppendBounded(out.html, d, limit)
           next == AddBody(out, i, part, limit)
           cut == Len(c) > limit
<1>1. /\ out = [text |-> out.text, html |-> out.html, truncated |-> out.truncated,
                attachments |-> out.attachments]
      /\ out.text \in Seq(Byte) /\ out.html \in Seq(Byte) /\ out.truncated \in BOOLEAN
      /\ out.attachments \in Seq(ListedFile)
      BY DEF Parsed
<1>2. d \in Seq(Byte)
  <2>1. c \in Seq(Byte) BY ContentBytes
  <2> HIDE DEF c
  <2>. QED BY <2>1, Clipped
<1>3. text.body \in Seq(Byte) /\ html.body \in Seq(Byte)
  <2> HIDE DEF d
  <2>. QED BY <1>1, <1>2, AppendedBytes
<1>4. text.cut \in BOOLEAN /\ html.cut \in BOOLEAN /\ cut \in BOOLEAN BY DEF AppendBounded
<1>5. CASE part.type = "text/plain"
  <2>1. next = [out EXCEPT !.text = text.body, !.truncated = out.truncated \/ cut \/ text.cut]
        BY <1>5 DEF AddBody, ReadBounded
  <2> HIDE DEF next, text, html, cut
  <2>2. /\ next.text = text.body /\ next.html = out.html /\ next.attachments = out.attachments
        /\ next.truncated = (out.truncated \/ cut \/ text.cut)
        BY <1>1, <2>1
  <2>3. next \in Parsed BY <1>1, <1>3, <1>4, <2>1 DEF Parsed
  <2>. QED BY <1>1, <1>4, <1>5, <2>2, <2>3 DEF GrowsBody, BodyTypes, BodyOf, next, text, cut
<1>6. CASE part.type = "text/html"
  <2>1. next = [out EXCEPT !.html = html.body, !.truncated = out.truncated \/ cut \/ html.cut]
        BY <1>6 DEF AddBody, ReadBounded
  <2> HIDE DEF next, text, html, cut
  <2>2. /\ next.html = html.body /\ next.text = out.text /\ next.attachments = out.attachments
        /\ next.truncated = (out.truncated \/ cut \/ html.cut)
        BY <1>1, <2>1
  <2>3. next \in Parsed BY <1>1, <1>3, <1>4, <2>1 DEF Parsed
  <2>. QED BY <1>1, <1>4, <1>6, <2>2, <2>3 DEF GrowsBody, BodyTypes, BodyOf, next, html, cut
<1>7. CASE part.type \notin BodyTypes
  <2>1. next = [out EXCEPT !.truncated = out.truncated \/ cut]
        BY <1>7 DEF AddBody, ReadBounded, BodyTypes
  <2> HIDE DEF next, text, html, cut
  <2>2. /\ next.html = out.html /\ next.text = out.text /\ next.attachments = out.attachments
        /\ next.truncated = (out.truncated \/ cut)
        BY <1>1, <2>1
  <2>3. next \in Parsed BY <1>1, <1>4, <2>1 DEF Parsed
  <2>. QED BY <1>1, <1>4, <1>7, <2>2, <2>3 DEF GrowsBody, BodyTypes, BodyOf, next
<1>. QED BY <1>5, <1>6, <1>7 DEF BodyTypes

\* The entry of the k-th attachment, which is part i.
Entry(k, i, part, limit) ==
    [index |-> k - 1, size |-> part.len, tooLarge |-> part.len > limit,
     data |-> IF part.len > limit THEN << >> ELSE Content(i, part)]

\* What an attachment adds.
GrowsList(next, out, i, part, limit) ==
    /\ next.text = out.text /\ next.html = out.html /\ next.truncated = out.truncated
    /\ next.attachments = Append(out.attachments, Entry(Len(out.attachments) + 1, i, part, limit))

LEMMA AttachmentAdded ==
    ASSUME NEW out \in Parsed, NEW i \in Nat, NEW part \in Part, NEW limit \in Nat
    PROVE  /\ AddAttachment(out, i, part, limit) \in Parsed
           /\ GrowsList(AddAttachment(out, i, part, limit), out, i, part, limit)
<1> DEFINE next == AddAttachment(out, i, part, limit)
           m == Len(out.attachments)
           e == [index |-> m, size |-> part.len, tooLarge |-> part.len > limit,
                 data |-> IF part.len > limit THEN << >> ELSE Content(i, part)]
<1>1. /\ out = [text |-> out.text, html |-> out.html, truncated |-> out.truncated,
                attachments |-> out.attachments]
      /\ out.text \in Seq(Byte) /\ out.html \in Seq(Byte) /\ out.truncated \in BOOLEAN
      /\ out.attachments \in Seq(ListedFile) /\ m \in Nat
      BY DEF Parsed
<1>2. Content(i, part) \in Seq(Byte) /\ part.len \in Nat BY ContentBytes
<1>3. next = [out EXCEPT !.attachments = Append(out.attachments, e)]
      BY DEF AddAttachment
<1>4. e \in ListedFile BY <1>1, <1>2 DEF ListedFile
<1>5. e = Entry(m + 1, i, part, limit) BY <1>1 DEF Entry
<1> HIDE DEF next, e
<1>6. Append(out.attachments, e) \in Seq(ListedFile) BY <1>1, <1>4
<1>7. next.attachments = Append(out.attachments, e) /\ next.text = out.text /\ next.html = out.html
      /\ next.truncated = out.truncated
      BY <1>1, <1>3
<1>8. next \in Parsed BY <1>1, <1>3, <1>6 DEF Parsed
<1>. QED BY <1>5, <1>7, <1>8 DEF next, GrowsList

\* What part k adds.
Adds(out, parts, k, bodyLimit, attachmentLimit) ==
    IF IsAttachment(parts[k]) THEN AddAttachment(out, k, parts[k], attachmentLimit)
    ELSE AddBody(out, k, parts[k], bodyLimit)

\* The values that ParseRaw passes through.
Parsing(h, n, parts, bodyLimit, attachmentLimit) ==
    /\ h[0] = NothingParsed /\ h[n] = ParseRaw(parts, bodyLimit, attachmentLimit)
    /\ \A k \in 1 .. n : h[k] = Adds(h[k - 1], parts, k, bodyLimit, attachmentLimit)

\* The loop over the parts, from the first to the last.
LEMMA ParseTrace ==
    ASSUME NEW n \in Nat, NEW parts \in [1 .. n -> Part], NEW bodyLimit \in Nat, NEW attachmentLimit \in Nat
    PROVE  \E h \in [0 .. n -> Parsed] : Parsing(h, n, parts, bodyLimit, attachmentLimit)
<1> DEFINE T == Parsed
           Add(out, k) == Adds(out, parts, k, bodyLimit, attachmentLimit)
           step == [k \in 1 .. n |-> [out \in T |-> Add(out, k)]]
           indices == [k \in DOMAIN parts |-> k]
           Fold(f) == f = [x \in SUBSET (DOMAIN indices) |->
                              IF x = {} THEN NothingParsed ELSE Add(f[x \ {Max(x)}], indices[Max(x)])]
           iter == CHOOSE f : Fold(f)
<1>1. DOMAIN indices = 1 .. n /\ \A k \in 1 .. n : indices[k] = k OBVIOUS
<1>2. ASSUME NEW out \in T, NEW k \in 1 .. n PROVE Add(out, k) \in T
  <2>1. k \in Nat /\ parts[k] \in Part OBVIOUS
  <2>2. AddAttachment(out, k, parts[k], attachmentLimit) \in Parsed BY <2>1, AttachmentAdded
  <2>3. AddBody(out, k, parts[k], bodyLimit) \in Parsed BY <2>1, BodyAdded
  <2>. QED BY <2>2, <2>3 DEF Adds
<1> HIDE DEF Add
<1>3. step \in [1 .. n -> [T -> T]] BY <1>2
<1>4. NothingParsed \in T
  <2>1. << >> \in Seq(Byte) /\ << >> \in Seq(ListedFile) OBVIOUS
  <2>. QED BY <2>1 DEF NothingParsed, Parsed
<1>5. \E f : Fold(f)
  <2>1. PICK f \in [SUBSET (1 .. n) -> T] : FoldsBy(f, n, NothingParsed, step)
    <3> HIDE DEF step, T, Fold
    <3>. QED BY <1>3, <1>4, FoldExists
  <2>2. ASSUME NEW x \in SUBSET (1 .. n), x # {}
        PROVE  step[Max(x)][f[x \ {Max(x)}]] = Add(f[x \ {Max(x)}], indices[Max(x)])
    <3>1. Max(x) \in 1 .. n BY <2>2, MaxOfSome
    <3>2. f[x \ {Max(x)}] \in T OBVIOUS
    <3>. QED BY <3>1, <3>2
  <2> HIDE DEF step, indices
  <2>3. Fold(f) BY Zenon, <1>1, <2>1, <2>2 DEF FoldsBy
  <2>. QED BY <2>3
<1>6. Fold(iter) BY Zenon, <1>5
<1>7. ParseRaw(parts, bodyLimit, attachmentLimit) = iter[1 .. n]
  <2>1. ParseRaw(parts, bodyLimit, attachmentLimit) = iter[DOMAIN indices]
        BY Zenon DEF ParseRaw, FoldLeftDomain, FoldLeft, MapThenFoldSet, Add, Adds
  <2>. QED BY Zenon, <1>1, <2>1
<1> HIDE DEF iter, indices
<1>8. iter[{}] = NothingParsed BY Zenon, <1>1, <1>6
<1>9. IsFold(iter, T, n, NothingParsed, step)
  <2>1. \A x \in SUBSET (1 .. n) :
             x # {} /\ iter[x \ {Max(x)}] \in T => iter[x] = step[Max(x)][iter[x \ {Max(x)}]]
    <3> SUFFICES ASSUME NEW x \in SUBSET (1 .. n), x # {}, iter[x \ {Max(x)}] \in T
                 PROVE  iter[x] = step[Max(x)][iter[x \ {Max(x)}]]
      BY Zenon
    <3>1. Max(x) \in 1 .. n BY MaxOfSome
    <3>2. iter[x] = Add(iter[x \ {Max(x)}], indices[Max(x)]) BY Zenon, <1>1, <1>6
    <3>3. indices[Max(x)] = Max(x) BY <1>1, <3>1
    <3>. QED BY <3>1, <3>2, <3>3
  <2>. QED BY Zenon, <1>8, <2>1 DEF IsFold
<1>10. PICK h \in [0 .. n -> T] : Traces(h, n, NothingParsed, step, iter[1 .. n])
  <2> HIDE DEF step, T, Fold
  <2>. QED BY <1>3, <1>4, <1>9, FoldTrace
<1>11. ASSUME NEW k \in 1 .. n PROVE h[k] = Add(h[k - 1], k)
  <2>1. k - 1 \in 0 .. n /\ h[k - 1] \in T OBVIOUS
  <2>. QED BY <1>10, <2>1 DEF Traces
<1> HIDE DEF step
<1>. QED BY Zenon, <1>7, <1>10, <1>11 DEF Traces, Parsing, Add

\* No bodies give nothing.
LEMMA NothingJoined ==
    ASSUME NEW parts
    PROVE  Joined(parts, << >>) = << >>
<1> DEFINE Item(k, j) == (IF k = 1 THEN << >> ELSE Separator) \o Content(j, parts[j])
<1> DEFINE none == [k \in DOMAIN << >> |-> Item(k, << >>[k])]
<1>1. Joined(parts, << >>) = FlattenSeq(none) BY Zenon DEF Joined, Item
<1>2. none \in [1 .. 0 -> Seq(Byte)] OBVIOUS
<1>3. ToSet(FlattenSeq(none)) = {} /\ FlattenSeq(none) \in Seq(Byte)
  <2> HIDE DEF none
  <2>1. 0 \in Nat OBVIOUS
  <2>2. /\ FlattenSeq(none) \in Seq(Byte)
        /\ ToSet(FlattenSeq(none)) = UNION {ToSet(none[k]) : k \in 1 .. 0}
        BY <1>2, <2>1, FlattenedList
  <2>. QED BY <2>2
<1> HIDE DEF none
<1>4. \A f \in Seq(Byte) : ToSet(f) = {} => f = << >>
  <2> SUFFICES ASSUME NEW f \in Seq(Byte), f # << >> PROVE ToSet(f) # {}
    OBVIOUS
  <2>1. 1 \in DOMAIN f OBVIOUS
  <2>. QED BY <2>1 DEF ToSet
<1>. QED BY <1>1, <1>3, <1>4

\* The bodies chosen so far, with one more.
LEMMA JoinedLonger ==
    ASSUME NEW n \in Nat, NEW parts \in [1 .. n -> Part], NEW bodies \in Seq(1 .. n), NEW i \in 1 .. n
    PROVE  /\ Joined(parts, bodies) \in Seq(Byte)
           /\ Joined(parts, Append(bodies, i)) =
                  Joined(parts, bodies) \o
                      ((IF bodies = << >> THEN << >> ELSE Separator) \o Content(i, parts[i]))
<1> DEFINE Item(k, j) == (IF k = 1 THEN << >> ELSE Separator) \o Content(j, parts[j])
           more == Append(bodies, i)
           m == Len(bodies)
           ss == [k \in DOMAIN bodies |-> Item(k, bodies[k])]
           tt == [k \in DOMAIN more |-> Item(k, more[k])]
<1>1. ASSUME NEW k, NEW j \in 1 .. n PROVE Item(k, j) \in Seq(Byte)
  <2>1. j \in Nat /\ parts[j] \in Part OBVIOUS
  <2>2. Content(j, parts[j]) \in Seq(Byte) /\ Separator \in Seq(Byte) BY <2>1, ContentBytes
  <2>3. << >> \in Seq(Byte) OBVIOUS
  <2>. QED BY <2>2, <2>3, BothLists
<1>2. /\ Joined(parts, bodies) = FlattenSeq(ss) /\ Joined(parts, more) = FlattenSeq(tt)
      BY Zenon DEF Joined
<1> HIDE DEF Item
<1>3. /\ m \in Nat /\ DOMAIN bodies = 1 .. m /\ DOMAIN more = 1 .. m + 1
      /\ \A k \in 1 .. m : bodies[k] \in 1 .. n /\ more[k] = bodies[k]
      /\ more[m + 1] = i /\ (bodies = << >> <=> m = 0)
  <2> DEFINE R == 1 .. n
  <2>1. bodies \in Seq(R) /\ i \in R OBVIOUS
  <2> HIDE DEF R
  <2>2. /\ m \in Nat /\ DOMAIN bodies = 1 .. m /\ DOMAIN more = 1 .. m + 1
        /\ \A k \in 1 .. m : bodies[k] \in R /\ more[k] = bodies[k]
        /\ more[m + 1] = i /\ (bodies = << >> <=> m = 0)
        BY <2>1
  <2>. QED BY <2>2 DEF R
<1> HIDE DEF more, m
<1>4. ss \in [1 .. m -> Seq(Byte)] BY <1>1, <1>3
<1>5. \A k \in 1 .. m + 1 : more[k] \in 1 .. n
  <2>1. \A k \in 1 .. m + 1 : k \in 1 .. m \/ k = m + 1 BY <1>3
  <2>. QED BY <1>3, <2>1
<1>6. tt \in [1 .. m + 1 -> Seq(Byte)] BY <1>1, <1>3, <1>5
<1>7. \A k \in 1 .. m : tt[k] = ss[k]
  <2>1. \A k \in 1 .. m : k \in 1 .. m + 1 BY <1>3
  <2>. QED BY <1>3, <2>1
<1>8. tt[m + 1] = Item(m + 1, i)
  <2>1. m + 1 \in 1 .. m + 1 BY <1>3
  <2>. QED BY <1>3, <2>1
<1> HIDE DEF ss, tt
<1>9. FlattenSeq(tt) = FlattenSeq(ss) \o tt[m + 1]
  <2>1. m \in Nat BY <1>3
  <2>. QED BY <1>4, <1>6, <1>7, <2>1, FlattenAppended
<1>10. FlattenSeq(ss) \in Seq(Byte)
  <2>1. m \in Nat BY <1>3
  <2>. QED BY <1>4, <2>1, FlattenedList
<1>11. Item(m + 1, i) = (IF bodies = << >> THEN << >> ELSE Separator) \o Content(i, parts[i])
  <2>1. m + 1 = 1 <=> bodies = << >> BY <1>3
  <2>. QED BY Zenon, <2>1 DEF Item
<1>. QED BY <1>2, <1>8, <1>9, <1>10, <1>11 DEF more

\* One body more is one body appended, with a separator if there is one before it.
LEMMA JoinedBody ==
    ASSUME NEW n \in Nat, NEW parts \in [1 .. n -> Part], NEW bodies \in Seq(1 .. n), NEW i \in 1 .. n,
           parts[i].len > 0, bodies = << >> <=> Joined(parts, bodies) = << >>
    PROVE  /\ Joined(parts, Append(bodies, i)) = Longer(Joined(parts, bodies), Content(i, parts[i]))
           /\ Joined(parts, Append(bodies, i)) # << >>
<1> DEFINE s == Joined(parts, bodies)
           c == Content(i, parts[i])
           t == Joined(parts, Append(bodies, i))
<1>1. i \in Nat /\ parts[i] \in Part OBVIOUS
<1>2. c \in Seq(Byte) /\ Len(c) > 0 /\ Separator \in Seq(Byte) BY <1>1, ContentBytes
<1>3. s \in Seq(Byte) /\ t = s \o ((IF bodies = << >> THEN << >> ELSE Separator) \o c) BY JoinedLonger
<1>4. bodies = << >> <=> s = << >> OBVIOUS
<1> HIDE DEF s, c, t
<1>5. c # << >> BY <1>2
<1>6. CASE s = << >>
  <2>1. << >> \o (<< >> \o c) = c BY <1>2
  <2>2. t = c BY <1>3, <1>4, <1>6, <2>1
  <2>. QED BY <1>5, <1>6, <2>2 DEF Longer, s, c, t
<1>7. CASE s # << >>
  <2>1. t = s \o (Separator \o c) BY <1>3, <1>4, <1>7
  <2>2. Separator \o c \in Seq(Byte) /\ Len(s) > 0 BY <1>2, <1>3, <1>7, BothLists
  <2>3. Len(t) > 0
    <3> DEFINE u == Separator \o c
    <3> HIDE DEF u
    <3>1. u \in Seq(Byte) BY <2>2 DEF u
    <3>2. Len(s \o u) = Len(s) + Len(u) /\ Len(u) \in Nat BY <1>3, <3>1, BothLists
    <3>. QED BY <2>1, <2>2, <3>2 DEF u
  <2>4. t # << >> BY <2>3
  <2>. QED BY <1>5, <1>7, <2>1, <2>4 DEF Longer, s, c, t
<1>. QED BY <1>6, <1>7

\* ParseRaw keeps the start of what was sent of a type, and says so when something is cut off.
LEMMA ParsedBody ==
    ASSUME NEW n \in Nat, NEW parts \in [1 .. n -> Part], NEW limit \in Nat, NEW attachmentLimit \in Nat,
           NEW type \in BodyTypes
    PROVE  LET out == ParseRaw(parts, limit, attachmentLimit)
               sent == Sent(parts, type)
           IN  /\ out \in Parsed /\ sent \in Seq(Byte) /\ BodyOf(out, type) = Clip(sent, limit)
               /\ Len(sent) > limit => out.truncated
<1> DEFINE chosen == {i \in DOMAIN parts : ~IsAttachment(parts[i]) /\ parts[i].type = type /\ parts[i].len > 0}
<1>1. PICK h \in [0 .. n -> Parsed] : Parsing(h, n, parts, limit, attachmentLimit) BY ParseTrace
<1>2. PICK p \in [0 .. n -> Seq(1 .. n)] : Picks(p, n, parts, chosen)
  <2> HIDE DEF chosen
  <2>. QED BY PickedTrace
<1>3. \A k \in 1 .. n : k \in chosen <=>
          ~IsAttachment(parts[k]) /\ parts[k].type = type /\ parts[k].len > 0
      OBVIOUS
<1>4. Sent(parts, type) = Joined(parts, p[n]) BY <1>2 DEF Sent, Bodies, Picks
<1> HIDE DEF chosen
<1> DEFINE s(k) == Joined(parts, p[k])
           P == {k \in 0 .. n :
                    /\ s(k) \in Seq(Byte) /\ (p[k] = << >> <=> s(k) = << >>)
                    /\ BodyOf(h[k], type) = Clip(s(k), limit)
                    /\ Len(s(k)) > limit => h[k].truncated}
<1>5. 0 \in P
  <2>1. p[0] = << >> /\ h[0] = NothingParsed /\ 0 \in 0 .. n BY <1>1, <1>2 DEF Picks, Parsing
  <2>2. << >> \in Seq(1 .. n) /\ << >> \in Seq(Byte) /\ Len(<< >>) = 0 OBVIOUS
  <2>3. s(0) = << >> BY <2>1, NothingJoined
  <2>4. BodyOf(NothingParsed, type) = << >> BY DEF BodyOf, NothingParsed
  <2>5. Clip(<< >>, limit) = << >>
    <3>1. Len(<< >>) <= limit BY <2>2
    <3>. QED BY <2>2, <3>1, Clipped
  <2>. QED BY <2>1, <2>2, <2>3, <2>4, <2>5
<1>6. ASSUME NEW k \in 1 .. n, k - 1 \in P PROVE k \in P
  <2> DEFINE out == h[k - 1]
             q == p[k - 1]
             t == Joined(parts, q)
             c == Content(k, parts[k])
  <2>1. /\ k \in 0 .. n /\ k \in Nat /\ parts[k] \in Part
        /\ out \in Parsed /\ q \in Seq(1 .. n)
        /\ t \in Seq(Byte) /\ (q = << >> <=> t = << >>)
        /\ BodyOf(out, type) = Clip(t, limit)
        /\ Len(t) > limit => out.truncated
        BY <1>6
  <2>2. h[k] = Adds(out, parts, k, limit, attachmentLimit) BY <1>1 DEF Parsing
  <2>3. p[k] = IF k \in chosen THEN Append(q, k) ELSE q BY <1>2 DEF Picks
  <2>4. c \in Seq(Byte) /\ Len(c) = parts[k].len /\ parts[k].len \in Nat BY <2>1, ContentBytes
  <2> HIDE DEF out, q, t, P
  <2>5. CASE k \in chosen
    <3>1. ~IsAttachment(parts[k]) /\ parts[k].type = type /\ parts[k].len > 0 BY <1>3, <2>5
    <3>2. s(k) = Longer(t, c) /\ s(k) # << >>
      <4>1. /\ Joined(parts, Append(q, k)) = Longer(Joined(parts, q), Content(k, parts[k]))
            /\ Joined(parts, Append(q, k)) # << >>
            BY <2>1, <3>1, JoinedBody DEF t
      <4>. QED BY <2>3, <2>5, <4>1 DEF t
    <3>3. p[k] # << >>
      <4>1. p[k] = Append(q, k) BY <2>3, <2>5
      <4>2. Len(Append(q, k)) = Len(q) + 1 /\ Len(q) \in Nat BY <2>1
      <4>3. Len(p[k]) > 0 BY <4>1, <4>2
      <4>. QED BY <4>3
    <3> DEFINE added == AppendBounded(Clip(t, limit), Clip(c, limit), limit)
    <3> HIDE DEF c
    <3>4. /\ Longer(t, c) \in Seq(Byte) /\ added.body = Clip(Longer(t, c), limit)
          /\ Len(Longer(t, c)) > limit => Len(t) > limit \/ Len(c) > limit \/ added.cut
          BY <2>1, <2>4, BodyAppended
    <3>5. /\ BodyOf(h[k], type) = added.body
          /\ out.truncated => h[k].truncated
          /\ Len(c) > limit \/ added.cut => h[k].truncated
      <4>1. h[k] = AddBody(out, k, parts[k], limit) BY <2>2, <3>1 DEF Adds
      <4>2. /\ out.truncated => AddBody(out, k, parts[k], limit).truncated
            /\ LET a == AppendBounded(BodyOf(out, type), Clip(Content(k, parts[k]), limit), limit)
               IN  /\ BodyOf(AddBody(out, k, parts[k], limit), type) = a.body
                   /\ Len(Content(k, parts[k])) > limit \/ a.cut
                      => AddBody(out, k, parts[k], limit).truncated
        <5>1. type \in BodyTypes OBVIOUS
        <5>2. GrowsBody(AddBody(out, k, parts[k], limit), out, k, parts[k], limit) BY <2>1, BodyAdded
        <5>. QED BY <3>1, <5>1, <5>2 DEF GrowsBody
      <4>. QED BY <2>1, <4>1, <4>2 DEF c
    <3>6. Len(s(k)) > limit => h[k].truncated BY <2>1, <3>2, <3>4, <3>5
    <3>. QED BY <2>1, <3>2, <3>3, <3>4, <3>5, <3>6 DEF P
  <2>6. CASE k \notin chosen
    <3>1. p[k] = q /\ s(k) = t BY <2>3, <2>6 DEF t
    <3>2. BodyOf(h[k], type) = BodyOf(out, type) /\ (out.truncated => h[k].truncated)
      <4>1. CASE IsAttachment(parts[k])
        <5>1. h[k] = AddAttachment(out, k, parts[k], attachmentLimit) BY <2>2, <4>1 DEF Adds
        <5>2. GrowsList(h[k], out, k, parts[k], attachmentLimit) BY <2>1, <5>1, AttachmentAdded
        <5>. QED BY <5>2 DEF BodyOf, GrowsList
      <4>2. CASE ~IsAttachment(parts[k]) /\ parts[k].type # type
        <5>1. h[k] = AddBody(out, k, parts[k], limit) BY <2>2, <4>2 DEF Adds
        <5>2. GrowsBody(h[k], out, k, parts[k], limit) BY <2>1, <5>1, BodyAdded
        <5>. QED BY <4>2, <5>2 DEF GrowsBody
      <4>3. CASE ~IsAttachment(parts[k]) /\ parts[k].type = type
        <5>1. h[k] = AddBody(out, k, parts[k], limit) BY <2>2, <4>3 DEF Adds
        <5>2. Len(c) = 0 BY <1>3, <2>4, <2>6, <4>3
        <5>3. c = << >> BY <2>4, <5>2
        <5> DEFINE added == AppendBounded(Clip(t, limit), Clip(c, limit), limit)
        <5>4. /\ BodyOf(h[k], type) = added.body /\ (out.truncated => h[k].truncated)
          <6>1. /\ out.truncated => AddBody(out, k, parts[k], limit).truncated
                /\ BodyOf(AddBody(out, k, parts[k], limit), type)
                   = AppendBounded(BodyOf(out, type), Clip(Content(k, parts[k]), limit), limit).body
            <7>1. type \in BodyTypes OBVIOUS
            <7>2. GrowsBody(AddBody(out, k, parts[k], limit), out, k, parts[k], limit)
                  BY <2>1, BodyAdded
            <7>. QED BY <4>3, <7>1, <7>2 DEF GrowsBody
          <6>. QED BY <2>1, <5>1, <6>1
        <5> HIDE DEF c
        <5>5. added.body = Clip(Longer(t, c), limit) BY <2>1, <2>4, BodyAppended
        <5>6. Longer(t, c) = t BY <5>3 DEF Longer
        <5>. QED BY <2>1, <5>4, <5>5, <5>6
      <4>. QED BY <4>1, <4>2, <4>3
    <3>. QED BY <2>1, <3>1, <3>2 DEF P
  <2>. QED BY <2>5, <2>6
<1>7. n \in P
  <2> HIDE DEF P
  <2>1. \A k \in 0 .. n : k \in P BY <1>5, <1>6, NumbersUpTo
  <2>. QED BY <2>1
<1>8. h[n] \in Parsed /\ h[n] = ParseRaw(parts, limit, attachmentLimit) BY <1>1 DEF Parsing
<1>. QED BY <1>4, <1>7, <1>8

\* The attachments listed are those of the message, each in its place.
ListsAll(list, n, parts, limit) ==
    LET att == Attached(parts)
    IN  /\ list \in Seq(ListedFile) /\ att \in Seq(1 .. n) /\ Len(list) = Len(att)
        /\ \A k \in 1 .. Len(att) : list[k] = Entry(k, att[k], parts[att[k]], limit)

\* ParseRaw lists every attachment at the index that is its place among the attachments.
LEMMA ParsedAttachments ==
    ASSUME NEW n \in Nat, NEW parts \in [1 .. n -> Part], NEW bodyLimit \in Nat, NEW limit \in Nat
    PROVE  ListsAll(ParseRaw(parts, bodyLimit, limit).attachments, n, parts, limit)
<1> DEFINE chosen == {i \in DOMAIN parts : IsAttachment(parts[i])}
<1>1. PICK h \in [0 .. n -> Parsed] : Parsing(h, n, parts, bodyLimit, limit) BY ParseTrace
<1>2. PICK p \in [0 .. n -> Seq(1 .. n)] : Picks(p, n, parts, chosen)
  <2> HIDE DEF chosen
  <2>. QED BY PickedTrace
<1>3. \A k \in 1 .. n : k \in chosen <=> IsAttachment(parts[k]) OBVIOUS
<1>4. Attached(parts) = p[n] BY <1>2 DEF Attached, Picks
<1> HIDE DEF chosen
<1> DEFINE list(k) == h[k].attachments
           P == {k \in 0 .. n :
                    /\ list(k) \in Seq(ListedFile) /\ Len(list(k)) = Len(p[k])
                    /\ \A j \in 1 .. Len(p[k]) : list(k)[j] = Entry(j, p[k][j], parts[p[k][j]], limit)}
<1>5. 0 \in P
  <2>1. p[0] = << >> /\ h[0] = NothingParsed /\ 0 \in 0 .. n BY <1>1, <1>2 DEF Picks, Parsing
  <2>2. list(0) = << >> BY <2>1 DEF NothingParsed
  <2>3. << >> \in Seq(ListedFile) /\ Len(<< >>) = 0 OBVIOUS
  <2>4. list(0) \in Seq(ListedFile) /\ Len(list(0)) = 0 /\ Len(p[0]) = 0 BY <2>1, <2>2, <2>3
  <2>5. 1 .. Len(p[0]) = {} BY <2>4
  <2> HIDE DEF list
  <2>. QED BY <2>1, <2>4, <2>5
<1>6. ASSUME NEW k \in 1 .. n, k - 1 \in P PROVE k \in P
  <2> DEFINE out == h[k - 1]
             old == list(k - 1)
             q == p[k - 1]
             m == Len(q)
             e == Entry(m + 1, k, parts[k], limit)
  <2>1. /\ k \in 0 .. n /\ k \in Nat /\ parts[k] \in Part
        /\ out \in Parsed /\ q \in Seq(1 .. n) /\ m \in Nat
        /\ old \in Seq(ListedFile) /\ Len(old) = m /\ old = out.attachments
        /\ \A j \in 1 .. m : old[j] = Entry(j, q[j], parts[q[j]], limit)
        BY <1>6
  <2>2. h[k] = Adds(out, parts, k, bodyLimit, limit) BY <1>1 DEF Parsing
  <2>3. p[k] = IF k \in chosen THEN Append(q, k) ELSE q BY <1>2 DEF Picks
  <2>4. h[k] \in Parsed /\ list(k) \in Seq(ListedFile) BY <2>1 DEF Parsed
  <2> HIDE DEF out, old, q, m, e, P
  <2>5. CASE k \in chosen
    <3>1. h[k] = AddAttachment(out, k, parts[k], limit) BY <1>3, <2>2, <2>5 DEF Adds
    <3>2. list(k) = Append(old, Entry(Len(old) + 1, k, parts[k], limit))
      <4>1. GrowsList(h[k], out, k, parts[k], limit) BY <2>1, <3>1, AttachmentAdded
      <4>. QED BY <2>1, <4>1 DEF GrowsList
    <3>3. list(k) = Append(old, e) BY <2>1, <3>2 DEF e
    <3>4. p[k] = Append(q, k) BY <2>3, <2>5
    <3>5. /\ Len(p[k]) = m + 1 /\ p[k][m + 1] = k /\ \A j \in 1 .. m : p[k][j] = q[j]
      <4> DEFINE R == 1 .. n
      <4>1. q \in Seq(R) /\ k \in R /\ m = Len(q) BY <2>1 DEF m
      <4> HIDE DEF R
      <4>. QED BY <3>4, <4>1
    <3>6. /\ Len(list(k)) = m + 1 /\ list(k)[m + 1] = e /\ \A j \in 1 .. m : list(k)[j] = old[j]
      <4>1. \A l \in Seq(ListedFile) : \A x :
                /\ Len(Append(l, x)) = Len(l) + 1 /\ Append(l, x)[Len(l) + 1] = x
                /\ \A j \in 1 .. Len(l) : Append(l, x)[j] = l[j]
            OBVIOUS
      <4>. QED BY <2>1, <3>3, <4>1
    <3>7. ASSUME NEW j \in 1 .. m + 1 PROVE list(k)[j] = Entry(j, p[k][j], parts[p[k][j]], limit)
      <4>1. j \in 1 .. m \/ j = m + 1 BY <2>1
      <4>2. CASE j \in 1 .. m BY <2>1, <3>5, <3>6, <4>2
      <4>3. CASE j = m + 1 BY <3>5, <3>6, <4>3 DEF e
      <4>. QED BY <4>1, <4>2, <4>3
    <3>. QED BY <2>1, <2>4, <3>5, <3>6, <3>7 DEF P
  <2>6. CASE k \notin chosen
    <3>1. h[k] = AddBody(out, k, parts[k], bodyLimit) BY <1>3, <2>2, <2>6 DEF Adds
    <3>2. list(k) = old
      <4>1. GrowsBody(h[k], out, k, parts[k], bodyLimit) BY <2>1, <3>1, BodyAdded
      <4>. QED BY <2>1, <4>1 DEF GrowsBody
    <3>3. p[k] = q BY <2>3, <2>6
    <3>. QED BY <2>1, <2>4, <3>2, <3>3 DEF P, m
  <2>. QED BY <2>5, <2>6
<1>7. n \in P
  <2> HIDE DEF P
  <2>1. \A k \in 0 .. n : k \in P BY <1>5, <1>6, NumbersUpTo
  <2>. QED BY <2>1
<1>8. list(n) = ParseRaw(parts, bodyLimit, limit).attachments /\ p[n] \in Seq(1 .. n)
      BY <1>1 DEF Parsing
<1>. QED BY <1>4, <1>7, <1>8 DEF ListsAll
-----------------------------------------------------------------------------
(* The newest n of a set of UIDs.                                          *)

Above(S, u) == {v \in S : v > u}

\* A larger UID has fewer above it.
LEMMA FewerAbove ==
    ASSUME NEW S, IsFiniteSet(S), S \subseteq Nat, NEW u \in S, NEW v \in S, u < v
    PROVE  /\ IsFiniteSet(Above(S, u)) /\ Cardinality(Above(S, u)) \in Nat
           /\ Cardinality(Above(S, v)) \in Nat
           /\ Cardinality(Above(S, v)) < Cardinality(Above(S, u))
<1> DEFINE A == Above(S, u)  B == Above(S, v)
<1>1. A \in SUBSET S /\ B \in SUBSET A /\ v \in A /\ v \notin B
  <2>1. \A x \in S : x > v => x > u
        OBVIOUS
  <2>2. v > u /\ ~(v > v)
        OBVIOUS
  <2>. QED BY <2>1, <2>2 DEF Above
<1> HIDE DEF A, B
<1>2. IsFiniteSet(A) BY <1>1, FS_Subset
<1>3. IsFiniteSet(B) /\ Cardinality(B) <= Cardinality(A) /\ (Cardinality(A) = Cardinality(B) => A = B)
      BY <1>1, <1>2, FS_Subset
<1>4. Cardinality(A) \in Nat /\ Cardinality(B) \in Nat
      BY <1>2, <1>3, FS_CardinalityType
<1>5. A # B BY <1>1
<1>6. Cardinality(B) < Cardinality(A) BY <1>3, <1>4, <1>5
<1>. QED BY <1>2, <1>4, <1>6 DEF A, B

\* What Search keeps of the UIDs found: no more than n, and whatever is left out has
\* exactly n above it that are kept.
LEMMA NewestFacts ==
    ASSUME NEW S, IsFiniteSet(S), S \subseteq Nat, NEW n \in Nat \ {0}
    PROVE  /\ Newest(S, n) \subseteq S
           /\ Cardinality(Newest(S, n)) <= n
           /\ \A u \in S \ Newest(S, n) : Cardinality(Above(Newest(S, n), u)) = n
<1> DEFINE N == Newest(S, n)
<1>1. N \in SUBSET S /\ \A u \in S : u \in N <=> Cardinality(Above(S, u)) < n
      BY DEF Newest, Above
<1> HIDE DEF N
<1>2. IsFiniteSet(N) /\ Cardinality(N) \in Nat
      BY <1>1, FS_Subset, FS_CardinalityType
<1>3. \A u \in S : Above(S, u) \in SUBSET S /\ IsFiniteSet(Above(S, u)) /\ Cardinality(Above(S, u)) \in Nat
  <2> SUFFICES ASSUME NEW u \in S
               PROVE  Above(S, u) \in SUBSET S /\ IsFiniteSet(Above(S, u)) /\ Cardinality(Above(S, u)) \in Nat
    OBVIOUS
  <2>1. Above(S, u) \in SUBSET S BY DEF Above
  <2>2. IsFiniteSet(Above(S, u)) BY <2>1, FS_Subset
  <2>. QED BY <2>1, <2>2, FS_CardinalityType
<1>4. Cardinality(N) <= n
  <2>1. CASE N = {}
        BY <2>1, FS_EmptySet
  <2>2. CASE N # {}
    <3>1. N \in SUBSET Nat /\ N # {} BY <1>1, <2>2
    <3>2. PICK m \in N : \A y \in N : m <= y BY <3>1, SmallestElement
    <3> DEFINE R == N \ {m}
    <3>3. R \in SUBSET Above(S, m) BY <1>1, <3>1, <3>2 DEF Above
    <3>4. IsFiniteSet(R) /\ Cardinality(R) = Cardinality(N) - 1 BY <1>2, <3>2, FS_RemoveElement
    <3> HIDE DEF R
    <3>5. m \in S BY <1>1, <3>2
    <3>6. Cardinality(R) <= Cardinality(Above(S, m)) BY <1>3, <3>3, <3>5, FS_Subset
    <3>7. Cardinality(Above(S, m)) < n BY <1>1, <3>2
    <3>8. Cardinality(Above(S, m)) \in Nat BY <1>3, <3>5
    <3>. QED BY <1>2, <3>4, <3>6, <3>7, <3>8
  <2>. QED BY <2>1, <2>2
<1>5. ASSUME NEW u \in S \ N PROVE Cardinality(Above(N, u)) = n
  \* Among the UIDs that are left out, w has the fewest above it: all of those are kept.
  <2> DEFINE C == {Cardinality(Above(S, x)) : x \in S \ N}
  <2>1. C \in SUBSET Nat /\ C # {} BY <1>3, <1>5
  <2>2. PICK c \in C : \A y \in C : c <= y
    <3> HIDE DEF C
    <3>. QED BY <2>1, SmallestElement
  <2>3. PICK w \in S \ N : c = Cardinality(Above(S, w)) BY <2>2
  <2>4. \A x \in S \ N : Cardinality(Above(S, w)) <= Cardinality(Above(S, x)) BY <2>2, <2>3
  <2>5. Above(S, w) \in SUBSET N
    <3> SUFFICES ASSUME NEW v \in S, v > w, v \notin N PROVE FALSE
      BY <1>3, <2>3 DEF Above
    <3>1. Cardinality(Above(S, v)) < Cardinality(Above(S, w)) /\ Cardinality(Above(S, v)) \in Nat
          BY <2>3, FewerAbove
    <3>2. Cardinality(Above(S, w)) \in Nat BY <1>3, <2>3
    <3>. QED BY <2>4, <3>1, <3>2
  <2>6. Cardinality(Above(S, w)) >= n
        BY <1>1, <1>3, <2>3
  <2>7. Cardinality(N) = n
    <3>1. Cardinality(Above(S, w)) <= Cardinality(N) BY <1>2, <2>5, FS_Subset
    <3>2. Cardinality(Above(S, w)) \in Nat BY <1>3, <2>3
    <3>. QED BY <1>2, <1>4, <2>6, <3>1, <3>2
  <2>8. \A v \in N : v > u
    <3> SUFFICES ASSUME NEW v \in N, ~(v > u) PROVE FALSE
      OBVIOUS
    <3>1. v \in S /\ u \in S /\ v # u BY <1>1, <1>5
    <3>2. v < u BY <3>1
    <3>3. Cardinality(Above(S, u)) < Cardinality(Above(S, v)) BY <3>1, <3>2, FewerAbove
    <3>4. Cardinality(Above(S, v)) < n BY <1>1, <3>1
    <3>5. Cardinality(Above(S, v)) \in Nat /\ Cardinality(Above(S, u)) \in Nat BY <1>3, <3>1
    <3>6. Cardinality(Above(S, u)) < n BY <3>3, <3>4, <3>5
    <3>. QED BY <1>1, <1>5, <3>6
  <2>9. Above(N, u) = N BY <2>8 DEF Above
  <2>. QED BY <2>7, <2>9
<1>. QED BY <1>1, <1>4, <1>5 DEF N
-----------------------------------------------------------------------------
(* The inductive invariant.                                                *)

\* The tools that fetch one message, and all that read.
Fetches == {"mail_get", "mail_get_attachment"}
ReadCalls == {"doctor", "mail_list_folders", "mail_stats"} \cup Searches \cup Fetches

\* A tool is one of those there are; index, dates, days and limit are numbers.
Arguments(r) ==
    /\ r.tool \in ReadCalls \cup {"mail_confirm"}
    /\ r.tool = "mail_get_attachment" => r.index \in Int
    /\ r.tool \in Searches => r.limit \in Int
    /\ r.tool = "mail_search" => r.since \in Dates /\ r.before \in Dates
    /\ r.tool = "mail_recent" => r.days \in Int

WorldInv ==
    /\ \A u \in DOMAIN messages : messages[u] \in Message
    /\ \A r \in world.calls : Arguments(r)

\* The configuration in use was loaded and validated.
Settled == phase \notin {"start"} \cup Ends => Configured

PhaseInv == phase \in {"start"} \cup Ends => answer = NoAnswer

RequestInv ==
    pc \notin Idle \/ answer.kind = "found" => Arguments(request) /\ Accepted(request)

DayFits(t, since, before) ==
    /\ since # NoDate => Day(t) >= Day(since)
    /\ before # NoDate => Day(t) < Day(before)

InDays(u) == DayFits(messages[u].time, Query(request).since, Query(request).before)

\* What was found stays true of it, whatever is expunged later.
SearchFacts ==
    /\ Cardinality(found) <= Limit(request)
    /\ \A u \in found : InDays(u)
    /\ \A u \in present \ found : InDays(u) => Cardinality(Above(found, u)) = Limit(request)

FoundInv ==
    /\ pc \in Commands \cup {"dial"} => answer = NoAnswer
    /\ pc = "search" => request.tool \in Searches
    /\ pc = "summary" /\ request.tool \in Searches => SearchFacts
    /\ answer.kind = "found" =>
           request.tool \in Searches /\ SearchFacts /\ found \cap present \subseteq answer.uids

WInv == TypeOK /\ SessionInv /\ WorldInv /\ Settled /\ PhaseInv /\ RequestInv /\ FoundInv

\* Nothing but the arguments, the folder and the set found decides what a search has found.
LEMMA SearchFactsKept ==
    ASSUME SearchFacts, UNCHANGED <<request, cfg, messages, found>>, present' \subseteq present
    PROVE  SearchFacts'
BY DEF SearchFacts, InDays, DayFits, Query, Days, Limit, Above, Day

\* Arguments that were accepted are accepted as those of the call that is made of them.
LEMMA RequestMade ==
    ASSUME NEW r, request' = r, cfg' = cfg, Arguments(r), Accepted(r)
    PROVE  (Arguments(request) /\ Accepted(request))'
<1>1. Query(request)' = Query(r) /\ Days(request)' = Days(r) /\ Limit(request)' = Limit(r)
      BY DEF Query, Days, Limit
<1>2. QueryAccepted(r) => QueryAccepted(request)'
  <2>1. /\ ParseDate(Query(request).since)' <=> ParseDate(Query(r).since)
        /\ ParseDate(Query(request).before)' <=> ParseDate(Query(r).before)
        BY <1>1 DEF ParseDate
  <2>2. request'.tool = r.tool /\ cfg'.limits.results = cfg.limits.results
        OBVIOUS
  <2>. QED BY <1>1, <2>1, <2>2 DEF QueryAccepted
<1>3. Accepted(request)'
      BY <1>2 DEF Accepted
<1>. QED BY <1>3 DEF Arguments

\* They stay so while the settings stay.
LEMMA RequestKept ==
    ASSUME UNCHANGED <<request, cfg>>, Arguments(request) /\ Accepted(request)
    PROVE  (Arguments(request) /\ Accepted(request))'
BY RequestMade

\* What is configured does not change after Load.
LEMMA ConfiguredKept ==
    ASSUME UNCHANGED world
    PROVE  Configured' = Configured
BY DEF Configured

\* Every step of the process is a step of its session.
LEMMA SessionMoves ==
    ASSUME WInv, [Next]_vars
    PROVE  [SessionNext]_sessionVars
<1>. USE ReadAssumption
<1>1. ASSUME NEW r, Call(r) PROVE SessionNext
      BY <1>1 DEF Call, SessionNext
<1>2. ASSUME NEW s, Exit(s) PROVE SessionNext
      BY <1>2 DEF Exit, SessionNext
<1>3. ASSUME ToolsNext PROVE [SessionNext]_sessionVars
  <2>1. CASE Answered
    <3>1. AfterLogin \in Commands
          BY DEF AfterLogin
    <3>2. \A c \in Commands \cup {"cleanup"} : Reply(c) => SessionNext
          BY DEF SessionNext
    <3>. QED
      BY <2>1, <3>1, <3>2 DEF Answered, LoggedIn, Selected, Listed, Counted, Searched,
         SummariesFetched, SummaryFetched, BodyFetched, Finish
  <2>2. CASE Fail
        BY <2>2 DEF Fail, SessionNext
  <2>3. CASE Background
        BY <2>3 DEF Background, SessionNext
  <2>. QED BY <1>3, <2>1, <2>2, <2>3 DEF ToolsNext
<1>4. CASE Help \/ StartFails \/ DoctorEnds \/ StdioEnds \/ ListenFails \/ ShutdownDone \/ ShutdownTimesOut
      BY <1>2, <1>4 DEF Help, StartFails, DoctorEnds, StdioEnds, ListenFails, ShutdownDone, ShutdownTimesOut
<1>5. CASE DoctorList \/ DoctorSearch
      BY <1>1, <1>5 DEF DoctorList, DoctorSearch
<1>6. CASE \E r \in world.calls : Read(r)
      BY <1>1, <1>6 DEF Read, Refuse
<1>7. CASE Start \/ SendBegins \/ SendEnds \/ Interrupt
      BY <1>7 DEF Start, SendBegins, SendEnds, Interrupt, sessionVars
<1>8. CASE \E u \in UIDs : Expunge(u)
      BY <1>8 DEF Expunge
<1>9. CASE UNCHANGED vars
      BY <1>9 DEF vars
<1>. QED BY <1>3, <1>4, <1>5, <1>6, <1>7, <1>8, <1>9 DEF Next, Ended
-----------------------------------------------------------------------------
(* Every step keeps the invariant.                                         *)

\* The initial states satisfy the invariant.
LEMMA WInvInit ==
    ASSUME Init
    PROVE  WInv
<1>1. SessionInv
      BY SessionStarts DEF Init
<1>2. PICK w \in Worlds : /\ world = [command |-> w.command, env |-> w.env, calls |-> w.calls]
                          /\ messages = w.messages
      BY DEF Init
<1>3. WorldInv /\ DOMAIN messages \subseteq UIDs
      BY <1>2, WorldAssumption DEF WorldInv, Arguments, ReadCalls, Fetches
<1>. QED
  BY <1>1, <1>3, CommandAssumption
     DEF Init, SessionInit, WInv, TypeOK, ToolsTypeOK, SessionInv, Settled, PhaseInv, RequestInv, FoundInv,
         Idle, NoAnswer, NoRequest, Ends

\* A step leaves the world outside of the process well formed.
LEMMA WorldKept ==
    ASSUME WInv, UNCHANGED <<messages, world>>
    PROVE  WorldInv'
BY DEF WInv, WorldInv, Arguments

\* The end of the process, however it comes.
LEMMA ExitKeeps ==
    ASSUME WInv, SessionInv', NEW status \in Ends, Exit(status)
    PROVE  WInv'
<1>1. WorldInv'
      BY WorldKept DEF Exit
<1>. QED
  BY <1>1, CommandAssumption
     DEF Exit, EndSession, WInv, TypeOK, ToolsTypeOK, SessionInv, Settled, PhaseInv, RequestInv, FoundInv,
         Idle, NoAnswer, NoRequest, Ends, Doctors, Servers

\* A call starts in a process that runs.
LEMMA CallKeeps ==
    ASSUME WInv, SessionInv', Running, NEW r, Arguments(r), Call(r), UNCHANGED process
    PROVE  WInv'
<1>1. WorldInv'
      BY WorldKept DEF Call, process
<1>2. (Arguments(request) /\ Accepted(request))'
      BY RequestMade DEF Call
<1>3. Settled'
      BY ConfiguredKept DEF WInv, Settled, process
<1>4. pc' = "dial" /\ answer' = NoAnswer
      BY DEF Call, Begin
<1>5. TypeOK'
      BY <1>4, CommandAssumption, ReadAssumption
      DEF Call, Running, WInv, TypeOK, ToolsTypeOK, SessionInv, NoAnswer, Ends, process
<1>. QED
  BY <1>1, <1>2, <1>3, <1>4, <1>5, ReadAssumption, CommandAssumption
     DEF WInv, PhaseInv, RequestInv, FoundInv, NoAnswer

\* A refused call keeps the invariant.
LEMMA RefuseKeeps ==
    ASSUME WInv, SessionInv', Running, NEW r, Refuse(r), UNCHANGED process
    PROVE  WInv'
<1>1. WorldInv'
      BY WorldKept DEF Refuse, process
<1>2. Settled'
      BY ConfiguredKept DEF WInv, Settled, process
<1>3. pc' = pc /\ pc \in Idle /\ answer' = Error
      BY DEF Refuse, sessionVars
<1>4. pc \notin {"search", "summary", "body"}
      BY <1>3 DEF Idle
<1>5. TypeOK'
      BY <1>3, <1>4 DEF Refuse, Running, WInv, TypeOK, ToolsTypeOK, SessionInv, Error, process
<1>. QED
  BY <1>1, <1>2, <1>3, <1>4, <1>5, CommandAssumption
     DEF WInv, PhaseInv, RequestInv, FoundInv, Error, Running, process, Idle

\* Steps of the process that touch neither the session nor the tools.
LEMMA ProcessKeeps ==
    ASSUME WInv, SessionInv', UNCHANGED <<sessionVars, toolVars, world>>,
           signal' \in BOOLEAN, sending' \in BOOLEAN,
           \/ phase' = phase
           \/ phase \in Doctors \cup Servers /\ phase' \in {"stopping"} \cup Doctors \cup Servers
    PROVE  WInv'
<1>1. WorldInv'
      BY WorldKept DEF toolVars
<1>2. Settled'
      BY ConfiguredKept DEF WInv, Settled, Doctors, Servers, Ends
<1>3. (Arguments(request) /\ Accepted(request)) => (Arguments(request) /\ Accepted(request))'
      BY RequestKept DEF toolVars
<1>4. SearchFacts => SearchFacts'
      BY SearchFactsKept DEF toolVars
<1>5. TypeOK'
      BY DEF WInv, TypeOK, ToolsTypeOK, SessionInv, toolVars, sessionVars, Doctors, Servers, Ends
<1>. QED
  BY <1>1, <1>2, <1>3, <1>4, <1>5
     DEF WInv, PhaseInv, RequestInv, FoundInv, toolVars, sessionVars, Doctors, Servers, Ends

\* Starting a call keeps the invariant.
LEMMA StartKeeps ==
    ASSUME WInv, SessionInv', Start
    PROVE  WInv'
<1>1. WorldInv'
      BY WorldKept DEF Start
<1>2. Settled'
      BY ConfiguredKept DEF Start, Settled
<1>3. pc = "idle" /\ answer = NoAnswer /\ pc' = pc /\ answer' = answer
      BY DEF Start, sessionVars, WInv, TypeOK, PhaseInv
<1>4. TypeOK'
      BY <1>3 DEF Start, sessionVars, WInv, TypeOK, ToolsTypeOK, SessionInv, NoAnswer, Doctors, Servers, Ends
<1>. QED
  BY <1>1, <1>2, <1>3, <1>4, CommandAssumption
     DEF WInv, PhaseInv, RequestInv, FoundInv, NoAnswer, Idle

\* What is left to show of a step within a call, or of another client.
LEMMA ToolStepKeeps ==
    ASSUME WInv, SessionInv', Running, UNCHANGED <<cfg, messages, request, process>>,
           pc \notin Idle \/ (pc' = pc /\ answer' = answer),
           ToolsTypeOK', FoundInv'
    PROVE  WInv'
<1>1. WorldInv'
      BY WorldKept DEF process
<1>2. Settled'
      BY ConfiguredKept DEF WInv, Settled, process
<1>3. RequestInv'
      BY RequestKept DEF WInv, RequestInv
<1>4. TypeOK' /\ PhaseInv'
      BY DEF WInv, TypeOK, PhaseInv, Running, process
<1>. QED BY <1>1, <1>2, <1>3, <1>4 DEF WInv

\* The limit of a search that was accepted.
LEMMA LimitPositive ==
    ASSUME WInv, Running, pc = "search" \/ answer.kind = "found"
    PROVE  Limit(request) \in Nat \ {0}
<1>1. request.tool \in Searches /\ Arguments(request) /\ QueryAccepted(request)
      BY DEF WInv, FoundInv, RequestInv, Idle, Accepted
<1>2. LimitsValid(cfg.limits)
      BY DEF WInv, TypeOK, Settled, Running, Configured, Loads
<1>3. Limit(request) \in 1 .. cfg.limits.results
      BY <1>1 DEF QueryAccepted
<1>4. cfg.limits["results"] \in Lowest["results"] .. Highest["results"]
      BY <1>2 DEF LimitsValid, Limits
<1>5. Lowest["results"] \in Nat /\ Highest["results"] \in Nat
      BY SettingsAssumption DEF Limits
<1>6. cfg.limits.results \in Int
      BY <1>4, <1>5
<1>. QED BY <1>3, <1>6

\* The search keeps the newest of what is there.
LEMMA SearchedFinds ==
    ASSUME WInv, Running, pc = "search", Searched
    PROVE  SearchFacts' /\ found' \subseteq present
<1> DEFINE H == Hits(Query(request))  n == Limit(request)
<1>1. H = {u \in present : InDays(u)}
      BY DEF Hits, InDays, DayFits
<1>2. present \subseteq Nat /\ IsFiniteSet(present)
  <2>1. present \in SUBSET UIDs
        BY DEF WInv, TypeOK, ToolsTypeOK
  <2>. QED BY <2>1, ReadAssumption, FS_Subset
<1>3. IsFiniteSet(H) /\ H \subseteq Nat
  <2>1. H \in SUBSET present BY <1>1
  <2> HIDE DEF H
  <2>. QED BY <1>2, <2>1, FS_Subset
<1>4. n \in Nat \ {0}
      BY LimitPositive
<1>5. found' = Newest(H, n) /\ UNCHANGED <<request, cfg, messages, present>>
      BY DEF Searched, Finish
<1> HIDE DEF H, n
<1>6. /\ Newest(H, n) \subseteq H
      /\ Cardinality(Newest(H, n)) <= n
      /\ \A u \in H \ Newest(H, n) : Cardinality(Above(Newest(H, n), u)) = n
      BY <1>3, <1>4, NewestFacts
<1>7. n = Limit(request)'
      BY <1>5 DEF n, Limit
<1>8. \A u : InDays(u)' <=> InDays(u)
      BY <1>5 DEF InDays, DayFits, Query, Days, Day
<1>9. \A u : Above(found, u)' = Above(Newest(H, n), u)
      BY <1>5 DEF Above
<1>10. (Cardinality(found) <= Limit(request))'
      BY <1>5, <1>6, <1>7
<1>11. \A u \in found' : InDays(u)'
      BY <1>1, <1>5, <1>6, <1>8
<1>12. \A u \in present' \ found' : InDays(u)' => Cardinality(Above(found, u))' = Limit(request)'
  <2> SUFFICES ASSUME NEW u \in present' \ found', InDays(u)'
               PROVE  Cardinality(Above(found, u)') = n
    BY <1>7
  <2>1. u \in H \ Newest(H, n) BY <1>1, <1>5, <1>8
  <2>. QED BY <1>6, <1>9, <2>1
<1>. QED BY <1>1, <1>5, <1>6, <1>10, <1>11, <1>12 DEF SearchFacts

\* An answered command keeps the invariant.
LEMMA AnsweredKeeps ==
    ASSUME WInv, SessionInv', Running, Answered, UNCHANGED process
    PROVE  WInv'
<1>. USE DEF WInv, TypeOK
<1>1. SessionTypeOK'
      BY DEF SessionInv
<1>. USE CommandAssumption, ReadAssumption
<1>2. CASE LoggedIn \/ Selected \/ Listed \/ Counted
  <2>1. /\ UNCHANGED <<cfg, messages, present, request, found>>
        /\ pc \in {"login", "select", "list", "status"}
        /\ \/ pc' = AfterLogin /\ answer' = answer
           \/ pc' = (IF request.tool \in Searches THEN "search" ELSE "summary") /\ answer' = answer
           \/ pc' = "cleanup" /\ answer' = Done
        BY <1>2 DEF LoggedIn, Selected, Listed, Counted, Finish, Reply, toolVars
  <2>2. pc \notin Idle /\ Accepted(request)
        BY <2>1 DEF Idle, RequestInv
  <2>3. AfterLogin \in {"list", "status", "select"}
        BY DEF AfterLogin
  <2>4. SearchFacts => SearchFacts'
        BY <2>1, SearchFactsKept
  <2>5. pc' = "summary" => request.tool \notin Searches
        BY <2>1, <2>3
  <2>6. ToolsTypeOK'
        BY <1>1, <2>1, <2>2, <2>3 DEF ToolsTypeOK, Done, Accepted
  <2>7. FoundInv'
        BY <2>1, <2>3, <2>4, <2>5 DEF FoundInv, Done
  <2>. QED BY <2>1, <2>2, <2>6, <2>7, ToolStepKeeps
<1>3. CASE Searched
  <2>1. /\ pc = "search" /\ UNCHANGED <<cfg, messages, present, request>>
        /\ \/ pc' = "cleanup" /\ found' = {} /\ answer' = [kind |-> "found", uids |-> {}]
           \/ pc' = "summary" /\ answer' = answer
        BY <1>3 DEF Searched, Finish, Reply
  <2>2. pc \notin Idle /\ request.tool \in Searches
        BY <2>1 DEF Idle, FoundInv
  <2>3. SearchFacts' /\ found' \subseteq present
        BY <1>3, <2>1, SearchedFinds
  <2>4. answer = NoAnswer
        BY <2>1, ReadAssumption DEF FoundInv
  <2>5. ToolsTypeOK'
        BY <1>1, <2>1, <2>2, <2>3, <2>4 DEF ToolsTypeOK, Searches, NoAnswer
  <2>6. FoundInv'
        BY <2>1, <2>2, <2>3, <2>4, CommandAssumption DEF FoundInv, NoAnswer
  <2>. QED BY <2>1, <2>2, <2>5, <2>6, ToolStepKeeps
<1>4. CASE SummariesFetched
  <2>1. /\ pc = "summary" /\ request.tool \in Searches
        /\ UNCHANGED <<cfg, messages, present, request, found>>
        /\ pc' = "cleanup" /\ answer' = [kind |-> "found", uids |-> found \cap present]
        BY <1>4 DEF SummariesFetched, Finish, Reply
  <2>2. pc \notin Idle
        BY <2>1 DEF Idle
  <2>3. SearchFacts'
        BY <2>1, SearchFactsKept DEF FoundInv
  <2>4. ToolsTypeOK'
        BY <1>1, <2>1 DEF ToolsTypeOK
  <2>5. FoundInv'
        BY <2>1, <2>3 DEF FoundInv
  <2>. QED BY <2>1, <2>2, <2>4, <2>5, ToolStepKeeps
<1>5. CASE SummaryFetched \/ BodyFetched
  <2>1. /\ pc \in {"summary", "body"}
        /\ UNCHANGED <<cfg, messages, present, request, found>>
        /\ pc' \in {"body", "cleanup"}
        /\ pc' = "body" => pc = "summary" /\ answer' = answer
        /\ pc' = "cleanup" => answer'.kind \in {"error", "message", "attachment"}
    <3>1. CASE SummaryFetched
          BY <3>1 DEF SummaryFetched, Finish, Reply, toolVars, Error
    <3>2. CASE BodyFetched
      <4>1. \A parsed : MessageOf(parsed).kind = "message"
            BY DEF MessageOf
      <4>2. \A parsed, index : AttachmentOf(parsed, index).kind \in {"error", "attachment"}
            BY DEF AttachmentOf, Error
      <4>3. Error.kind = "error"
            BY DEF Error
      <4>. QED BY <3>2, <4>1, <4>2, <4>3 DEF BodyFetched, Finish, Reply
    <3>. QED BY <1>5, <3>1, <3>2
  <2>2. pc \notin Idle
        BY <2>1 DEF Idle
  <2>3. SearchFacts => SearchFacts'
        BY <2>1, SearchFactsKept
  <2>4. CASE pc' = "body"
    <3>0. pc = "summary" /\ answer' = answer /\ UNCHANGED <<messages, present, request, found>>
          BY <2>1, <2>4
    <3>1. ToolsTypeOK'
          BY <1>1, <2>4, <3>0 DEF ToolsTypeOK
    <3>2. FoundInv'
          BY <2>3, <2>4, <3>0 DEF FoundInv
    <3>. QED BY <2>1, <2>2, <3>1, <3>2, ToolStepKeeps
  <2>5. CASE pc' = "cleanup"
    <3>1. answer'.kind # "found"
          BY <2>1, <2>5
    <3>2. ToolsTypeOK'
          BY <1>1, <2>1, <2>5, <3>1 DEF ToolsTypeOK
    <3>3. FoundInv'
          BY <2>5, <3>1 DEF FoundInv
    <3>. QED BY <2>1, <2>2, <3>2, <3>3, ToolStepKeeps
  <2>. QED BY <2>1, <2>4, <2>5
<1>. QED BY <1>2, <1>3, <1>4, <1>5 DEF Answered

\* A failed command keeps the invariant.
LEMMA FailKeeps ==
    ASSUME WInv, SessionInv', Running, Fail, UNCHANGED process
    PROVE  WInv'
<1>. USE CommandAssumption, ReadAssumption DEF WInv, TypeOK
<1>1. /\ pc \in Commands \cup {"dial"} /\ pc' \in {"cleanup", "returned"} /\ answer' = Error
      /\ UNCHANGED <<cfg, messages, present, request, found>>
      BY DEF Fail, DialFails, CommandFails
<1>2. pc \notin Idle
      BY <1>1 DEF Idle
<1>3. ToolsTypeOK'
      BY <1>1 DEF ToolsTypeOK, SessionInv, Error
<1>4. FoundInv'
      BY <1>1 DEF FoundInv, Error
<1>. QED BY <1>1, <1>2, <1>3, <1>4, ToolStepKeeps

\* The steps of the watcher and of the cleanup keep the invariant.
LEMMA BackgroundKeeps ==
    ASSUME WInv, SessionInv', Running, Background, UNCHANGED process
    PROVE  WInv'
<1>. USE CommandAssumption, ReadAssumption DEF WInv, TypeOK
<1>1. UNCHANGED toolVars /\ (pc' = pc \/ (pc = "dial" /\ pc' = Connect) \/ (pc = "cleanup" /\ pc' = "returned"))
      BY DEF Background, Dialled, CtxEnds, Closing, EnterOnce, CloseConn, HandlerReturns,
             Watching, WatcherWakes, WatcherDone, WatcherEnds
<1>2. UNCHANGED <<cfg, messages, present, request, found, answer>>
      BY <1>1 DEF toolVars
<1>3. SearchFacts => SearchFacts'
      BY <1>2, SearchFactsKept
<1>4. pc \notin Idle \/ pc' = pc
      BY <1>1 DEF Idle
<1>5. CASE pc' = pc
  <2>1. ToolsTypeOK' BY <1>2, <1>5 DEF ToolsTypeOK, SessionInv
  <2>2. FoundInv' BY <1>2, <1>3, <1>5 DEF FoundInv
  <2>. QED BY <1>2, <1>5, <2>1, <2>2, ToolStepKeeps
<1>6. CASE pc = "dial" /\ pc' = Connect
  <2>1. answer = NoAnswer BY <1>6 DEF FoundInv
  <2>2. ToolsTypeOK' BY <1>2, <1>6 DEF ToolsTypeOK, SessionInv
  <2>3. FoundInv' BY <1>2, <1>6, <2>1 DEF FoundInv, NoAnswer
  <2>. QED BY <1>2, <1>4, <1>6, <2>2, <2>3, ToolStepKeeps
<1>7. CASE pc = "cleanup" /\ pc' = "returned"
  <2>1. ToolsTypeOK' BY <1>2, <1>7 DEF ToolsTypeOK, SessionInv
  <2>2. FoundInv' BY <1>2, <1>3, <1>7 DEF FoundInv
  <2>. QED BY <1>2, <1>4, <1>7, <2>1, <2>2, ToolStepKeeps
<1>. QED BY <1>1, <1>5, <1>6, <1>7

\* An expunge by another client keeps the invariant.
LEMMA ExpungeKeeps ==
    ASSUME WInv, SessionInv', Running, NEW u \in UIDs, Expunge(u), UNCHANGED process
    PROVE  WInv'
<1>1. UNCHANGED <<pc, cfg, messages, request, found, answer>> /\ present' \subseteq present
      BY DEF Expunge, sessionVars
<1>2. SearchFacts => SearchFacts'
      BY <1>1, SearchFactsKept
<1>3. ToolsTypeOK'
      BY <1>1 DEF ToolsTypeOK, SessionInv, WInv, TypeOK
<1>4. FoundInv'
      BY <1>1, <1>2 DEF FoundInv, WInv
<1>. QED BY <1>1, <1>3, <1>4, ToolStepKeeps

\* Every step keeps the invariant.
LEMMA WInvNext ==
    ASSUME WInv, [Next]_vars
    PROVE  WInv'
<1>1. SessionInv'
  <2>1. [SessionNext]_sessionVars BY SessionMoves
  <2>. QED BY <2>1, SessionStep DEF WInv
<1>2. CASE Help \/ StartFails \/ DoctorEnds \/ StdioEnds \/ ListenFails \/ ShutdownDone \/ ShutdownTimesOut
  <2>1. \E status \in Ends : Exit(status)
        BY <1>2 DEF Ends, Help, StartFails, DoctorEnds, StdioEnds, ListenFails, ShutdownDone, ShutdownTimesOut
  <2>. QED BY <1>1, <2>1, ExitKeeps
<1>3. CASE Start
      BY <1>1, <1>3, StartKeeps
<1>4. CASE DoctorList \/ DoctorSearch
  <2>1. PICK r : r \in {[tool |-> "doctor", wellFormed |-> TRUE],
                        [tool |-> "mail_search", wellFormed |-> TRUE, since |-> NoDate,
                         before |-> NoDate, limit |-> 1]}
                 /\ Call(r)
        BY <1>4 DEF DoctorList, DoctorSearch
  <2>2. Arguments(r)
        BY <2>1 DEF Arguments, Searches, Dates, ReadCalls
  <2>3. Running /\ UNCHANGED process
        BY <1>4 DEF DoctorList, DoctorSearch, Running, Doctors, Ends
  <2>. QED BY <1>1, <2>1, <2>2, <2>3, CallKeeps
<1>5. CASE \E r \in world.calls : Read(r)
  <2>1. PICK r \in world.calls : Read(r) BY <1>5
  <2>2. Arguments(r) BY <2>1 DEF WInv, WorldInv
  <2>3. Running /\ UNCHANGED process /\ (Call(r) \/ Refuse(r))
        BY <2>1 DEF Read, Running, Servers, Ends
  <2>. QED BY <1>1, <2>2, <2>3, CallKeeps, RefuseKeeps
<1>6. CASE SendBegins \/ SendEnds \/ Interrupt
  <2>1. /\ UNCHANGED <<sessionVars, toolVars, world>>
        /\ signal' \in BOOLEAN /\ sending' \in BOOLEAN
        /\ \/ phase' = phase
           \/ phase \in Doctors \cup Servers /\ phase' \in {"stopping"} \cup Doctors \cup Servers
        BY <1>6 DEF SendBegins, SendEnds, Interrupt, WInv, TypeOK
  <2>. QED BY <1>1, <2>1, ProcessKeeps
<1>7. CASE Running /\ ToolsNext /\ UNCHANGED process
      BY <1>1, <1>7, AnsweredKeeps, FailKeeps, BackgroundKeeps DEF ToolsNext
<1>8. CASE Running /\ (\E u \in UIDs : Expunge(u)) /\ UNCHANGED process
      BY <1>1, <1>8, ExpungeKeeps
<1>9. CASE UNCHANGED vars
  <2>1. UNCHANGED <<sessionVars, toolVars, world, phase>> /\ signal' \in BOOLEAN /\ sending' \in BOOLEAN
        BY <1>9 DEF vars, WInv, TypeOK
  <2>. QED BY <1>1, <2>1, ProcessKeeps
<1>. QED BY <1>2, <1>3, <1>4, <1>5, <1>6, <1>7, <1>8, <1>9 DEF Next, Ended
-----------------------------------------------------------------------------
(* Where an answer comes from.                                             *)

\* A handler waits for a command that its tool has use for.
ToolInv ==
    /\ pc \in {"dial", "login"} => request.tool \in ReadCalls
    /\ pc \in {"select", "summary"} => request.tool \in Searches \cup Fetches
    /\ pc = "body" => request.tool \in Fetches

\* What ParseRaw makes of the message that was asked for.
Here == ParseRaw(messages[request.uid].parts, cfg.limits.body, cfg.limits.attachment)

\* A message or an attachment was made of a message of the folder within the limit.
AnswerInv ==
    answer.kind \in {"message", "attachment"} =>
        /\ request.uid \in DOMAIN messages /\ messages[request.uid].raw <= cfg.limits.message
        /\ answer.kind = "message" => answer = MessageOf(Here)
        /\ answer.kind = "attachment" => request.index \in Nat /\ answer = AttachmentOf(Here, request.index)

AInv == ToolInv /\ AnswerInv

\* An answer stays what it is while request, folder and settings stay.
LEMMA AnswerKept ==
    ASSUME AnswerInv,
           \/ answer'.kind \notin {"message", "attachment"}
           \/ UNCHANGED <<request, cfg, messages, answer>>
    PROVE  AnswerInv'
<1>1. CASE answer'.kind \notin {"message", "attachment"}
      BY <1>1 DEF AnswerInv
<1>2. CASE UNCHANGED <<request, cfg, messages, answer>>
  <2>1. Here' = Here BY <1>2 DEF Here
  <2>2. (answer = MessageOf(Here))' <=> answer = MessageOf(Here)
        BY <1>2, <2>1 DEF MessageOf
  <2>3. (answer = AttachmentOf(Here, request.index))' <=> answer = AttachmentOf(Here, request.index)
        BY <1>2, <2>1 DEF AttachmentOf
  <2>. QED BY <1>2, <2>2, <2>3 DEF AnswerInv
<1>. QED BY <1>1, <1>2

\* Before the first call there is no answer.
LEMMA AInvInit ==
    ASSUME Init
    PROVE  AInv
BY DEF Init, SessionInit, AInv, ToolInv, AnswerInv, NoAnswer

\* A call starts with the arguments it was given, and without an answer.
LEMMA CallAnswer ==
    ASSUME AInv, NEW r, Arguments(r), r.tool # "mail_confirm", Call(r) \/ Refuse(r)
    PROVE  AInv'
<1>1. request' = r /\ r.tool \in ReadCalls BY DEF Call, Refuse, Arguments
<1>2. answer'.kind \notin {"message", "attachment"} BY DEF Call, Refuse, NoAnswer, Error
<1>3. pc' \in {"dial"} \cup Idle BY DEF Call, Begin, Refuse, sessionVars
<1>4. ToolInv' BY <1>1, <1>3 DEF ToolInv, Idle
<1>. QED BY <1>2, <1>4, AnswerKept DEF AInv

\* The body that was fetched is the one that is answered with.
LEMMA BodyAnswer ==
    ASSUME WInv, AInv, BodyFetched
    PROVE  AInv'
<1>1. /\ pc = "body" /\ pc' = "cleanup" /\ UNCHANGED <<cfg, messages, request>>
      /\ answer' = IF ~(Receivable(request.uid) /\ Parses(messages[request.uid].parts)) THEN Error
                   ELSE IF request.tool = "mail_get" THEN MessageOf(Here)
                   ELSE AttachmentOf(Here, request.index)
      BY DEF BodyFetched, Finish, Reply, Here
<1>2. ToolInv' BY <1>1 DEF ToolInv
<1>3. Here' = Here BY <1>1 DEF Here
<1>4. MessageOf(Here)' = MessageOf(Here) /\ AttachmentOf(Here, request.index)' = AttachmentOf(Here, request.index)
      BY <1>1, <1>3 DEF MessageOf, AttachmentOf
<1>5. CASE answer'.kind \notin {"message", "attachment"}
      BY <1>2, <1>5, AnswerKept DEF AInv
<1>6. CASE answer'.kind \in {"message", "attachment"}
  <2>1. answer' # Error BY <1>6 DEF Error
  <2>2. Receivable(request.uid) BY <1>1, <2>1
  <2>3. request.uid \in DOMAIN messages /\ messages[request.uid].raw <= cfg.limits.message
        BY <2>2 DEF Receivable, WInv, TypeOK, ToolsTypeOK
  <2>4. CASE request.tool = "mail_get"
    <3>1. answer' = MessageOf(Here) BY <1>1, <2>1, <2>4
    <3>2. answer'.kind = "message" BY <3>1 DEF MessageOf
    <3>. QED BY <1>1, <1>2, <1>4, <2>3, <3>1, <3>2 DEF AInv, AnswerInv
  <2>5. CASE request.tool # "mail_get"
    <3>1. request.tool = "mail_get_attachment" BY <1>1, <2>5 DEF AInv, ToolInv, Fetches
    <3>2. request.index \in Nat
      <4>1. pc \notin Idle BY <1>1 DEF Idle
      <4>2. Arguments(request) /\ Accepted(request) BY <4>1 DEF WInv, RequestInv
      <4>3. request.index \in Int /\ request.index >= 0 BY <3>1, <4>2 DEF Arguments, Accepted
      <4>. QED BY <4>3
    <3>3. answer' = AttachmentOf(Here, request.index) BY <1>1, <2>1, <2>5
    <3>4. answer'.kind = "attachment" BY <2>1, <3>3 DEF AttachmentOf
    <3>. QED BY <1>1, <1>2, <1>4, <2>3, <3>2, <3>3, <3>4 DEF AInv, AnswerInv
  <2>. QED BY <2>4, <2>5
<1>. QED BY <1>5, <1>6

\* The other answers of the server lead a tool only to commands it has use for.
LEMMA StepAnswer ==
    ASSUME WInv, AInv, Answered
    PROVE  AInv'
<1>1. CASE LoggedIn
  <2>1. pc = "login" /\ pc' = AfterLogin /\ UNCHANGED <<request, cfg, messages, answer>>
        BY <1>1 DEF LoggedIn, Reply, toolVars
  <2>2. pc' = "select" => request.tool \in Searches \cup Fetches
        BY <2>1 DEF AInv, ToolInv, ReadCalls, AfterLogin
  <2>3. pc' \in {"list", "status", "select"} BY <2>1 DEF AfterLogin
  <2>4. ToolInv' BY <2>1, <2>2, <2>3 DEF ToolInv
  <2>. QED BY <2>1, <2>4, AnswerKept DEF AInv
<1>2. CASE Selected
  <2>1. /\ pc = "select" /\ pc' \in {"search", "summary"}
        /\ UNCHANGED <<request, cfg, messages, answer>>
        BY <1>2 DEF Selected, Reply, toolVars
  <2>2. ToolInv' BY <2>1 DEF AInv, ToolInv
  <2>. QED BY <2>1, <2>2, AnswerKept DEF AInv
<1>3. CASE Listed \/ Counted \/ SummariesFetched
  <2>1. pc' = "cleanup" /\ answer'.kind \in {"done", "found"}
        BY <1>3 DEF Listed, Counted, SummariesFetched, Finish, Reply, Done
  <2>2. ToolInv' BY <2>1 DEF ToolInv
  <2>. QED BY <2>1, <2>2, AnswerKept DEF AInv
<1>4. CASE Searched
  <2>1. /\ pc = "search" /\ pc' \in {"summary", "cleanup"} /\ request' = request
        /\ \/ answer'.kind = "found"
           \/ UNCHANGED <<request, cfg, messages, answer>>
        BY <1>4 DEF Searched, Finish, Reply
  <2>2. request.tool \in Searches BY <2>1 DEF WInv, FoundInv
  <2>3. ToolInv' BY <2>1, <2>2 DEF ToolInv
  <2>. QED BY <2>1, <2>3, AnswerKept DEF AInv
<1>5. CASE SummaryFetched
  <2>1. /\ pc = "summary" /\ request.tool \notin Searches /\ pc' \in {"body", "cleanup"}
        /\ request' = request
        /\ answer' = Error \/ UNCHANGED <<request, cfg, messages, answer>>
        BY <1>5 DEF SummaryFetched, Finish, Reply, toolVars
  <2>2. ToolInv' BY <2>1 DEF AInv, ToolInv
  <2>. QED BY <2>1, <2>2, AnswerKept DEF AInv, Error
<1>6. CASE BodyFetched
      BY <1>6, BodyAnswer
<1>. QED BY <1>1, <1>2, <1>3, <1>4, <1>5, <1>6 DEF Answered

\* Every step keeps the origin of the answer.
LEMMA AInvNext ==
    ASSUME WInv, AInv, [Next]_vars
    PROVE  AInv'
<1>1. CASE Help \/ StartFails \/ DoctorEnds \/ StdioEnds \/ ListenFails \/ ShutdownDone \/ ShutdownTimesOut
  <2>1. \E status \in Ends : Exit(status)
        BY <1>1 DEF Ends, Help, StartFails, DoctorEnds, StdioEnds, ListenFails, ShutdownDone, ShutdownTimesOut
  <2>2. pc' = "idle" /\ answer'.kind = "none" BY <2>1 DEF Exit, EndSession, NoAnswer
  <2>3. ToolInv' BY <2>2 DEF ToolInv
  <2>. QED BY <2>2, <2>3, AnswerKept DEF AInv
<1>2. CASE Start
  <2>1. pc' = "idle" /\ answer' = NoAnswer
        BY <1>2 DEF Start, sessionVars, WInv, TypeOK, PhaseInv
  <2>2. ToolInv' BY <2>1 DEF ToolInv
  <2>. QED BY <2>1, <2>2, AnswerKept DEF AInv, NoAnswer
<1>3. CASE DoctorList \/ DoctorSearch
  <2>1. PICK r : r \in {[tool |-> "doctor", wellFormed |-> TRUE],
                        [tool |-> "mail_search", wellFormed |-> TRUE, since |-> NoDate,
                         before |-> NoDate, limit |-> 1]}
                 /\ Call(r)
        BY <1>3 DEF DoctorList, DoctorSearch
  <2>2. Arguments(r) /\ r.tool # "mail_confirm"
        BY <2>1 DEF Arguments, Searches, Dates, ReadCalls
  <2>. QED BY <2>1, <2>2, CallAnswer
<1>4. CASE \E r \in world.calls : Read(r)
  <2>1. PICK r \in world.calls : Read(r) BY <1>4
  <2>2. Arguments(r) BY <2>1 DEF WInv, WorldInv
  <2>. QED BY <2>1, <2>2, CallAnswer DEF Read
<1>5. CASE ToolsNext
  <2>1. CASE Answered BY <2>1, StepAnswer
  <2>2. CASE Fail
    <3>1. pc' \in {"cleanup", "returned"} /\ answer'.kind = "error"
          BY <2>2 DEF Fail, DialFails, CommandFails, Error
    <3>2. ToolInv' BY <3>1 DEF ToolInv
    <3>. QED BY <3>1, <3>2, AnswerKept DEF AInv
  <2>3. CASE Background
    <3>1. /\ UNCHANGED toolVars
          /\ pc' = pc \/ (pc = "dial" /\ pc' = "login") \/ (pc = "cleanup" /\ pc' = "returned")
          BY <2>3, ReadAssumption
             DEF Background, Dialled, CtxEnds, Closing, EnterOnce, CloseConn, HandlerReturns,
                 Watching, WatcherWakes, WatcherDone, WatcherEnds
    <3>2. UNCHANGED <<request, cfg, messages, answer>> BY <3>1 DEF toolVars
    <3>3. ToolInv' BY <3>1, <3>2 DEF AInv, ToolInv
    <3>. QED BY <3>2, <3>3, AnswerKept DEF AInv
  <2>. QED BY <1>5, <2>1, <2>2, <2>3 DEF ToolsNext
<1>6. CASE \/ SendBegins \/ SendEnds \/ Interrupt \/ (\E u \in UIDs : Expunge(u)) \/ UNCHANGED vars
  <2>1. pc' = pc /\ UNCHANGED <<request, cfg, messages, answer>>
        BY <1>6 DEF SendBegins, SendEnds, Interrupt, Expunge, vars, sessionVars, toolVars
  <2>2. ToolInv' BY <2>1 DEF AInv, ToolInv
  <2>. QED BY <2>1, <2>2, AnswerKept DEF AInv
<1>. QED BY <1>1, <1>2, <1>3, <1>4, <1>5, <1>6 DEF Next, Ended

\* What follows from both invariants holds throughout.
LEMMA BothInvariants == Spec => [](WInv /\ AInv)
<1>1. Init => WInv /\ AInv BY WInvInit, AInvInit
<1>2. WInv /\ AInv /\ [Next]_vars => (WInv /\ AInv)' BY WInvNext, AInvNext
<1>. QED BY <1>1, <1>2, PTL DEF Spec

\* A message that is answered with: its parts, and limits that are numbers.
LEMMA AnswerFacts ==
    ASSUME WInv, AInv, answer.kind \in {"message", "attachment"}
    PROVE  /\ messages[request.uid].raw <= cfg.limits.message
           /\ messages[request.uid].parts \in Seq(Part)
           /\ cfg.limits.body \in Nat /\ cfg.limits.attachment \in Nat
<1>1. request.uid \in DOMAIN messages /\ messages[request.uid].raw <= cfg.limits.message
      BY DEF AInv, AnswerInv
<1>2. messages[request.uid] \in Message BY <1>1 DEF WInv, WorldInv
<1>3. phase \notin {"start"} \cup Ends BY DEF WInv, PhaseInv, NoAnswer
<1>4. LimitsValid(cfg.limits) BY <1>3 DEF WInv, TypeOK, Settled, Configured, Loads
<1>5. \A n \in {"body", "attachment"} :
          cfg.limits[n] \in Lowest[n] .. Highest[n] /\ Lowest[n] \in Nat /\ Highest[n] \in Nat
      BY <1>4, SettingsAssumption DEF LimitsValid, Limits
<1>6. \A n \in {"body", "attachment"} : cfg.limits[n] \in Nat BY <1>5
<1>7. messages[request.uid].parts \in Seq(Part) BY <1>2 DEF Message
<1>. QED BY <1>1, <1>6, <1>7

\* The first n of a list are a start of it.
LEMMA ClipIsPrefix ==
    ASSUME NEW s \in Seq(Byte), NEW n \in Nat
    PROVE  /\ Len(Clip(s, n)) <= n /\ IsPrefix(Clip(s, n), s)
           /\ ~(Len(s) > n) => Clip(s, n) = s
<1> DEFINE c == Clip(s, n)
<1>1. /\ c \in Seq(Byte) /\ Len(c) = (IF n < Len(s) THEN n ELSE Len(s))
      /\ \A k \in 1 .. Len(c) : c[k] = s[k]
      /\ Len(s) <= n => c = s
      BY Clipped
<1> HIDE DEF c
<1>2. Len(c) <= n /\ Len(c) <= Len(s) /\ Len(c) \in Nat /\ Len(s) \in Nat BY <1>1
<1>3. SubSeq(s, 1, Len(c)) = SubSeq(c, 1, Len(c))
  <2> DEFINE a == SubSeq(s, 1, Len(c))  b == SubSeq(c, 1, Len(c))
  <2>1. a \in Seq(Byte) /\ Len(a) = Len(c) /\ \A k \in 1 .. Len(c) : a[k] = s[k] BY <1>2
  <2>2. b \in Seq(Byte) /\ Len(b) = Len(c) /\ \A k \in 1 .. Len(c) : b[k] = c[k] BY <1>1, <1>2
  <2> HIDE DEF a, b
  <2>3. a = b BY <1>1, <2>1, <2>2, SameList
  <2>. QED BY <2>3 DEF a, b
<1>4. IsPrefix(c, s) BY <1>2, <1>3 DEF IsPrefix
<1>5. ~(Len(s) > n) => c = s BY <1>1, <1>2
<1>. QED BY <1>2, <1>4, <1>5 DEF c
-----------------------------------------------------------------------------
(* The theorems.                                                           *)

\* The settings left out for SMTP come from those that IMAP must have, the sender from one
\* of those that were given (Load, Validate*).
LEMMA DefaultsSuffice ==
    ASSUME NEW env, Loads(env), ValidateIMAP(Load(env))
    PROVE  /\ LimitsValid(Load(env).limits)
           /\ Senders(env) \subseteq Addresses => SendAccepts(Load(env))
<1>1. LimitsValid(Load(env).limits)
      BY DEF Loads
<1>2. Load(env).limits["smtpPort"] \in Port
      BY <1>1 DEF LimitsValid
<1>3. Unset \notin {Load(env).smtp.host, Load(env).smtp.user, Load(env).smtp.password, Load(env).smtp.from}
      BY DEF Load, Smtp, ValidateIMAP, OrElse
<1>4. ValidateSMTP(Load(env)) BY <1>2, <1>3 DEF ValidateSMTP
<1>5. Load(env).smtp.from \in Senders(env)
      BY <1>3 DEF Load, Smtp, OrElse, Senders
<1>. QED BY <1>1, <1>4, <1>5 DEF SendAccepts

\* What is asked for, before days are rounded down.
Whole(date) == date # NoDate => date % 2 = 0
TimeFits(t, since, before) ==
    /\ since # NoDate => t >= since
    /\ before # NoDate => t < before

\* A whole day keeps its messages and no others, an upper bound within a day does not.
LEMMA WholeDays ==
    ASSUME NEW t \in Nat, NEW since, NEW before, Whole(before),
           since # NoDate => since \in Int, before # NoDate => before \in Int
    PROVE  /\ Whole(since) /\ DayFits(t, since, before) => TimeFits(t, since, before)
           /\ TimeFits(t, since, before) => DayFits(t, since, before)
<1>1. ASSUME since # NoDate
      PROVE  /\ Whole(since) /\ Day(t) >= Day(since) => t >= since
             /\ t >= since => Day(t) >= Day(since)
  <2>1. since \in Int BY <1>1
  <2>2. t >= since => t \div 2 >= since \div 2 BY <2>1
  <2>3. since % 2 = 0 /\ t \div 2 >= since \div 2 => t >= since BY <2>1
  <2>. QED BY <1>1, <2>2, <2>3 DEF Whole, Day
<1>2. ASSUME before # NoDate
      PROVE  Day(t) < Day(before) <=> t < before
  <2>1. before \in Int /\ before % 2 = 0 BY <1>2 DEF Whole
  <2>2. t \div 2 < before \div 2 <=> t < before BY <2>1
  <2>. QED BY <2>2 DEF Day
<1>. QED BY <1>1, <1>2, Zenon DEF DayFits, TimeFits

\* An answered search has asked for days that are integers or not given.
LEMMA QueryDates ==
    ASSUME WInv, answer.kind = "found"
    PROVE  LET q == Query(request)
           IN  /\ q.since # NoDate => q.since \in Int
               /\ q.before # NoDate => q.before \in Int
<1>1. request.tool \in Searches /\ Arguments(request) /\ QueryAccepted(request)
      BY DEF WInv, FoundInv, RequestInv, Accepted
<1>2. CASE request.tool = "mail_recent"
  <2> DEFINE d == Days(request)
  <2>1. d \in 1 .. 3650 BY <1>1, <1>2 DEF QueryAccepted
  <2>2. Query(request).since = Now - 2 * d /\ Query(request).before = NoDate
        BY <1>2 DEF Query
  <2> HIDE DEF d
  <2>3. Now - 2 * d \in Int BY <2>1, ReadAssumption
  <2>. QED BY <2>2, <2>3
<1>3. CASE request.tool = "mail_search"
  <2>1. request.since \in Dates /\ request.before \in Dates BY <1>1, <1>3 DEF Arguments
  <2>2. request.since # BadDate /\ request.before # BadDate
        BY <1>1, <1>3 DEF QueryAccepted, ParseDate, Query
  <2>. QED BY <1>3, <2>1, <2>2 DEF Query, Dates
<1>. QED BY <1>1, <1>2, <1>3 DEF Searches

\* The uids that a finished search keeps are the newest of its matches.
LEMMA SearchNewestHolds ==
    ASSUME WInv
    PROVE  SearchNewest
<1> SUFFICES ASSUME answer.kind = "found" PROVE SearchNewest
  BY DEF SearchNewest
<1> DEFINE since == Query(request).since
           before == Query(request).before
           InRange(u) == TimeFits(messages[u].time, since, before)
<1>1. /\ SearchFacts /\ answer.uids \subseteq found /\ found \cap present \subseteq answer.uids
      /\ present \subseteq DOMAIN messages /\ found \subseteq DOMAIN messages
      /\ found \in SUBSET UIDs
      BY DEF WInv, TypeOK, ToolsTypeOK, FoundInv
<1>2. /\ since # NoDate => since \in Int
      /\ before # NoDate => before \in Int
      BY QueryDates
<1>3. \A u \in DOMAIN messages : messages[u].time \in Nat
      BY DEF WInv, WorldInv, Message
<1>4. Cardinality(answer.uids) <= Limit(request)
  <2>1. IsFiniteSet(found) BY <1>1, ReadAssumption, FS_Subset
  <2>2. answer.uids \in SUBSET found BY <1>1
  <2>3. Cardinality(answer.uids) <= Cardinality(found) BY <2>1, <2>2, FS_Subset
  <2>4. IsFiniteSet(answer.uids) BY <2>1, <2>2, FS_Subset
  <2>5. Cardinality(answer.uids) \in Nat /\ Cardinality(found) \in Nat
        BY <2>1, <2>4, FS_CardinalityType
  <2>6. Running BY DEF WInv, PhaseInv, NoAnswer, Running
  <2>7. Limit(request) \in Nat \ {0} BY <2>6, LimitPositive
  <2>8. Cardinality(found) <= Limit(request) BY <1>1 DEF SearchFacts
  <2>. QED BY <2>3, <2>5, <2>7, <2>8
<1>5. \A u : InDays(u) <=> DayFits(messages[u].time, since, before)
      BY DEF InDays
<1>6. ASSUME NEW u \in DOMAIN messages, Whole(before)
      PROVE  /\ Whole(since) /\ InDays(u) => InRange(u)
             /\ InRange(u) => InDays(u)
  <2> DEFINE t == messages[u].time
  <2>1. t \in Nat BY <1>3
  <2>2. InDays(u) <=> DayFits(t, since, before) BY <1>5
  <2> HIDE DEF t, since, before
  <2>3. /\ Whole(since) /\ DayFits(t, since, before) => TimeFits(t, since, before)
        /\ TimeFits(t, since, before) => DayFits(t, since, before)
        BY <1>2, <1>6, <2>1, WholeDays
  <2>. QED BY <2>2, <2>3 DEF t
<1> HIDE DEF InRange
<1>7. ASSUME Whole(since), Whole(before), NEW u \in answer.uids PROVE InRange(u)
      BY <1>1, <1>6, <1>7 DEF SearchFacts
<1>8. ASSUME Whole(before), NEW u \in present \ answer.uids, InRange(u)
      PROVE  Cardinality(Above(found, u)) = Limit(request)
  <2>1. u \in present \ found /\ InDays(u) BY <1>1, <1>6, <1>8
  <2>. QED BY <1>1, <2>1 DEF SearchFacts
<1>. QED BY <1>4, <1>7, <1>8 DEF SearchNewest, Above, InRange, TimeFits, Whole

\* The bodies of a message that is answered with.
LEMMA BodiesAsSentHolds ==
    ASSUME WInv, AInv
    PROVE  BodiesAsSent
<1> SUFFICES ASSUME answer.kind = "message" PROVE BodiesAsSent
  BY DEF BodiesAsSent
<1> DEFINE m == messages[request.uid]
           parts == m.parts
           limit == cfg.limits.body
           out == ParseRaw(parts, limit, cfg.limits.attachment)
           n == Len(parts)
           text == Sent(parts, "text/plain")
           html == Sent(parts, "text/html")
<1>1. m.raw <= cfg.limits.message /\ parts \in Seq(Part) /\ limit \in Nat /\ cfg.limits.attachment \in Nat
      BY AnswerFacts
<1>2. n \in Nat /\ parts \in [1 .. n -> Part] BY <1>1
<1>3. answer = MessageOf(Here) /\ Here = out BY DEF AInv, AnswerInv, Here
<1>4. answer.text = out.text /\ answer.html = out.html /\ answer.truncated = out.truncated
      BY <1>3 DEF MessageOf
<1> HIDE DEF out, n, parts, limit
<1>5. out = ParseRaw(parts, limit, cfg.limits.attachment) BY DEF out
<1>6. \A type \in BodyTypes :
          /\ Sent(parts, type) \in Seq(Byte) /\ BodyOf(out, type) = Clip(Sent(parts, type), limit)
          /\ Len(Sent(parts, type)) > limit => out.truncated
      BY <1>1, <1>2, <1>5, ParsedBody
<1>7. /\ text \in Seq(Byte) /\ out.text = Clip(text, limit) /\ (Len(text) > limit => out.truncated)
      /\ html \in Seq(Byte) /\ out.html = Clip(html, limit) /\ (Len(html) > limit => out.truncated)
      BY <1>6 DEF BodyTypes, BodyOf
<1> HIDE DEF text, html
<1>8. /\ Len(out.text) <= limit /\ IsPrefix(out.text, text) /\ (~out.truncated => out.text = text)
      /\ Len(out.html) <= limit /\ IsPrefix(out.html, html) /\ (~out.truncated => out.html = html)
      BY <1>1, <1>7, ClipIsPrefix
<1>. QED BY <1>1, <1>4, <1>8 DEF BodiesAsSent, text, html, parts, limit

\* The attachments that are listed and fetched.
LEMMA IndexNamesAttachmentHolds ==
    ASSUME WInv, AInv
    PROVE  IndexNamesAttachment
<1> SUFFICES ASSUME answer.kind \in {"message", "attachment"} PROVE IndexNamesAttachment
  BY DEF IndexNamesAttachment
<1> DEFINE parts == messages[request.uid].parts
           limit == cfg.limits.attachment
           list == ParseRaw(parts, cfg.limits.body, limit).attachments
           att == Attached(parts)
           n == Len(parts)
           p(k) == parts[att[k]]
<1>1. parts \in Seq(Part) /\ limit \in Nat /\ cfg.limits.body \in Nat BY AnswerFacts
<1>2. n \in Nat /\ parts \in [1 .. n -> Part] BY <1>1
<1>3. list = Here.attachments BY DEF Here
<1> HIDE DEF parts, limit, n
<1>4. /\ list \in Seq(ListedFile) /\ att \in Seq(1 .. n) /\ Len(list) = Len(att)
      /\ \A k \in 1 .. Len(att) : list[k] = Entry(k, att[k], parts[att[k]], limit)
  <2>1. ListsAll(list, n, parts, limit) BY <1>1, <1>2, ParsedAttachments
  <2>. QED BY Zenon, <2>1 DEF ListsAll
<1> HIDE DEF list, att
<1>5. /\ DOMAIN list = 1 .. Len(att) /\ DOMAIN att = 1 .. Len(att) /\ Len(att) \in Nat
      /\ \A k \in 1 .. Len(att) : list[k] = Entry(k, att[k], p(k), limit)
      BY <1>4
<1>6. \A k \in 1 .. Len(att) :
          /\ list[k].index = k - 1 /\ list[k].size = p(k).len
          /\ list[k].tooLarge = (p(k).len > limit)
          /\ list[k].data = IF p(k).len > limit THEN << >> ELSE Content(att[k], p(k))
      BY <1>5 DEF Entry
<1>7. ASSUME answer.kind = "message"
      PROVE  answer.attachments =
                 [k \in DOMAIN att |-> [index |-> k - 1, size |-> p(k).len, tooLarge |-> p(k).len > limit]]
  <2>1. answer = MessageOf(Here) BY <1>7 DEF AInv, AnswerInv
  <2>2. answer.attachments = Metadata(list) BY <1>3, <2>1 DEF MessageOf
  <2>3. Metadata(list) = [k \in DOMAIN att |-> [index |-> list[k].index, size |-> list[k].size,
                                                tooLarge |-> list[k].tooLarge]]
        BY <1>5 DEF Metadata
  <2>4. \A k \in DOMAIN att :
            [index |-> list[k].index, size |-> list[k].size, tooLarge |-> list[k].tooLarge]
                = [index |-> k - 1, size |-> p(k).len, tooLarge |-> p(k).len > limit]
        BY <1>5, <1>6
  <2>. QED BY <2>2, <2>3, <2>4
<1>8. ASSUME answer.kind = "attachment"
      PROVE  /\ answer.index = request.index /\ answer.index + 1 \in DOMAIN att
             /\ p(answer.index + 1).len <= limit
             /\ answer.data = Content(att[answer.index + 1], p(answer.index + 1))
  <2> DEFINE i == request.index
  <2>1. i \in Nat /\ answer = AttachmentOf(Here, i) BY <1>8 DEF AInv, AnswerInv
  <2>2. answer # Error BY <1>8 DEF Error
  <2>3. /\ ~(i >= Len(list)) /\ ~list[i + 1].tooLarge
        /\ answer = [kind |-> "attachment", index |-> list[i + 1].index, data |-> list[i + 1].data]
        BY <1>3, <2>1, <2>2 DEF AttachmentOf
  <2>4. i + 1 \in 1 .. Len(att) BY <1>4, <1>5, <2>1, <2>3
  <2>5. (i + 1) - 1 = i BY <2>1
  <2> HIDE DEF i, p
  <2>6. answer.index = i /\ answer.data = Content(att[i + 1], p(i + 1)) /\ ~(p(i + 1).len > limit)
        BY <1>6, <2>3, <2>4, <2>5
  <2>7. p(i + 1).len \in Nat
    <3>1. att[i + 1] \in 1 .. n
      <4> DEFINE R == 1 .. n
      <4>1. att \in Seq(R) BY <1>4
      <4> HIDE DEF R
      <4>2. att[i + 1] \in R BY <2>4, <4>1
      <4>. QED BY <4>2 DEF R
    <3>2. p(i + 1) \in Part BY <1>2, <3>1 DEF p
    <3>. QED BY <3>2 DEF Part
  <2>. QED BY <1>1, <1>5, <2>4, <2>6, <2>7 DEF i
<1>. QED BY <1>7, <1>8 DEF IndexNamesAttachment, att, parts, limit

\* A session on its own: a call that has returned has no connection open, whichever of
\* handler and watcher closed it, and the invariant that makes it so holds throughout.
THEOREM SessionClosesConnection == SessionSpec => [](SessionInv /\ NoConnectionLeft)
<1>1. SessionInit => SessionInv
      BY SessionStarts
<1>2. SessionInv /\ [SessionNext]_sessionVars => SessionInv'
      BY SessionStep
<1>3. SessionInv => NoConnectionLeft
      BY DEF SessionInv
<1>. QED BY <1>1, <1>2, <1>3, PTL DEF SessionSpec

\* Whatever the tools, the commands of the process and other clients do, every behaviour of
\* the process is a behaviour of the session alone: reads open, use and close their
\* connection in no other way than connect and its cleanup provide for.
THEOREM ReadsAreSessions == Spec => SessionSpec
<1>1. Init => WInv BY WInvInit
<1>2. WInv /\ [Next]_vars => WInv' BY WInvNext
<1>3. Init => SessionInit BY DEF Init
<1>4. WInv /\ [Next]_vars => [SessionNext]_sessionVars BY SessionMoves
<1>. QED BY <1>1, <1>2, <1>3, <1>4, PTL DEF Spec, SessionSpec

\* For any worlds: every reachable state of the process is well typed, and a command runs on
\* the configuration that Load made.
THEOREM WorkmailTypes == Spec => []TypeOK
<1>1. Init => WInv BY WInvInit
<1>2. WInv /\ [Next]_vars => WInv' BY WInvNext
<1>3. WInv => TypeOK BY DEF WInv
<1>. QED BY <1>1, <1>2, <1>3, PTL DEF Spec

\* For any worlds: no call returns with its connection open, and none is left between
\* calls, by the tools of a server or by doctor.
THEOREM ConnectionsClosed == Spec => []NoConnectionLeft
<1>1. Init => WInv BY WInvInit
<1>2. WInv /\ [Next]_vars => WInv' BY WInvNext
<1>3. WInv => NoConnectionLeft BY DEF WInv, SessionInv
<1>. QED BY <1>1, <1>2, <1>3, PTL DEF Spec

\* For any environment: a server that has started has its limits in range, and settings
\* that a send accepts if the user names and the sender given are addresses (config.Load,
\* ValidateIMAP, ValidateSMTP, buildSendBytes).
THEOREM SettingsSuffice == Spec => []SendSettingsSuffice
<1>1. Init => WInv BY WInvInit
<1>2. WInv /\ [Next]_vars => WInv' BY WInvNext
<1>3. WInv => SendSettingsSuffice
  <2> SUFFICES ASSUME WInv, phase \in Servers \cup {"stopping"}
               PROVE  /\ LimitsValid(cfg.limits)
                      /\ Senders(world.env) \subseteq Addresses => SendAccepts(cfg)
    BY DEF SendSettingsSuffice
  <2>1. cfg = Load(world.env) /\ Configured
        BY DEF WInv, TypeOK, Settled, Servers, Ends
  <2>. QED BY <2>1, DefaultsSuffice DEF Configured
<1>. QED BY <1>1, <1>2, <1>3, PTL DEF Spec

\* For folders, limits and dates of any size: a search returns the newest of what matches,
\* no more than the limit, and leaves out nothing else that is still there (Backend.Search).
THEOREM SearchesNewest == Spec => []SearchNewest
<1>1. Init => WInv BY WInvInit
<1>2. WInv /\ [Next]_vars => WInv' BY WInvNext
<1>3. WInv => SearchNewest BY SearchNewestHolds
<1>. QED BY <1>1, <1>2, <1>3, PTL DEF Spec
\* For any parts and limits: mail_get gives the first bytes, up to the limit, of the text and
\* of the HTML that were sent, and what it does not mark as truncated is complete
\* (mail.ParseRaw, Backend.GetMessage).
THEOREM BodiesReturnedAsSent == Spec => []BodiesAsSent
<1>1. WInv /\ AInv => BodiesAsSent BY BodiesAsSentHolds
<1>. QED BY <1>1, BothInvariants, PTL

\* For any parts and limits: an index of mail_get is the attachment that
\* mail_get_attachment gives for it, whatever attachments are too large
\* (mail.ParseRaw, AttachmentMetadata, Backend.GetAttachment).
THEOREM IndexesNameAttachments == Spec => []IndexNamesAttachment
<1>1. WInv /\ AInv => IndexNamesAttachment BY IndexNamesAttachmentHolds
<1>. QED BY <1>1, BothInvariants, PTL
=============================================================================
