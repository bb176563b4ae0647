--------------------------- MODULE ImapWriteProofs ---------------------------
(***************************************************************************)
(* Proofs about ImapWrite, for any number of operations, folders, messages *)
(* and UIDs, any server and any other clients.                             *)
(*                                                                         *)
(* A message is safe while the latest of the copies that were made without *)
(* a mark has none now (LatestSafe).  The only step of an operation that   *)
(* could mark it is the STORE of a move; but the move has copied before,   *)
(* and if its copy has a mark from the start then so had the source, which *)
(* is thus not the latest either (CopiedFirst).  The order of UIDs is what *)
(* makes this inductive: of two moves that both rely on a copy, one may    *)
(* mark the copy the other relies on, but its own copy is later still.     *)
(* Marks that others take off do not matter, since only copies made        *)
(* without one are counted on.                                             *)
(***************************************************************************)
EXTENDS ImapWrite, FiniteSetTheorems, WellFoundedInduction, TLAPS

Mailboxes == [UIDs -> Copies \cup {Unborn, Gone}]
FlagSets(S) == SUBSET S

-----------------------------------------------------------------------------
(* The server's commands, UID by UID.                                      *)

\* Every non-empty set of naturals has a least element.
LEMMA SmallestElement ==
    ASSUME NEW S \in SUBSET Nat, S # {}
    PROVE  \E x \in S : \A y \in S : x <= y
  <1> DEFINE R == OpToRel(<, Nat)
  <1>1. IsWellFoundedOn(R, Nat) BY NatLessThanWellFounded
  <1>2. \A a, b \in Nat : a < b => <<a, b>> \in R BY Zenon DEF OpToRel
  <1> HIDE DEF R
  <1>3. PICK x \in S : \A y \in S : <<y, x>> \notin R
    BY <1>1, WFMin
  <1>4. ASSUME NEW y \in S PROVE x <= y
    <2>1. ~(y < x) BY Zenon, <1>2, <1>3
    <2>2. x \in Nat /\ y \in Nat OBVIOUS
    <2>3. QED BY <2>1, <2>2
  <1>5. QED BY <1>4

\* While there is room, NextUID is a UID not given out, later than all that were.
LEMMA NextUIDFacts ==
    ASSUME NEW m \in Mailboxes, Ascending(m), \E u \in UIDs : m[u] = Unborn
    PROVE  /\ NextUID(m) \in UIDs
           /\ m[NextUID(m)] = Unborn
           /\ \A u \in UIDs : m[u] # Unborn => u < NextUID(m)
           /\ \A u \in UIDs : m[u] = Unborn => NextUID(m) <= u
  <1> DEFINE P(u) == m[u] = Unborn /\ \A v \in UIDs : m[v] = Unborn => u <= v
             S == {u \in UIDs : m[u] = Unborn}
  <1>1. UIDs \subseteq Nat BY MailboxAssumption DEF UIDs
  <1>2. \E u \in UIDs : P(u)
    <2>1. S \in SUBSET Nat /\ S # {} BY <1>1
    <2>2. PICK x \in S : \A y \in S : x <= y
      <3> HIDE DEF S
      <3> QED BY <2>1, SmallestElement
    <2>3. QED BY <2>2
  <1>3. NextUID(m) \in UIDs /\ P(NextUID(m))
    BY <1>2, Zenon DEF NextUID
  <1>4. ASSUME NEW u \in UIDs, m[u] # Unborn PROVE u < NextUID(m)
    <2> DEFINE n == NextUID(m)
    <2>1. n \in UIDs /\ m[n] = Unborn BY <1>3
    <2> HIDE DEF n
    <2>2. u \in Nat /\ n \in Nat BY <1>1, <2>1
    <2>3. ~(n < u) BY <1>4, <2>1 DEF Ascending
    <2>4. n # u BY <1>4, <2>1
    <2>5. u < n BY <2>2, <2>3, <2>4
    <2>6. QED BY <2>5 DEF n
  <1>5. QED BY <1>3, <1>4

\* A record of Copies with one field replaced.
LEMMA CopyFacts ==
    ASSUME NEW c \in Copies
    PROVE  /\ c \notin {Unborn, Gone}
           /\ c.folder \in Folders /\ c.msg \in Msgs /\ c.flags \in SUBSET Flags
           /\ \A d \in Folders :
                 /\ [c EXCEPT !.folder = d] \in Copies
                 /\ [c EXCEPT !.folder = d].folder = d
                 /\ [c EXCEPT !.folder = d].msg = c.msg
                 /\ [c EXCEPT !.folder = d].flags = c.flags
           /\ \A F \in SUBSET Flags :
                 /\ [c EXCEPT !.flags = F] \in Copies
                 /\ [c EXCEPT !.flags = F].folder = c.folder
                 /\ [c EXCEPT !.flags = F].msg = c.msg
                 /\ [c EXCEPT !.flags = F].flags = F
  BY MarkerAssumption DEF Copies

\* The copy u of folder f, if it is there, has its flags and F; or those but F.
HasGained(m, m2, f, u, F) ==
    Here(m2, f, u) => Here(m, f, u) /\ m2[u].flags = m[u].flags \cup F

HasLost(m, m2, f, u, F) ==
    Here(m2, f, u) => Here(m, f, u) /\ m2[u].flags = m[u].flags \ F

\* What no command does: it takes no UID back, and a copy that is still there stands
\* for the same message in the same folder.
Keeps(m, m2) ==
    \A u \in UIDs : m[u] # Unborn =>
        /\ m2[u] # Unborn
        /\ Exists(m2, u) =>
              /\ Exists(m, u)
              /\ m2[u].folder = m[u].folder
              /\ m2[u].msg = m[u].msg

Effect(m, m2) == m2 \in Mailboxes /\ Ascending(m2) /\ Keeps(m, m2)

\* What no command of an operation does: it takes no mark off.
KeepsMarks(m, m2) ==
    \A u \in UIDs :
        m[u] # Unborn /\ Exists(m2, u) /\ Deleted \in m[u].flags => Deleted \in m2[u].flags

\* u is a safe copy of message x.
SafeCopy(m, x, u) == Exists(m, u) /\ m[u].msg = x /\ Deleted \notin m[u].flags

\* The UIDs of new copies without a mark.
Made(m, m2) == {u \in UIDs : m[u] = Unborn /\ Exists(m2, u) /\ Deleted \notin m2[u].flags}

\* UIDs that have been given out.
Known(m, c) == \A u \in c : m[u] # Unborn

\* v is the latest copy of message x among the UIDs c, and is safe.
Latest(m, c, x, v) ==
    /\ v \in c /\ SafeCopy(m, x, v)
    /\ \A u \in c : Exists(m, u) /\ m[u].msg = x => u <= v

\* Of each of the messages X the latest copy is safe still, or a later one is.
LatestKept(m, c, m2, X) ==
    \A x \in X, v \in UIDs :
        Latest(m, c, x, v) =>
            \E w \in UIDs : v <= w /\ Latest(m2, c \cup Made(m, m2), x, w)

\* The flags that updates deal with are as they were, but for the copies U.
FlagsKeptBut(m, m2, U) ==
    \A v \in UIDs \ U :
        m[v] # Unborn /\ Exists(m2, v) => m2[v].flags \cap Allowed = m[v].flags \cap Allowed

\* A UID has a copy, or is not given out yet, or is gone.
LEMMA CopyExists ==
    ASSUME NEW m \in Mailboxes, NEW u \in UIDs
    PROVE  /\ Exists(m, u) <=> m[u] \in Copies
           /\ UIDs \subseteq Nat
  BY MailboxAssumption, MarkerAssumption DEF Mailboxes, Exists, UIDs

\* A latest copy that stays safe stays the latest when no copy is made.
LEMMA LatestStays ==
    ASSUME NEW m \in Mailboxes, NEW m2, NEW c \in SUBSET UIDs, Known(m, c), Keeps(m, m2),
           Made(m, m2) = {}, NEW x, NEW v \in UIDs, Latest(m, c, x, v), SafeCopy(m2, x, v)
    PROVE  v <= v /\ Latest(m2, c \cup Made(m, m2), x, v)
  <1>1. UIDs \subseteq Nat BY CopyExists
  <1>2. ASSUME NEW u \in c, Exists(m2, u), m2[u].msg = x PROVE u <= v
    <2>1. Exists(m, u) /\ m[u].msg = x BY <1>2 DEF Known, Keeps
    <2>2. QED BY <2>1 DEF Latest
  <1>3. QED BY <1>1, <1>2 DEF Latest

\* A command that does nothing keeps everything.
LEMMA NothingChanged ==
    ASSUME NEW m \in Mailboxes, Ascending(m), NEW c \in SUBSET UIDs, Known(m, c)
    PROVE  /\ Effect(m, m) /\ KeepsMarks(m, m) /\ Made(m, m) = {}
           /\ \A X : LatestKept(m, c, m, X)
           /\ \A U : FlagsKeptBut(m, m, U)
  <1>1. UIDs \subseteq Nat BY CopyExists
  <1>2. Effect(m, m) /\ KeepsMarks(m, m) /\ \A U : FlagsKeptBut(m, m, U)
    BY DEF Effect, Keeps, KeepsMarks, FlagsKeptBut, Exists
  <1>3. Made(m, m) = {} BY DEF Made, Exists
  <1>4. ASSUME NEW X, NEW x \in X, NEW v \in UIDs, Latest(m, c, x, v)
        PROVE  v <= v /\ Latest(m, c \cup Made(m, m), x, v)
    <2>1. SafeCopy(m, x, v) /\ Keeps(m, m) BY <1>2, <1>4 DEF Latest, Effect
    <2>2. QED BY <1>3, <1>4, <2>1, LatestStays
  <1>5. \A X : LatestKept(m, c, m, X) BY <1>4 DEF LatestKept
  <1>6. QED BY <1>2, <1>3, <1>5

\* One UID gets a new value: a copy that was there changes its flags, or goes.
LEMMA OneChanged ==
    ASSUME NEW m \in Mailboxes, Ascending(m), NEW u \in UIDs, Exists(m, u),
           NEW c \in SUBSET UIDs, Known(m, c),
           NEW k \in Copies \cup {Gone},
           k # Gone => k.folder = m[u].folder /\ k.msg = m[u].msg
    PROVE  /\ Effect(m, [m EXCEPT ![u] = k]) /\ Made(m, [m EXCEPT ![u] = k]) = {}
           /\ FlagsKeptBut(m, [m EXCEPT ![u] = k], {u})
           /\ (k # Gone /\ Deleted \in m[u].flags => Deleted \in k.flags)
                => KeepsMarks(m, [m EXCEPT ![u] = k])
           /\ (Deleted \in m[u].flags \/ (k # Gone /\ Deleted \notin k.flags))
                => \A X : LatestKept(m, c, [m EXCEPT ![u] = k], X)
  <1> DEFINE m2 == [m EXCEPT ![u] = k]
  <1>1. m2 \in Mailboxes /\ m2[u] = k /\ \A v \in UIDs \ {u} : m2[v] = m[v]
    BY DEF Mailboxes
  <1>2. k # Unborn /\ m[u] # Unborn /\ UIDs \subseteq Nat
    BY MailboxAssumption, MarkerAssumption, CopyExists DEF Exists
  <1> HIDE DEF m2
  <1>3. Ascending(m2) BY <1>1, <1>2 DEF Ascending
  <1>4. Keeps(m, m2) BY <1>1, <1>2 DEF Keeps, Exists
  <1>5. FlagsKeptBut(m, m2, {u}) BY <1>1 DEF FlagsKeptBut, Exists
  <1>6. Made(m, m2) = {} BY <1>1, <1>2 DEF Made, Exists
  <1>7. (k # Gone /\ Deleted \in m[u].flags => Deleted \in k.flags) => KeepsMarks(m, m2)
    BY <1>1, <1>2 DEF KeepsMarks, Exists
  <1>8. ASSUME Deleted \in m[u].flags \/ (k # Gone /\ Deleted \notin k.flags)
        PROVE  \A X : LatestKept(m, c, m2, X)
    <2> SUFFICES ASSUME NEW X, NEW x \in X, NEW v \in UIDs, Latest(m, c, x, v)
                 PROVE  v <= v /\ Latest(m2, c \cup Made(m, m2), x, v)
      BY DEF LatestKept
    <2>1. SafeCopy(m, x, v) BY DEF Latest
    <2>2. SafeCopy(m2, x, v) BY <1>1, <1>2, <1>8, <2>1 DEF SafeCopy, Exists
    <2>3. QED BY <1>4, <1>6, <2>2, LatestStays
  <1>9. QED BY <1>1, <1>3, <1>4, <1>5, <1>6, <1>7, <1>8 DEF Effect, m2

\* STORE +FLAGS on one UID.
LEMMA FlagsAddedFacts ==
    ASSUME NEW m \in Mailboxes, Ascending(m), NEW f \in Folders, NEW u \in UIDs,
           NEW F \in FlagSets(Flags), NEW c \in SUBSET UIDs, Known(m, c)
    PROVE  LET m2 == FlagsAdded(m, f, u, F)
           IN  /\ Effect(m, m2) /\ KeepsMarks(m, m2) /\ Made(m, m2) = {}
               /\ FlagsKeptBut(m, m2, {u})
               /\ Deleted \notin F => (\A X : LatestKept(m, c, m2, X))
               /\ F \cap Allowed = {} => FlagsKeptBut(m, m2, {})
               /\ HasGained(m, m2, f, u, F)
               /\ \A v \in UIDs \ {u} : m2[v] = m[v]
  <1> DEFINE m2 == FlagsAdded(m, f, u, F)
  <1>1. CASE ~Here(m, f, u)
    <2>1. m2 = m BY <1>1 DEF FlagsAdded
    <2>2. QED BY <1>1, <2>1, NothingChanged DEF HasGained
  <1>2. CASE Here(m, f, u)
    <2> DEFINE k == [m[u] EXCEPT !.flags = m[u].flags \cup F]
    <2>1. Exists(m, u) /\ m[u] \in Copies BY <1>2, CopyExists DEF Here
    <2>2. m[u].flags \cup F \in SUBSET Flags BY <2>1, CopyFacts DEF FlagSets
    <2>3. /\ k \in Copies /\ k.folder = m[u].folder /\ k.msg = m[u].msg
          /\ k.flags = m[u].flags \cup F
      BY SMTT(30), <2>1, <2>2, CopyFacts
    <2>4. m2 = [m EXCEPT ![u] = k] BY <1>2 DEF FlagsAdded
    <2>5. k # Gone BY <2>3, CopyFacts
    <2> HIDE DEF k, m2
    <2>6. m2[u] = k /\ \A v \in UIDs \ {u} : m2[v] = m[v] BY <2>4 DEF Mailboxes
    <2>7. /\ Effect(m, m2) /\ FlagsKeptBut(m, m2, {u}) /\ Made(m, m2) = {}
          /\ (k # Gone /\ Deleted \in m[u].flags => Deleted \in k.flags) => KeepsMarks(m, m2)
          /\ (Deleted \in m[u].flags \/ (k # Gone /\ Deleted \notin k.flags))
               => (\A X : LatestKept(m, c, m2, X))
      BY <2>1, <2>3, <2>4, OneChanged
    <2>8. Deleted \notin F => (\A X : LatestKept(m, c, m2, X)) BY <2>3, <2>5, <2>7
    <2>9. F \cap Allowed = {} => FlagsKeptBut(m, m2, {}) BY <2>3, <2>6 DEF FlagsKeptBut
    <2>10. KeepsMarks(m, m2) BY <2>3, <2>7
    <2>11. QED BY <1>2, <2>3, <2>6, <2>7, <2>8, <2>9, <2>10 DEF m2, HasGained
  <1>3. QED BY <1>1, <1>2

\* A mark changes no other flag and no other copy.
LEMMA MarkAdded ==
    ASSUME NEW m \in Mailboxes, Ascending(m), NEW f \in Folders, NEW u \in UIDs,
           NEW c \in SUBSET UIDs, Known(m, c)
    PROVE  LET m2 == FlagsAdded(m, f, u, {Deleted})
           IN  /\ Effect(m, m2) /\ KeepsMarks(m, m2) /\ Made(m, m2) = {}
               /\ FlagsKeptBut(m, m2, {})
               /\ HasGained(m, m2, f, u, {Deleted})
               /\ \A v \in UIDs \ {u} : m2[v] = m[v]
  <1> DEFINE F == {Deleted}
  <1>1. F \in FlagSets(Flags) /\ F \cap Allowed = {}
    BY DEF FlagSets, Flags, Allowed, Deleted, Seen, Flagged
  <1> HIDE DEF F
  <1> DEFINE m2 == FlagsAdded(m, f, u, F)
  <1>2. /\ Effect(m, m2) /\ KeepsMarks(m, m2) /\ Made(m, m2) = {}
        /\ F \cap Allowed = {} => FlagsKeptBut(m, m2, {})
        /\ HasGained(m, m2, f, u, F)
        /\ \A v \in UIDs \ {u} : m2[v] = m[v]
    BY ZenonT(30), <1>1, FlagsAddedFacts
  <1> HIDE DEF m2
  <1>3. FlagsKeptBut(m, m2, {}) BY <1>1, <1>2
  <1>4. QED BY <1>2, <1>3 DEF m2, F

\* STORE -FLAGS on one UID: \Deleted is not among the flags an update may name.
LEMMA FlagsRemovedFacts ==
    ASSUME NEW m \in Mailboxes, Ascending(m), NEW f \in Folders, NEW u \in UIDs,
           NEW F \in FlagSets(Allowed), NEW c \in SUBSET UIDs, Known(m, c)
    PROVE  LET m2 == FlagsRemoved(m, f, u, F)
           IN  /\ Effect(m, m2) /\ KeepsMarks(m, m2) /\ Made(m, m2) = {}
               /\ FlagsKeptBut(m, m2, {u}) /\ (\A X : LatestKept(m, c, m2, X))
               /\ HasLost(m, m2, f, u, F)
  <1> DEFINE m2 == FlagsRemoved(m, f, u, F)
  <1>1. CASE ~Here(m, f, u)
    <2>1. m2 = m BY <1>1 DEF FlagsRemoved
    <2>2. QED BY <1>1, <2>1, NothingChanged DEF HasLost
  <1>2. CASE Here(m, f, u)
    <2> DEFINE k == [m[u] EXCEPT !.flags = m[u].flags \ F]
    <2>1. Exists(m, u) /\ m[u] \in Copies BY <1>2, CopyExists DEF Here
    <2>2. m[u].flags \ F \in SUBSET Flags BY <2>1, CopyFacts
    <2>3. /\ k \in Copies /\ k.folder = m[u].folder /\ k.msg = m[u].msg
          /\ k.flags = m[u].flags \ F
      BY <2>1, <2>2, CopyFacts
    <2>4. m2 = [m EXCEPT ![u] = k] BY <1>2 DEF FlagsRemoved
    <2>5. k # Gone BY <2>3, CopyFacts
    <2>6. Deleted \notin F BY DEF FlagSets, Allowed, Deleted, Seen, Flagged
    <2> HIDE DEF k, m2
    <2>7. m2[u] = k BY <2>4 DEF Mailboxes
    <2>8. Deleted \in m[u].flags <=> Deleted \in k.flags BY <2>3, <2>6
    <2>9. /\ Effect(m, m2) /\ FlagsKeptBut(m, m2, {u}) /\ Made(m, m2) = {}
          /\ KeepsMarks(m, m2) /\ (\A X : LatestKept(m, c, m2, X))
      BY <2>1, <2>3, <2>4, <2>5, <2>8, OneChanged
    <2>10. QED BY <1>2, <2>3, <2>7, <2>9 DEF m2, HasLost
  <1>3. QED BY <1>1, <1>2

\* After m2 the message of u has a later copy than all before, without a mark if u had none.
NewCopy(m, m2, u) ==
    \E n \in UIDs :
        /\ m[n] = Unborn /\ Exists(m2, n) /\ m2[n].msg = m[u].msg /\ m2[n].flags = m[u].flags
        /\ \A v \in UIDs : m[v] # Unborn => v < n
        /\ \A v \in UIDs \ {u, n} : m2[v] = m[v]

\* With the new copy a message has a latest safe one, whether the source is there still.
LEMMA LatestMade ==
    ASSUME NEW m \in Mailboxes, NEW m2, NEW u \in UIDs, Exists(m, u), NewCopy(m, m2, u),
           m2[u] \in {m[u], Gone}, NEW c \in SUBSET UIDs, Known(m, c)
    PROVE  \A X : LatestKept(m, c, m2, X)
  <1> SUFFICES ASSUME NEW X, NEW x \in X, NEW v \in UIDs, Latest(m, c, x, v)
               PROVE  \E w \in UIDs : v <= w /\ Latest(m2, c \cup Made(m, m2), x, w)
    BY DEF LatestKept
  <1>1. PICK n \in UIDs :
            /\ m[n] = Unborn /\ Exists(m2, n) /\ m2[n].msg = m[u].msg /\ m2[n].flags = m[u].flags
            /\ \A w \in UIDs : m[w] # Unborn => w < n
            /\ \A w \in UIDs \ {u, n} : m2[w] = m[w]
    BY DEF NewCopy
  <1>2. UIDs \subseteq Nat BY CopyExists
  <1>3. v < n /\ v # n BY <1>1, <1>2 DEF Latest, SafeCopy, Exists
  <1>4. Made(m, m2) = IF Deleted \notin m[u].flags THEN {n} ELSE {}
    <2>1. m[u] # Unborn BY DEF Exists
    <2>2. \A w \in UIDs : m[w] = Unborn /\ Exists(m2, w) => w = n BY <1>1, <2>1 DEF Exists
    <2>3. QED BY <1>1, <2>2 DEF Made
  <1>5. CASE x = m[u].msg /\ Deleted \notin m[u].flags
    <2>1. SafeCopy(m2, x, n) BY <1>1, <1>5 DEF SafeCopy
    <2>2. \A w \in c : w <= n BY <1>1, <1>2 DEF Known
    <2>3. Made(m, m2) = {n} BY <1>4, <1>5
    <2>4. Latest(m2, c \cup {n}, x, n) BY <1>2, <2>1, <2>2 DEF Latest
    <2>5. v <= n BY <1>2, <1>3
    <2>6. QED BY <2>3, <2>4, <2>5
  <1>6. CASE ~(x = m[u].msg /\ Deleted \notin m[u].flags)
    <2>1. v # u BY <1>6 DEF Latest, SafeCopy
    <2>2. m2[v] = m[v] BY <1>1, <1>3, <2>1
    <2>3. SafeCopy(m2, x, v) BY <2>2 DEF Latest, SafeCopy, Exists
    <2>4. ASSUME NEW w \in c \cup Made(m, m2), Exists(m2, w), m2[w].msg = x PROVE w <= v
      <3>1. w # n \/ w \in c BY <1>1, <1>4, <1>6, <2>4
      <3>2. w \in c /\ w # n BY <1>1, <1>4, <3>1 DEF Known
      <3>3. Exists(m, w) /\ m[w].msg = x BY <1>1, <2>4, <3>2 DEF Exists
      <3>4. QED BY <3>2, <3>3 DEF Latest
    <2>5. v <= v BY <1>2
    <2>6. Latest(m2, c \cup Made(m, m2), x, v) BY <2>3, <2>4 DEF Latest
    <2>7. QED BY <2>5, <2>6
  <1>7. QED BY <1>5, <1>6

\* COPY: the new copy has the message's flags and a later UID.
LEMMA CopiedFacts ==
    ASSUME NEW m \in Mailboxes, Ascending(m), NEW f \in Folders, NEW u \in UIDs,
           NEW d \in Folders, Here(m, f, u) => \E v \in UIDs : m[v] = Unborn,
           NEW c \in SUBSET UIDs, Known(m, c)
    PROVE  LET m2 == Copied(m, f, u, d)
           IN  /\ Effect(m, m2) /\ KeepsMarks(m, m2)
               /\ (\A X : LatestKept(m, c, m2, X)) /\ FlagsKeptBut(m, m2, {})
               /\ \A v \in UIDs : m[v] # Unborn => m2[v] = m[v]
               /\ Here(m, f, u) => NewCopy(m, m2, u)
  <1> DEFINE m2 == Copied(m, f, u, d)
  <1>1. CASE ~Here(m, f, u)
    <2>1. m2 = m BY <1>1 DEF Copied
    <2>2. QED BY <1>1, <2>1, NothingChanged
  <1>2. CASE Here(m, f, u)
    <2> DEFINE k == [m[u] EXCEPT !.folder = d]
               n == NextUID(m)
    <2>1. Exists(m, u) /\ m[u] \in Copies /\ m[u] # Unborn
      BY <1>2, CopyExists DEF Here, Exists
    <2>2. k \in Copies /\ k.msg = m[u].msg /\ k.flags = m[u].flags BY <2>1, CopyFacts
    <2>3. /\ n \in UIDs /\ m[n] = Unborn
          /\ \A v \in UIDs : m[v] # Unborn => v < n
          /\ \A v \in UIDs : m[v] = Unborn => n <= v
      BY <1>2, NextUIDFacts
    <2>4. m2 = [m EXCEPT ![n] = k] BY <1>2 DEF Copied
    <2>5. k \notin {Unborn, Gone} /\ UIDs \subseteq Nat BY <2>2, CopyFacts, CopyExists
    <2> HIDE DEF k, n, m2
    <2>6. m2 \in Mailboxes /\ m2[n] = k /\ \A v \in UIDs \ {n} : m2[v] = m[v]
      BY <2>2, <2>3, <2>4 DEF Mailboxes
    <2>7. \A v \in UIDs : m[v] # Unborn => m2[v] = m[v] BY <2>3, <2>6
    <2>8. Ascending(m2)
      <3> SUFFICES ASSUME NEW a \in UIDs, NEW b \in UIDs, a < b, m2[a] = Unborn
                   PROVE  m2[b] = Unborn
        BY DEF Ascending
      <3>1. a # n /\ m[a] = Unborn BY <2>5, <2>6
      <3>2. m[b] = Unborn BY <3>1 DEF Ascending
      <3>3. n <= a BY <2>3, <3>1
      <3>4. b # n BY <2>3, <2>5, <3>3
      <3>5. QED BY <2>6, <3>2, <3>4
    <2>9. Keeps(m, m2) /\ KeepsMarks(m, m2) BY <2>7 DEF Keeps, KeepsMarks, Exists
    <2>10. NewCopy(m, m2, u) BY <2>2, <2>3, <2>5, <2>6 DEF NewCopy, Exists
    <2>11. \A X : LatestKept(m, c, m2, X)
      <3>1. m2[u] = m[u] BY <2>1, <2>7
      <3>2. QED BY <2>1, <2>10, <3>1, LatestMade
    <2>12. FlagsKeptBut(m, m2, {}) BY <2>7 DEF FlagsKeptBut
    <2>13. QED BY <2>6, <2>7, <2>8, <2>9, <2>10, <2>11, <2>12 DEF Effect, m2
  <1>3. QED BY <1>1, <1>2

\* MOVE: a copy as by COPY, and the source is gone.
LEMMA MovedFacts ==
    ASSUME NEW m \in Mailboxes, Ascending(m), NEW f \in Folders, NEW u \in UIDs,
           NEW d \in Folders, Here(m, f, u) => \E v \in UIDs : m[v] = Unborn,
           NEW c \in SUBSET UIDs, Known(m, c)
    PROVE  LET m2 == Moved(m, f, u, d)
           IN  /\ Effect(m, m2) /\ KeepsMarks(m, m2)
               /\ (\A X : LatestKept(m, c, m2, X)) /\ FlagsKeptBut(m, m2, {})
               /\ ~Here(m2, f, u)
  <1> DEFINE m2 == Moved(m, f, u, d)
             k == Copied(m, f, u, d)
  <1>1. CASE ~Here(m, f, u)
    <2>1. m2 = m BY <1>1 DEF Moved
    <2>2. QED BY <1>1, <2>1, NothingChanged
  <1>2. CASE Here(m, f, u)
    <2>1. /\ Effect(m, k) /\ NewCopy(m, k, u)
          /\ \A v \in UIDs : m[v] # Unborn => k[v] = m[v]
      BY <1>2, CopiedFacts
    <2>2. m2 = [k EXCEPT ![u] = Gone] BY <1>2 DEF Moved
    <2> HIDE DEF k, m2
    <2>3. k \in Mailboxes /\ Ascending(k) BY <2>1 DEF Effect
    <2>4. m[u] # Unborn /\ Exists(m, u) BY <1>2 DEF Here, Exists
    <2>5. Exists(k, u) BY <2>1, <2>4 DEF Exists
    <2>6. Effect(k, m2)
      <3>1. Known(k, {}) /\ {} \in SUBSET UIDs BY DEF Known
      <3>2. QED BY <2>2, <2>3, <2>5, <3>1, OneChanged
    <2>7. /\ m2[u] = Gone /\ \A v \in UIDs \ {u} : m2[v] = k[v]
          /\ UIDs \subseteq Nat
      BY <2>2, <2>3, CopyExists DEF Mailboxes
    <2>8. \A v \in UIDs \ {u} : m[v] # Unborn => m2[v] = m[v] BY <2>1, <2>7
    <2>9. ~Here(m2, f, u) BY <2>7 DEF Here, Exists
    <2>10. Keeps(m, m2) /\ KeepsMarks(m, m2)
      BY <2>7, <2>8, MailboxAssumption DEF Keeps, KeepsMarks, Exists
    <2>11. NewCopy(m, m2, u) BY <2>1, <2>4, <2>7 DEF NewCopy, Exists
    <2>12. \A X : LatestKept(m, c, m2, X) BY <2>4, <2>7, <2>11, LatestMade
    <2>13. FlagsKeptBut(m, m2, {}) BY <2>7, <2>8 DEF FlagsKeptBut, Exists
    <2>14. QED BY <2>6, <2>9, <2>10, <2>12, <2>13 DEF Effect, m2
  <1>3. QED BY <1>1, <1>2

\* UID EXPUNGE and EXPUNGE: only copies that are marked go.
LEMMA ExpungedFacts ==
    ASSUME NEW m \in Mailboxes, Ascending(m), NEW f \in Folders, NEW U \in SUBSET UIDs,
           NEW c \in SUBSET UIDs, Known(m, c)
    PROVE  LET m2 == Expunged(m, f, U)
           IN  /\ Effect(m, m2) /\ KeepsMarks(m, m2) /\ Made(m, m2) = {}
               /\ (\A X : LatestKept(m, c, m2, X)) /\ FlagsKeptBut(m, m2, {})
               /\ \A u \in U : (Here(m, f, u) => Deleted \in m[u].flags) => ~Here(m2, f, u)
  <1> DEFINE m2 == Expunged(m, f, U)
             E == Expungeable(m, f, U)
  <1>1. \A v \in UIDs : m2[v] = IF v \in E THEN Gone ELSE m[v] BY DEF Expunged
  <1>2. E \subseteq UIDs /\ \A v \in E : Exists(m, v) /\ Deleted \in m[v].flags
    BY DEF Expungeable, Here
  <1>3. \A u \in U : Here(m, f, u) /\ Deleted \in m[u].flags => u \in E BY DEF Expungeable
  <1>4. m2 \in Mailboxes BY DEF Expunged, Mailboxes
  <1> HIDE DEF m2, E
  <1>5. UIDs \subseteq Nat /\ Unborn # Gone BY CopyExists, MailboxAssumption
  <1>6. \A v \in UIDs : m2[v] = Unborn <=> m[v] = Unborn BY <1>1, <1>2, <1>5 DEF Exists
  <1>7. Ascending(m2) BY <1>6 DEF Ascending
  <1>8. Keeps(m, m2) /\ KeepsMarks(m, m2) BY <1>1, <1>6 DEF Keeps, KeepsMarks, Exists
  <1>9. Made(m, m2) = {} BY <1>6 DEF Made, Exists
  <1>10. \A X : LatestKept(m, c, m2, X)
    <2> SUFFICES ASSUME NEW X, NEW x \in X, NEW v \in UIDs, Latest(m, c, x, v)
                 PROVE  v <= v /\ Latest(m2, c \cup Made(m, m2), x, v)
      BY DEF LatestKept
    <2>1. v \notin E BY <1>2 DEF Latest, SafeCopy
    <2>2. SafeCopy(m2, x, v) BY <1>1, <2>1 DEF Latest, SafeCopy, Exists
    <2>3. QED BY <1>8, <1>9, <2>2, LatestStays
  <1>11. ASSUME NEW u \in U, Here(m, f, u) => Deleted \in m[u].flags
         PROVE  ~Here(m2, f, u)
    BY <1>1, <1>3, <1>11 DEF Here, Exists
  <1>12. FlagsKeptBut(m, m2, {}) BY <1>1 DEF FlagsKeptBut, Exists
  <1>13. QED BY <1>4, <1>7, <1>8, <1>9, <1>10, <1>11, <1>12 DEF Effect, m2
-----------------------------------------------------------------------------
(* The operations.                                                         *)

\* What the invariant says of one operation, and of the copy a move has made.
Promises(o) ==
    /\ OperationInv(o)
    /\ o \notin excused =>
         /\ pc[o] = "ok" /\ req[o].kind \in {"move", "delete"} => ~Pending(o)
         /\ pc[o] = "ok" /\ req[o].kind = "set_flags" /\ Pending(o) /\ Alone(o)
              => req[o].add \subseteq Target(o).flags /\ req[o].remove \cap Target(o).flags = {}

HasCopied(o) ==
    /\ o \notin excused
    /\ pc[o] = "store" /\ req[o].kind = "move" /\ Pending(o)
    /\ Target(o).msg \notin touched
    /\ req[o].uid \in clean
    => \E v \in clean : req[o].uid < v /\ Exists(mail, v) /\ mail[v].msg = Target(o).msg

\* Each of the messages X has a latest copy, and it is safe.
AllSafe(m, c, X) == \A x \in X : \E v \in UIDs : Latest(m, c, x, v)

\* The invariant, operation by operation.
LEMMA InvariantByOperation ==
    IInv <=> /\ TypeOK /\ Ascending(mail) /\ Known(mail, clean)
             /\ AllSafe(mail, clean, Msgs \ touched)
             /\ \A o \in Ops : Promises(o) /\ HasCopied(o)
  <1>1. TypeOK => clean \subseteq UIDs BY DEF TypeOK
  <1>2. ASSUME clean \subseteq UIDs PROVE LatestSafe <=> AllSafe(mail, clean, Msgs \ touched)
    BY <1>2 DEF LatestSafe, AllSafe, Originals, Safe, Latest, SafeCopy
  <1>3. CopiedFirst <=> \A o \in Ops : HasCopied(o)
    BY DEF CopiedFirst, HasCopied, Originals
  <1>4. (\A u \in clean : mail[u] # Unborn) <=> Known(mail, clean) BY DEF Known
  <1>5. (\A o \in Ops : OperationInv(o)) /\ OkMeansGone /\ FlagsApplied
           <=> \A o \in Ops : Promises(o)
    BY Zenon DEF OkMeansGone, FlagsApplied, Promises
  <1>6. QED BY <1>1, <1>2, <1>3, <1>4, <1>5, Zenon DEF IInv

\* The next state, from what holds there of each operation.
LEMMA InvariantByOperationNext ==
    ASSUME TypeOK', Ascending(mail'), Known(mail', clean'),
           AllSafe(mail', clean', Msgs \ touched'),
           \A o \in Ops : Promises(o)' /\ HasCopied(o)'
    PROVE  IInv'
  <1>1. clean' \subseteq UIDs BY DEF TypeOK
  <1>2. LatestSafe' BY <1>1 DEF LatestSafe, AllSafe, Originals, Safe, Latest, SafeCopy
  <1>3. CopiedFirst' BY DEF CopiedFirst, HasCopied, Originals
  <1>4. (\A u \in clean : mail[u] # Unborn)' BY DEF Known
  <1>5. (\A o \in Ops : OperationInv(o))' /\ OkMeansGone' /\ FlagsApplied'
    BY Zenon DEF OkMeansGone, FlagsApplied, Promises
  <1>6. Ascending(mail)' BY DEF Ascending
  <1>7. QED BY <1>2, <1>3, <1>4, <1>5, <1>6 DEF IInv

\* The fields of a request.
LEMMA RequestFacts ==
    ASSUME NEW r \in Requests
    PROVE  /\ r.folder \in Folders /\ r.uid \in UIDs
           /\ r.kind \in {"move", "delete", "set_flags"}
           /\ r.kind = "move" => r.dest \in Folders
           /\ r.kind = "set_flags" => /\ r.add \in SUBSET Allowed /\ r.remove \in SUBSET Allowed
                                     /\ r.add \cap r.remove = {}
  BY DEF Requests, Moves, Deletes, FlagUpdates

\* If u has a mark, it keeps it while it is there.
MarkKept(m, m2, u) == Exists(m2, u) /\ Deleted \in m[u].flags => Deleted \in m2[u].flags

\* An operation that stands still while others, or other clients, change the mailbox.
LEMMA PromisesKept ==
    ASSUME IInv, Effect(mail, mail'), NEW p \in Ops,
           pc'[p] = pc[p], req'[p] = req[p], Alone(p)' => Alone(p),
           p \in excused => p \in excused',
           p \in excused' => p \in excused \/ pc[p] # "idle",
           p \notin excused' /\ pc[p] \in {"expunge", "expunge.all"}
             => MarkKept(mail, mail', req[p].uid),
           NEW U, FlagsKeptBut(mail, mail', U),
           req[p].kind = "set_flags" /\ Alone(p) => req[p].uid \notin U
    PROVE  Promises(p)'
  <1> DEFINE u == req[p].uid
  <1>1. Promises(p) BY InvariantByOperation
  <1>2. CASE pc[p] = "idle"
    <2>1. req[p] = NoRequest /\ p \notin excused' BY <1>1, <1>2 DEF Promises, OperationInv
    <2>2. QED BY <1>2, <2>1 DEF Promises, OperationInv
  <1>3. CASE pc[p] # "idle"
    <2>1. req[p] \in Requests BY <1>1, <1>3 DEF Promises, OperationInv
    <2>2. u \in UIDs BY <2>1, RequestFacts
    <2>3. CASE p \in excused' BY <1>1, <1>3, <2>1, <2>3 DEF Promises, OperationInv
    <2>4. CASE p \notin excused'
      <3>1. p \notin excused /\ mail[u] # Unborn BY <1>1, <1>3, <2>4 DEF Promises, OperationInv, Target
      <3>2. mail'[u] # Unborn BY <2>2, <3>1 DEF Effect, Keeps
      <3>3. Pending(p)' => Pending(p) /\ Exists(mail', u)
        BY <2>2, <3>1 DEF Effect, Keeps, Pending, Here
      <3>4. Pending(p)' /\ req[p].kind = "set_flags" /\ Alone(p)'
              => Target(p)'.flags \cap Allowed = Target(p).flags \cap Allowed
        BY <2>2, <3>1 DEF FlagsKeptBut, Pending, Target, Here
      <3>5. req[p].kind = "set_flags"
              => req[p].add \subseteq Allowed /\ req[p].remove \subseteq Allowed
        BY <2>1, RequestFacts
      <3>6. pc[p] \in {"expunge", "expunge.all"} /\ Pending(p)' => Deleted \in Target(p)'.flags
        BY <1>1, <2>4, <3>1, <3>3 DEF Promises, OperationInv, MarkKept, Target
      <3>7. OperationInv(p)'
        BY <1>1, <1>3, <2>1, <3>1, <3>2, <3>3, <3>4, <3>5, <3>6 DEF Promises, OperationInv, Target
      <3>8. QED BY <1>1, <3>1, <3>3, <3>4, <3>5, <3>7 DEF Promises
    <2>5. QED BY <2>3, <2>4
  <1>4. QED BY <1>2, <1>3

\* A move that has copied has a later copy still: the latest is safe, or is followed by one.
LEMMA HasCopiedKept ==
    ASSUME IInv, touched \subseteq touched', excused \subseteq excused',
           Effect(mail, mail'), clean' = clean \cup Made(mail, mail'),
           LatestKept(mail, clean, mail', Msgs \ touched'),
           NEW p \in Ops, pc'[p] = pc[p], req'[p] = req[p]
    PROVE  HasCopied(p)'
  <1> DEFINE u == req[p].uid
             x == mail[u].msg
  <1> SUFFICES ASSUME p \notin excused', pc[p] = "store", req[p].kind = "move", Pending(p)',
                      Target(p)'.msg \notin touched', u \in clean'
               PROVE  \E w \in clean' : u < w /\ Exists(mail', w) /\ mail'[w].msg = Target(p)'.msg
    BY DEF HasCopied
  <1>1. /\ req[p] \in Requests /\ mail[u] # Unborn /\ HasCopied(p) /\ p \notin excused
        /\ AllSafe(mail, clean, Msgs \ touched)
    BY InvariantByOperation DEF Promises, OperationInv, Target
  <1>2. u \in UIDs BY <1>1, RequestFacts
  <1>3. Pending(p) /\ Target(p)'.msg = x
    BY <1>1, <1>2 DEF Effect, Keeps, Pending, Target, Here
  <1>4. u \in clean BY <1>1 DEF Made
  <1>5. PICK v \in clean : u < v /\ Exists(mail, v) /\ mail[v].msg = x
    BY <1>1, <1>3, <1>4 DEF HasCopied, Target
  <1>6. mail \in Mailboxes /\ clean \subseteq UIDs BY DEF IInv, TypeOK, Mailboxes
  <1>7. x \in Msgs \ touched' BY <1>3, <1>2, <1>6, CopyExists, CopyFacts DEF Pending, Here
  <1>8. PICK t \in UIDs : Latest(mail, clean, x, t) BY <1>1, <1>7 DEF AllSafe
  <1>9. v <= t BY <1>5, <1>8 DEF Latest
  <1>10. PICK w \in UIDs : t <= w /\ Latest(mail', clean', x, w) BY <1>7, <1>8 DEF LatestKept
  <1>11. u \in Nat /\ v \in Nat /\ t \in Nat /\ w \in Nat BY <1>2, <1>5, <1>6, CopyExists
  <1>12. u < w BY <1>5, <1>9, <1>10, <1>11
  <1>13. w \in clean' /\ Exists(mail', w) /\ mail'[w].msg = x BY <1>10 DEF Latest, SafeCopy
  <1>14. QED BY <1>3, <1>12, <1>13

\* What holds of the copies after a step: those that are kept count are known, and
\* each untouched message has a latest one that is safe.
LEMMA CopiesKept ==
    ASSUME IInv, touched \subseteq touched',
           Effect(mail, mail'), clean' = clean \cup Made(mail, mail'),
           LatestKept(mail, clean, mail', Msgs \ touched')
    PROVE  /\ clean' \subseteq UIDs /\ Known(mail', clean')
           /\ AllSafe(mail', clean', Msgs \ touched')
  <1>1. clean \subseteq UIDs /\ Known(mail, clean) /\ AllSafe(mail, clean, Msgs \ touched)
    BY InvariantByOperation DEF TypeOK
  <1>2. clean' \subseteq UIDs BY <1>1 DEF Made
  <1>3. Known(mail', clean') BY <1>1 DEF Known, Made, Effect, Keeps, Exists
  <1>4. AllSafe(mail', clean', Msgs \ touched') BY <1>1 DEF AllSafe, LatestKept
  <1>5. QED BY <1>2, <1>3, <1>4

Labels == {"idle", "select", "move", "store", "expunge", "expunge.all",
           "flags.add", "flags.remove", "ok", "error"}

\* What holds of an operation that has begun, wherever it goes on.
LEMMA BegunKept ==
    ASSUME IInv, Effect(mail, mail'), KeepsMarks(mail, mail'), UNCHANGED <<req, excused>>,
           NEW o \in Ops, pc[o] # "idle"
    PROVE  /\ req[o] \in Requests
           /\ o \notin excused =>
                /\ Target(o) # Unborn /\ Target(o)' # Unborn
                /\ Pending(o)' => Pending(o)
                /\ Pending(o)' /\ Deleted \in Target(o).flags => Deleted \in Target(o)'.flags
  <1> DEFINE u == req[o].uid
  <1>1. OperationInv(o) BY InvariantByOperation DEF Promises
  <1>2. req[o] \in Requests BY <1>1 DEF OperationInv
  <1>3. u \in UIDs BY <1>2, RequestFacts
  <1>4. ASSUME o \notin excused
        PROVE  /\ mail[u] # Unborn /\ mail'[u] # Unborn
               /\ Pending(o)' => Pending(o) /\ Exists(mail', u)
    <2>1. mail[u] # Unborn BY <1>1, <1>4 DEF OperationInv, Target
    <2>2. QED BY <1>3, <2>1 DEF Effect, Keeps, Pending, Here
  <1>5. QED BY <1>2, <1>3, <1>4 DEF Target, KeepsMarks

\* An operation that has failed promises little.
LEMMA FailurePromises ==
    ASSUME IInv, Effect(mail, mail'), KeepsMarks(mail, mail'), UNCHANGED <<req, excused>>,
           NEW o \in Ops, pc[o] # "idle", pc'[o] = "error"
    PROVE  Promises(o)' /\ HasCopied(o)'
  BY BegunKept DEF Promises, OperationInv, HasCopied

\* The copy whose flags an operation may change.
Changed(o) == IF req[o].kind = "set_flags" THEN {req[o].uid} ELSE {}

\* A command after which the latest copies are safe: what it leaves of the invariant to
\* prove is what its own operation promises when it goes on.
LEMMA CommandKeeps ==
    ASSUME IInv, NEW o \in Ops, pc[o] # "idle", NEW STATE m, NEW label \in Labels,
           Command(o, m, label), UNCHANGED <<caps, req, excused>>,
           worked' \subseteq Ops, collateral' \subseteq UIDs,
           touched \subseteq touched', touched' \subseteq Msgs,
           clean' = clean \cup Made(mail, mail') \/ (clean' = clean /\ Made(mail, m) = {}),
           Effect(mail, m), KeepsMarks(mail, m), FlagsKeptBut(mail, m, Changed(o)),
           mail' = m => LatestKept(mail, clean, m, Msgs \ touched'),
           mail' = m /\ pc'[o] = label => Promises(o)' /\ HasCopied(o)'
    PROVE  IInv'
  <1>1. /\ mail \in Mailboxes /\ Ascending(mail) /\ clean \in SUBSET UIDs /\ Known(mail, clean)
        /\ pc \in [Ops -> Labels] /\ TypeOK
    BY InvariantByOperation DEF TypeOK, Mailboxes, Labels
  <1>2. /\ Effect(mail, mail) /\ KeepsMarks(mail, mail) /\ Made(mail, mail) = {}
        /\ FlagsKeptBut(mail, mail, Changed(o)) /\ \A X : LatestKept(mail, clean, mail, X)
    BY <1>1, NothingChanged
  <1>3. mail' \in {mail, m} BY DEF Command
  <1>4. /\ Effect(mail, mail') /\ KeepsMarks(mail, mail') /\ FlagsKeptBut(mail, mail', Changed(o))
        /\ LatestKept(mail, clean, mail', Msgs \ touched')
        /\ clean' = clean \cup Made(mail, mail')
    BY <1>2, <1>3
  <1>5. /\ pc' \in [Ops -> Labels] /\ \A p \in Ops \ {o} : pc'[p] = pc[p]
        /\ (mail' = m /\ pc'[o] = label) \/ pc'[o] = "error"
    BY <1>1 DEF Command, Goto, Labels
  <1>6. /\ clean' \subseteq UIDs /\ Known(mail', clean')
        /\ AllSafe(mail', clean', Msgs \ touched')
    BY <1>4, CopiesKept
  <1>7. TypeOK' BY <1>1, <1>4, <1>5, <1>6 DEF TypeOK, Labels, Effect, Mailboxes
  <1>8. ASSUME NEW p \in Ops \ {o} PROVE Promises(p)' /\ HasCopied(p)'
    <2>1. pc'[p] = pc[p] /\ req'[p] = req[p] BY <1>5
    <2>2. Alone(p)' => Alone(p) BY DEF Alone
    <2>3. req[p].kind = "set_flags" /\ Alone(p) => req[p].uid \notin Changed(o)
      BY DEF Alone, Changed
    <2>4. p \notin excused /\ pc[p] \in {"expunge", "expunge.all"}
            => MarkKept(mail, mail', req[p].uid)
      <3> SUFFICES ASSUME p \notin excused, pc[p] \in {"expunge", "expunge.all"}
                   PROVE  MarkKept(mail, mail', req[p].uid)
        OBVIOUS
      <3>1. req[p] \in Requests /\ Target(p) # Unborn
        BY InvariantByOperation DEF Promises, OperationInv
      <3>2. req[p].uid \in UIDs BY <3>1, RequestFacts
      <3>3. QED BY <1>4, <3>1, <3>2 DEF KeepsMarks, MarkKept, Target
    <2>5. Promises(p)' BY <1>4, <2>1, <2>2, <2>3, <2>4, PromisesKept
    <2>6. HasCopied(p)' BY <1>4, <2>1, HasCopiedKept
    <2>7. QED BY <2>5, <2>6
  <1>9. Promises(o)' /\ HasCopied(o)' BY <1>4, <1>5, FailurePromises
  <1>10. \A p \in Ops : Promises(p)' /\ HasCopied(p)' BY <1>8, <1>9
  <1>11. Ascending(mail') BY <1>4 DEF Effect
  <1>12. QED BY <1>6, <1>7, <1>10, <1>11, InvariantByOperationNext

\* What Record adds to the history is well typed.
LEMMA RecordTypes ==
    ASSUME TypeOK, NEW o \in Ops, Record(o)
    PROVE  /\ worked' \subseteq Ops /\ collateral' \subseteq UIDs /\ UNCHANGED <<touched, excused>>
           /\ touched \subseteq touched' /\ touched' \subseteq Msgs
           /\ clean' = clean \cup Made(mail, mail')
  BY DEF Record, TypeOK, Made

\* The facts about operation o's request that its commands start from.
LEMMA AtCommand ==
    ASSUME IInv, NEW o \in Ops, pc[o] # "idle"
    PROVE  /\ mail \in Mailboxes /\ Ascending(mail) /\ TypeOK
           /\ clean \in SUBSET UIDs /\ Known(mail, clean)
           /\ Promises(o) /\ HasCopied(o) /\ OperationInv(o)
           /\ req[o] \in Requests /\ req[o].folder \in Folders /\ req[o].uid \in UIDs
  <1>1. TypeOK /\ Ascending(mail) /\ Known(mail, clean) /\ Promises(o) /\ HasCopied(o)
    BY InvariantByOperation
  <1>2. OperationInv(o) BY <1>1 DEF Promises
  <1>3. req[o] \in Requests BY <1>2 DEF OperationInv
  <1>4. mail \in Mailboxes /\ clean \in SUBSET UIDs BY <1>1 DEF TypeOK, Mailboxes
  <1>5. QED BY <1>1, <1>2, <1>3, <1>4, RequestFacts

\* A step that changes no copy and no history goes on at label.
LEMMA StayKeeps ==
    ASSUME IInv, NEW o \in Ops, pc[o] # "idle", NEW label \in Labels,
           Command(o, mail, label), UNCHANGED <<mail, caps, req, history>>,
           pc'[o] = label => Promises(o)' /\ HasCopied(o)'
    PROVE  IInv'
  <1>1. /\ mail \in Mailboxes /\ Ascending(mail) /\ TypeOK
        /\ clean \in SUBSET UIDs /\ Known(mail, clean)
    BY AtCommand
  <1>2. /\ Effect(mail, mail) /\ KeepsMarks(mail, mail) /\ Made(mail, mail) = {}
        /\ FlagsKeptBut(mail, mail, Changed(o))
        /\ LatestKept(mail, clean, mail, Msgs \ touched')
    BY <1>1, NothingChanged
  <1>3. /\ worked' \subseteq Ops /\ collateral' \subseteq UIDs
        /\ touched \subseteq touched' /\ touched' \subseteq Msgs
        /\ UNCHANGED <<caps, req, excused>> /\ clean' = clean
    BY <1>1 DEF history, TypeOK
  <1>4. QED BY <1>2, <1>3, CommandKeeps

\* Select moves an operation to the first command of its own kind.
LEMMA SelectKeeps ==
    ASSUME IInv, NEW o \in Ops, Select(o)
    PROVE  IInv'
  <1> DEFINE l == FirstStep(req[o])
  <1>1. /\ pc[o] # "idle" /\ pc[o] = "select" /\ UNCHANGED <<mail, caps, req, history>>
        /\ Command(o, mail, l)
    BY DEF Select, Command
  <1>2. /\ mail \in Mailboxes /\ Ascending(mail) /\ clean \in SUBSET UIDs /\ Known(mail, clean)
        /\ req[o] \in Requests
    BY <1>1, AtCommand
  <1>3. /\ l \in Labels
        /\ \/ l = "move" /\ req[o].kind = "move"
           \/ l = "store" /\ req[o].kind = "delete"
           \/ l = "flags.add" /\ req[o].kind = "set_flags"
           \/ l = "flags.remove" /\ req[o].kind = "set_flags" /\ req[o].add = {}
    BY <1>2, RequestFacts DEF FirstStep, Labels
  <1>4. Effect(mail, mail') /\ KeepsMarks(mail, mail') /\ UNCHANGED <<req, excused>>
    BY <1>1, <1>2, NothingChanged DEF history
  <1> HIDE DEF l
  <1>5. ASSUME pc'[o] = l PROVE Promises(o)' /\ HasCopied(o)'
    BY <1>1, <1>3, <1>4, <1>5, BegunKept DEF Promises, OperationInv, HasCopied
  <1>6. QED BY <1>1, <1>3, <1>5, StayKeeps

\* MOVE.
LEMMA MoveCommandKeeps ==
    ASSUME IInv, NEW o \in Ops, MoveCommand(o)
    PROVE  IInv'
  <1> DEFINE r == req[o]
             m == Moved(mail, r.folder, r.uid, r.dest)
  <1>1. pc[o] = "move" /\ Command(o, m, "ok") /\ UNCHANGED <<caps, req>> BY DEF MoveCommand
  <1>2. /\ mail \in Mailboxes /\ Ascending(mail) /\ TypeOK /\ OperationInv(o)
        /\ clean \in SUBSET UIDs /\ Known(mail, clean)
        /\ r \in Requests /\ r.folder \in Folders /\ r.uid \in UIDs
    BY <1>1, AtCommand
  <1>3. r.kind = "move" /\ r.dest \in Folders BY <1>1, <1>2, RequestFacts DEF OperationInv
  <1>4. /\ worked' \subseteq Ops /\ collateral' \subseteq UIDs /\ UNCHANGED <<touched, excused>>
        /\ touched \subseteq touched' /\ touched' \subseteq Msgs
        /\ clean' = clean \cup Made(mail, mail')
    BY <1>2, RecordTypes DEF MoveCommand
  <1>5. Here(mail, r.folder, r.uid) => \E v \in UIDs : mail[v] = Unborn
    BY DEF MoveCommand, RoomFor
  <1>6. /\ Effect(mail, m) /\ KeepsMarks(mail, m) /\ FlagsKeptBut(mail, m, {})
        /\ LatestKept(mail, clean, m, Msgs \ touched')
        /\ ~Here(m, r.folder, r.uid)
    BY <1>2, <1>3, <1>5, MovedFacts
  <1>7. Changed(o) = {} BY <1>3 DEF Changed
  <1> HIDE DEF m
  <1>8. ASSUME mail' = m, pc'[o] = "ok" PROVE Promises(o)' /\ HasCopied(o)'
    BY <1>1, <1>3, <1>4, <1>6, <1>8, BegunKept DEF Promises, OperationInv, HasCopied, Pending
  <1>9. "ok" \in Labels /\ pc[o] # "idle" BY <1>1 DEF Labels
  <1>10. QED BY <1>1, <1>4, <1>6, <1>7, <1>8, <1>9, CommandKeeps

\* COPY establishes what STORE of \Deleted relies on: the new copy if the source has no
\* mark, and the latest one there is if it has one.
LEMMA CopyCommandKeeps ==
    ASSUME IInv, NEW o \in Ops, CopyCommand(o)
    PROVE  IInv'
  <1> DEFINE r == req[o]
             u == r.uid
             m == Copied(mail, r.folder, u, r.dest)
  <1>1. pc[o] = "move" /\ Command(o, m, "store") /\ UNCHANGED <<caps, req>> BY DEF CopyCommand
  <1>2. /\ mail \in Mailboxes /\ Ascending(mail) /\ TypeOK /\ OperationInv(o)
        /\ clean \in SUBSET UIDs /\ Known(mail, clean)
        /\ r \in Requests /\ r.folder \in Folders /\ u \in UIDs
    BY <1>1, AtCommand
  <1>3. r.kind = "move" /\ r.dest \in Folders BY <1>1, <1>2, RequestFacts DEF OperationInv
  <1>4. /\ worked' \subseteq Ops /\ collateral' \subseteq UIDs /\ UNCHANGED <<touched, excused>>
        /\ touched \subseteq touched' /\ touched' \subseteq Msgs
        /\ clean' = clean \cup Made(mail, mail')
    BY <1>2, RecordTypes DEF CopyCommand
  <1>5. Here(mail, r.folder, u) => \E v \in UIDs : mail[v] = Unborn
    BY DEF CopyCommand, RoomFor
  <1>6. /\ Effect(mail, m) /\ KeepsMarks(mail, m) /\ FlagsKeptBut(mail, m, {})
        /\ LatestKept(mail, clean, m, Msgs \ touched')
        /\ \A v \in UIDs : mail[v] # Unborn => m[v] = mail[v]
        /\ Here(mail, r.folder, u) => NewCopy(mail, m, u)
    BY <1>2, <1>3, <1>5, CopiedFacts
  <1>7. Changed(o) = {} BY <1>3 DEF Changed
  <1> HIDE DEF m, u
  <1>8. ASSUME mail' = m, pc'[o] = "store" PROVE Promises(o)' /\ HasCopied(o)'
    <2>1. Promises(o)'
      BY <1>1, <1>3, <1>4, <1>6, <1>8, BegunKept DEF Promises, OperationInv
    <2>2. HasCopied(o)'
      <3> DEFINE x == mail[u].msg
      <3> SUFFICES ASSUME o \notin excused', Pending(o)', Target(o)'.msg \notin touched', u \in clean'
                   PROVE  \E v \in clean' : u < v /\ Exists(mail', v)
                                            /\ mail'[v].msg = Target(o)'.msg
        BY <1>1 DEF HasCopied, u
      <3>1. mail[u] # Unborn /\ req'[o].uid = u BY <1>1, <1>2, <1>4 DEF OperationInv, Target, u
      <3>2. mail'[u] = mail[u] BY <1>2, <1>6, <1>8, <3>1
      <3>3. Here(mail, r.folder, u) /\ Exists(mail, u) /\ Target(o)'.msg = x
        BY <1>1, <3>1, <3>2 DEF Pending, Target, Here, Exists, u
      <3>4. u \in clean BY <1>4, <3>1 DEF Made
      <3>5. CASE Deleted \notin mail[u].flags
        <4>1. PICK n \in UIDs :
                 /\ mail[n] = Unborn /\ Exists(m, n) /\ m[n].msg = x /\ m[n].flags = mail[u].flags
                 /\ \A v \in UIDs : mail[v] # Unborn => v < n
          BY <1>6, <3>3 DEF NewCopy
        <4>2. n \in clean' BY <1>4, <1>8, <3>5, <4>1 DEF Made
        <4>3. QED BY <1>2, <1>8, <3>1, <3>3, <4>1, <4>2
      <3>6. CASE Deleted \in mail[u].flags
        <4>1. x \in Msgs \ touched BY <1>2, <1>4, <3>3, CopyExists, CopyFacts
        <4>2. AllSafe(mail, clean, Msgs \ touched) BY InvariantByOperation
        <4>3. PICK t \in UIDs : Latest(mail, clean, x, t) BY <4>1, <4>2 DEF AllSafe
        <4>4. u <= t /\ u # t BY <3>3, <3>4, <3>6, <4>3 DEF Latest, SafeCopy
        <4>5. u < t BY <1>2, <4>4, CopyExists
        <4>6. t \in clean' /\ mail[t] # Unborn /\ Exists(mail, t) /\ mail[t].msg = x
          BY <1>4, <4>3 DEF Latest, SafeCopy, Exists
        <4>7. mail'[t] = mail[t] BY <1>6, <1>8, <4>6
        <4>8. QED BY <3>3, <4>5, <4>6, <4>7 DEF Exists
      <3>7. QED BY <3>5, <3>6
    <2>3. QED BY <2>1, <2>2
  <1>9. "store" \in Labels /\ pc[o] # "idle" BY <1>1 DEF Labels
  <1>10. Command(o, m, "store") BY <1>1 DEF u
  <1>11. QED BY <1>1, <1>4, <1>6, <1>7, <1>8, <1>9, <1>10, CommandKeeps

\* UID EXPUNGE and EXPUNGE alike.
LEMMA ExpungeKeeps ==
    ASSUME IInv, NEW o \in Ops, pc[o] \in {"expunge", "expunge.all"},
           NEW U \in SUBSET UIDs, req[o].uid \in U,
           Command(o, Expunged(mail, req[o].folder, U), "ok"), Record(o), UNCHANGED <<caps, req>>
    PROVE  IInv'
  <1> DEFINE r == req[o]
             m == Expunged(mail, r.folder, U)
  <1>1. pc[o] # "idle" OBVIOUS
  <1>2. /\ mail \in Mailboxes /\ Ascending(mail) /\ TypeOK /\ OperationInv(o)
        /\ clean \in SUBSET UIDs /\ Known(mail, clean)
        /\ r \in Requests /\ r.folder \in Folders /\ r.uid \in UIDs
    BY <1>1, AtCommand
  <1>3. r.kind \in {"move", "delete"} BY <1>2 DEF OperationInv
  <1>4. /\ worked' \subseteq Ops /\ collateral' \subseteq UIDs /\ UNCHANGED <<touched, excused>>
        /\ touched \subseteq touched' /\ touched' \subseteq Msgs
        /\ clean' = clean \cup Made(mail, mail')
    BY <1>2, RecordTypes
  <1>5. /\ Effect(mail, m) /\ KeepsMarks(mail, m) /\ FlagsKeptBut(mail, m, {})
        /\ LatestKept(mail, clean, m, Msgs \ touched')
        /\ (Here(mail, r.folder, r.uid) => Deleted \in mail[r.uid].flags)
             => ~Here(m, r.folder, r.uid)
    BY <1>2, ExpungedFacts
  <1>6. o \notin excused => ~Here(m, r.folder, r.uid)
    BY <1>2, <1>5 DEF OperationInv, Pending, Target
  <1>7. Changed(o) = {} BY <1>3 DEF Changed
  <1> HIDE DEF m
  <1>8. ASSUME mail' = m, pc'[o] = "ok" PROVE Promises(o)' /\ HasCopied(o)'
    BY <1>1, <1>3, <1>4, <1>5, <1>6, <1>8, BegunKept DEF Promises, OperationInv, HasCopied, Pending
  <1>9. Command(o, m, "ok") /\ "ok" \in Labels BY DEF m, Labels
  <1>10. QED BY <1>1, <1>4, <1>5, <1>7, <1>8, <1>9, CommandKeeps

\* The fallback changes where the operation is and nothing else.
LEMMA ExpungeFallbackKeeps ==
    ASSUME IInv, NEW o \in Ops, ExpungeFallback(o)
    PROVE  IInv'
  <1>1. /\ pc[o] # "idle" /\ pc[o] = "expunge" /\ UNCHANGED <<mail, caps, req, history>>
        /\ Command(o, mail, "expunge.all") /\ "expunge.all" \in Labels
    BY DEF ExpungeFallback, Command, Labels
  <1>2. /\ mail \in Mailboxes /\ Ascending(mail) /\ clean \in SUBSET UIDs /\ Known(mail, clean)
        /\ OperationInv(o)
    BY <1>1, AtCommand
  <1>3. Effect(mail, mail') /\ KeepsMarks(mail, mail') /\ UNCHANGED <<req, excused>>
    BY <1>1, <1>2, NothingChanged DEF history
  <1>4. ASSUME pc'[o] = "expunge.all" PROVE Promises(o)' /\ HasCopied(o)'
    BY <1>1, <1>2, <1>3, <1>4, BegunKept DEF Promises, OperationInv, HasCopied, Pending, Target
  <1>5. QED BY <1>1, <1>4, StayKeeps

\* The first STORE of a flag update.
LEMMA AddFlagsKeeps ==
    ASSUME IInv, NEW o \in Ops, AddFlags(o)
    PROVE  IInv'
  <1> DEFINE r == req[o]
             m == FlagsAdded(mail, r.folder, r.uid, r.add)
             l == IF r.remove # {} THEN "flags.remove" ELSE "ok"
  <1>1. pc[o] = "flags.add" /\ Command(o, m, l) /\ UNCHANGED <<caps, req, history>>
    BY DEF AddFlags
  <1>2. /\ mail \in Mailboxes /\ Ascending(mail) /\ TypeOK /\ OperationInv(o)
        /\ clean \in SUBSET UIDs /\ Known(mail, clean)
        /\ r \in Requests /\ r.folder \in Folders /\ r.uid \in UIDs
    BY <1>1, AtCommand
  <1>3. r.kind = "set_flags" BY <1>1, <1>2 DEF OperationInv
  <1>4. r.add \in SUBSET Allowed BY <1>2, <1>3, RequestFacts
  <1>5. r.add \in FlagSets(Flags) /\ Deleted \notin r.add
    BY <1>4 DEF FlagSets, Flags, Allowed, Deleted, Seen, Flagged
  <1>6. /\ Effect(mail, m) /\ KeepsMarks(mail, m) /\ Made(mail, m) = {}
        /\ LatestKept(mail, clean, m, Msgs \ touched') /\ FlagsKeptBut(mail, m, {r.uid})
        /\ HasGained(mail, m, r.folder, r.uid, r.add)
    <2>1. LET m2 == FlagsAdded(mail, r.folder, r.uid, r.add)
          IN  /\ Effect(mail, m2) /\ KeepsMarks(mail, m2) /\ Made(mail, m2) = {}
              /\ FlagsKeptBut(mail, m2, {r.uid})
              /\ Deleted \notin r.add => (\A X : LatestKept(mail, clean, m2, X))
              /\ HasGained(mail, m2, r.folder, r.uid, r.add)
      <3> HIDE DEF r
      <3>1. QED BY <1>2, <1>5, FlagsAddedFacts
    <2>2. QED BY <1>5, <2>1
  <1>7. Changed(o) = {r.uid} BY <1>3 DEF Changed
  <1> HIDE DEF m
  <1>8. ASSUME mail' = m, pc'[o] = l PROVE Promises(o)' /\ HasCopied(o)'
    BY <1>1, <1>3, <1>6, <1>8, BegunKept
    DEF Promises, OperationInv, HasCopied, Pending, Target, HasGained, history
  <1>9. /\ worked' \subseteq Ops /\ collateral' \subseteq UIDs /\ UNCHANGED <<caps, req, excused>>
        /\ touched \subseteq touched' /\ touched' \subseteq Msgs /\ clean' = clean
    BY <1>1, <1>2 DEF TypeOK, history
  <1>10. l \in Labels /\ pc[o] # "idle" BY <1>1 DEF Labels
  <1>11. QED BY <1>1, <1>6, <1>7, <1>8, <1>9, <1>10, CommandKeeps

\* The second STORE of a flag update keeps what the first added: add and remove are disjoint.
LEMMA RemoveFlagsKeeps ==
    ASSUME IInv, NEW o \in Ops, RemoveFlags(o)
    PROVE  IInv'
  <1> DEFINE r == req[o]
             m == FlagsRemoved(mail, r.folder, r.uid, r.remove)
  <1>1. pc[o] = "flags.remove" /\ Command(o, m, "ok") /\ UNCHANGED <<caps, req, history>>
    BY DEF RemoveFlags
  <1>2. /\ mail \in Mailboxes /\ Ascending(mail) /\ TypeOK /\ OperationInv(o)
        /\ clean \in SUBSET UIDs /\ Known(mail, clean)
        /\ r \in Requests /\ r.folder \in Folders /\ r.uid \in UIDs
    BY <1>1, AtCommand
  <1>3. r.kind = "set_flags" BY <1>1, <1>2 DEF OperationInv
  <1>4. r.remove \in SUBSET Allowed /\ r.add \cap r.remove = {} BY <1>2, <1>3, RequestFacts
  <1>5. r.remove \in FlagSets(Allowed) BY <1>4 DEF FlagSets
  <1>6. /\ Effect(mail, m) /\ KeepsMarks(mail, m) /\ Made(mail, m) = {}
        /\ LatestKept(mail, clean, m, Msgs \ touched') /\ FlagsKeptBut(mail, m, {r.uid})
        /\ HasLost(mail, m, r.folder, r.uid, r.remove)
    <2>1. LET m2 == FlagsRemoved(mail, r.folder, r.uid, r.remove)
          IN  /\ Effect(mail, m2) /\ KeepsMarks(mail, m2) /\ Made(mail, m2) = {}
              /\ FlagsKeptBut(mail, m2, {r.uid}) /\ (\A X : LatestKept(mail, clean, m2, X))
              /\ HasLost(mail, m2, r.folder, r.uid, r.remove)
      <3> HIDE DEF r
      <3>1. QED BY <1>2, <1>5, FlagsRemovedFacts
    <2>2. QED BY <2>1
  <1>7. Changed(o) = {r.uid} BY <1>3 DEF Changed
  <1> HIDE DEF m
  <1>8. ASSUME mail' = m, pc'[o] = "ok" PROVE Promises(o)' /\ HasCopied(o)'
    <2>1. req' = req /\ excused' = excused BY <1>1 DEF history
    <2>2. OperationInv(o)' /\ HasCopied(o)'
      BY <1>1, <1>3, <1>6, <1>8, <2>1, BegunKept DEF OperationInv, HasCopied
    <2>3. Alone(o)' => Alone(o) BY <2>1 DEF Alone
    <2>4. o \notin excused /\ Pending(o) /\ Alone(o) => r.add \subseteq mail[r.uid].flags
      BY <1>1, <1>2 DEF OperationInv, Target
    <2>5. o \notin excused /\ Pending(o)' /\ Alone(o)'
            => r.add \subseteq Target(o)'.flags /\ r.remove \cap Target(o)'.flags = {}
      BY <1>4, <1>6, <1>8, <2>1, <2>3, <2>4 DEF Pending, Target, HasLost
    <2>6. QED BY <1>3, <1>8, <2>1, <2>2, <2>5 DEF Promises
  <1>9. /\ worked' \subseteq Ops /\ collateral' \subseteq UIDs /\ UNCHANGED <<caps, req, excused>>
        /\ touched \subseteq touched' /\ touched' \subseteq Msgs /\ clean' = clean
    BY <1>1, <1>2 DEF TypeOK, history
  <1>10. "ok" \in Labels /\ pc[o] # "idle" BY <1>1 DEF Labels
  <1>11. QED BY <1>1, <1>6, <1>7, <1>8, <1>9, <1>10, CommandKeeps

\* The only step of an operation that marks a copy: it counts as touched, or it is not
\* the latest, or it had a mark when it was made.
LEMMA StoreDeletedKeeps ==
    ASSUME IInv, NEW o \in Ops, StoreDeleted(o)
    PROVE  IInv'
  <1> DEFINE r == req[o]
             u == r.uid
             m == FlagsAdded(mail, r.folder, u, {Deleted})
  <1>1. /\ pc[o] = "store" /\ Command(o, m, "expunge")
        /\ UNCHANGED <<caps, req, worked, collateral, excused, clean>>
        /\ touched' = IF mail' # mail /\ (r.kind = "delete" \/ o \in excused)
                      THEN touched \cup {mail[u].msg} ELSE touched
    BY DEF StoreDeleted, Target
  <1>2. /\ mail \in Mailboxes /\ Ascending(mail) /\ TypeOK /\ OperationInv(o) /\ HasCopied(o)
        /\ clean \in SUBSET UIDs /\ Known(mail, clean)
        /\ r \in Requests /\ r.folder \in Folders /\ u \in UIDs
    BY <1>1, AtCommand
  <1>3. r.kind \in {"move", "delete"} BY <1>1, <1>2 DEF OperationInv
  <1>5. /\ Effect(mail, m) /\ KeepsMarks(mail, m) /\ Made(mail, m) = {}
        /\ FlagsKeptBut(mail, m, {})
        /\ HasGained(mail, m, r.folder, u, {Deleted})
        /\ \A v \in UIDs \ {u} : m[v] = mail[v]
    <2> HIDE DEF r, u
    <2>1. QED BY <1>2, MarkAdded
  <1>6. ~Here(mail, r.folder, u) => m = mail BY DEF FlagsAdded
  <1> HIDE DEF m
  <1>7. UIDs \subseteq Nat BY <1>2, CopyExists
  <1>8. touched \subseteq touched' /\ touched' \subseteq Msgs
    <2>1. mail' # mail => Exists(mail, u) BY <1>1, <1>6 DEF Command, Here
    <2>2. mail' # mail => mail[u].msg \in Msgs BY <1>2, <2>1, CopyExists, CopyFacts
    <2>3. QED BY <1>1, <1>2, <2>2 DEF TypeOK
  <1>9. ASSUME mail' = m PROVE LatestKept(mail, clean, m, Msgs \ touched')
    <2> SUFFICES ASSUME NEW x \in Msgs \ touched', NEW v \in UIDs, Latest(mail, clean, x, v)
                 PROVE  v <= v /\ Latest(m, clean \cup Made(mail, m), x, v)
      BY DEF LatestKept
    <2>1. SafeCopy(mail, x, v) /\ v \in clean BY DEF Latest
    <2>2. SafeCopy(m, x, v)
      <3>1. CASE v # u BY <1>5, <2>1, <3>1 DEF SafeCopy, Exists
      <3>2. CASE ~Here(mail, r.folder, u) BY <1>6, <2>1, <3>2
      <3>3. CASE v = u /\ Here(mail, r.folder, u)
        <4>1. mail[u].msg = x /\ Deleted \notin mail[u].flags /\ Exists(mail, u) /\ u \in clean
          BY <2>1, <3>3 DEF SafeCopy
        <4>2. m = mail \/ (r.kind = "move" /\ o \notin excused)
          BY <1>1, <1>3, <1>9, <4>1
        <4>3. CASE m = mail BY <2>1, <4>3
        <4>4. CASE r.kind = "move" /\ o \notin excused
          <5>1. PICK w \in clean : u < w /\ Exists(mail, w) /\ mail[w].msg = x
            BY <1>1, <1>2, <1>8, <3>3, <4>1, <4>4 DEF HasCopied, Pending, Target
          <5>2. w <= u BY <3>3, <5>1 DEF Latest
          <5>3. w \in Nat /\ u \in Nat BY <1>2, <1>7, <5>1
          <5> HIDE DEF u
          <5>4. QED BY <5>1, <5>2, <5>3
        <4>5. QED BY <4>2, <4>3, <4>4
      <3>4. QED BY <3>1, <3>2, <3>3
    <2>3. Keeps(mail, m) BY <1>5 DEF Effect
    <2>4. QED BY <1>2, <1>5, <2>2, <2>3, LatestStays
  <1>10. Changed(o) = {} BY <1>3 DEF Changed
  <1>11. ASSUME mail' = m, pc'[o] = "expunge" PROVE Promises(o)' /\ HasCopied(o)'
    BY <1>1, <1>3, <1>5, <1>11, BegunKept
    DEF Promises, OperationInv, HasCopied, Pending, Target, HasGained
  <1>12. /\ worked' \subseteq Ops /\ collateral' \subseteq UIDs /\ clean' = clean
    BY <1>1, <1>2 DEF TypeOK
  <1>13. "expunge" \in Labels /\ pc[o] # "idle" BY <1>1 DEF Labels
  <1>14. QED BY <1>1, <1>5, <1>8, <1>9, <1>10, <1>11, <1>12, <1>13, CommandKeeps
-----------------------------------------------------------------------------
(* Other mail clients.                                                     *)

\* A step of another client.
LEMMA ClientKeeps ==
    ASSUME IInv, UNCHANGED <<caps, pc, req, worked, collateral, clean>>,
           touched \subseteq touched', touched' \subseteq Msgs,
           excused \subseteq excused', excused' \subseteq Ops,
           \A p \in excused' \ excused : pc[p] # "idle",
           Effect(mail, mail'), Made(mail, mail') = {},
           LatestKept(mail, clean, mail', Msgs \ touched'), FlagsKeptBut(mail, mail', {}),
           \A p \in Ops \ excused' : pc[p] \in {"expunge", "expunge.all"}
               => MarkKept(mail, mail', req[p].uid)
    PROVE  IInv'
  <1>1. clean' = clean \cup Made(mail, mail') OBVIOUS
  <1>2. /\ clean' \subseteq UIDs /\ Known(mail', clean')
        /\ AllSafe(mail', clean', Msgs \ touched')
    BY <1>1, CopiesKept
  <1>3. TypeOK' BY <1>2 DEF IInv, TypeOK, Effect, Mailboxes
  <1>4. ASSUME NEW p \in Ops PROVE Promises(p)' /\ HasCopied(p)'
    <2>1. Alone(p)' => Alone(p) BY DEF Alone
    <2>2. Promises(p)' BY <2>1, PromisesKept
    <2>3. HasCopied(p)' BY <1>1, HasCopiedKept
    <2>4. QED BY <2>2, <2>3
  <1>5. Ascending(mail') BY DEF Effect
  <1>6. QED BY <1>2, <1>3, <1>4, <1>5, InvariantByOperationNext

\* What a client's step starts from.
LEMMA AtClient ==
    ASSUME IInv
    PROVE  /\ mail \in Mailboxes /\ Ascending(mail) /\ TypeOK
           /\ clean \in SUBSET UIDs /\ Known(mail, clean)
           /\ touched \subseteq Msgs /\ excused \subseteq Ops
           /\ \A p \in Ops \ excused :
                 pc[p] \in {"expunge", "expunge.all"} => req[p].uid \in UIDs /\ Target(p) # Unborn
  <1>1. TypeOK /\ Ascending(mail) /\ Known(mail, clean) /\ \A o \in Ops : Promises(o)
    BY InvariantByOperation
  <1>2. ASSUME NEW p \in Ops \ excused, pc[p] \in {"expunge", "expunge.all"}
        PROVE  req[p].uid \in UIDs /\ Target(p) # Unborn
    <2>1. req[p] \in Requests /\ Target(p) # Unborn BY <1>1, <1>2 DEF Promises, OperationInv
    <2>2. QED BY <2>1, RequestFacts
  <1>3. QED BY <1>1, <1>2 DEF TypeOK, Mailboxes

\* A message another client marks counts as touched.
LEMMA OtherMarksKeeps ==
    ASSUME IInv, NEW u \in UIDs, OtherMarks(u)
    PROVE  IInv'
  <1> DEFINE f == mail[u].folder
             m == FlagsAdded(mail, f, u, {Deleted})
  <1>1. /\ mail \in Mailboxes /\ Ascending(mail) /\ TypeOK
        /\ clean \in SUBSET UIDs /\ Known(mail, clean) /\ touched \subseteq Msgs
        /\ excused \subseteq Ops
        /\ \A p \in Ops \ excused :
              pc[p] \in {"expunge", "expunge.all"} => req[p].uid \in UIDs /\ Target(p) # Unborn
    BY AtClient
  <1>2. Exists(mail, u) /\ mail[u] \in Copies BY <1>1, CopyExists DEF OtherMarks
  <1>3. f \in Folders /\ mail[u].msg \in Msgs BY <1>2, CopyFacts
  <1>4. mail' = m BY <1>2 DEF OtherMarks, FlagsAdded, Here
  <1> HIDE DEF f
  <1>6. /\ Effect(mail, m) /\ KeepsMarks(mail, m) /\ Made(mail, m) = {}
        /\ FlagsKeptBut(mail, m, {})
        /\ \A v \in UIDs \ {u} : m[v] = mail[v]
    BY <1>1, <1>3, MarkAdded
  <1> HIDE DEF m
  <1>7. /\ touched' = touched \cup {mail[u].msg}
        /\ UNCHANGED <<caps, pc, req, worked, collateral, excused, clean>>
    BY DEF OtherMarks
  <1>8. LatestKept(mail, clean, m, Msgs \ touched')
    <2> SUFFICES ASSUME NEW x \in Msgs \ touched', NEW v \in UIDs, Latest(mail, clean, x, v)
                 PROVE  v <= v /\ Latest(m, clean \cup Made(mail, m), x, v)
      BY DEF LatestKept
    <2>1. v # u BY <1>7 DEF Latest, SafeCopy
    <2>2. SafeCopy(m, x, v) BY <1>6, <2>1 DEF Latest, SafeCopy, Exists
    <2>3. Keeps(mail, m) BY <1>6 DEF Effect
    <2>4. QED BY <1>1, <1>6, <2>2, <2>3, LatestStays
  <1>9. \A p \in Ops \ excused' : pc[p] \in {"expunge", "expunge.all"}
            => MarkKept(mail, mail', req[p].uid)
    BY <1>1, <1>4, <1>6, <1>7 DEF KeepsMarks, MarkKept, Target
  <1>10. touched' \subseteq Msgs /\ touched \subseteq touched' BY <1>1, <1>3, <1>7
  <1>11. QED BY <1>1, <1>4, <1>6, <1>7, <1>8, <1>9, <1>10, ClientKeeps

\* An operation whose mark another client takes off is excused.
LEMMA OtherUnmarksKeeps ==
    ASSUME IInv, NEW u \in UIDs, OtherUnmarks(u)
    PROVE  IInv'
  <1> DEFINE k == [mail[u] EXCEPT !.flags = mail[u].flags \ {Deleted}]
  <1>1. /\ mail \in Mailboxes /\ Ascending(mail) /\ TypeOK
        /\ clean \in SUBSET UIDs /\ Known(mail, clean) /\ touched \subseteq Msgs
        /\ excused \subseteq Ops
        /\ \A p \in Ops \ excused :
              pc[p] \in {"expunge", "expunge.all"} => req[p].uid \in UIDs /\ Target(p) # Unborn
    BY AtClient
  <1>2. Exists(mail, u) /\ Deleted \in mail[u].flags /\ mail[u] \in Copies
    BY <1>1, CopyExists DEF OtherUnmarks
  <1>3. mail[u].flags \ {Deleted} \in SUBSET Flags BY <1>2, CopyFacts
  <1>4. /\ k \in Copies /\ k.folder = mail[u].folder /\ k.msg = mail[u].msg
        /\ k.flags = mail[u].flags \ {Deleted} /\ k # Gone
    BY <1>2, <1>3, CopyFacts
  <1>5. mail' = [mail EXCEPT ![u] = k] BY <1>1 DEF OtherUnmarks
  <1> HIDE DEF k
  <1>6. mail'[u] = k /\ \A v \in UIDs \ {u} : mail'[v] = mail[v]
    BY <1>1, <1>5 DEF Mailboxes
  <1>7. /\ Effect(mail, mail') /\ Made(mail, mail') = {} /\ FlagsKeptBut(mail, mail', {u})
        /\ \A X : LatestKept(mail, clean, mail', X)
    BY <1>1, <1>2, <1>4, <1>5, OneChanged
  <1>8. FlagsKeptBut(mail, mail', {})
    <2>1. Deleted \notin Allowed BY DEF Allowed, Deleted, Seen, Flagged
    <2>2. k.flags \cap Allowed = mail[u].flags \cap Allowed BY <1>4, <2>1
    <2>3. QED BY <1>6, <1>7, <2>2 DEF FlagsKeptBut
  <1>9. /\ excused' = excused \cup {p \in Ops : pc[p] \in {"expunge", "expunge.all"}
                                                /\ req[p].uid = u}
        /\ UNCHANGED <<caps, pc, req, worked, collateral, touched, clean>>
    BY DEF OtherUnmarks
  <1>10. ASSUME NEW p \in Ops \ excused', pc[p] \in {"expunge", "expunge.all"}
         PROVE  MarkKept(mail, mail', req[p].uid)
    <2>1. req[p].uid \in UIDs \ {u} BY <1>1, <1>9, <1>10
    <2>2. QED BY <1>6, <2>1 DEF MarkKept
  <1>11. excused \subseteq excused' /\ excused' \subseteq Ops
         /\ \A p \in excused' \ excused : pc[p] # "idle"
    BY <1>1, <1>9
  <1>12. QED BY <1>1, <1>7, <1>8, <1>9, <1>10, <1>11, ClientKeeps

\* Another client expunges: only marked copies go.
LEMMA OtherExpungesKeeps ==
    ASSUME IInv, NEW f \in Folders, OtherExpunges(f)
    PROVE  IInv'
  <1>1. /\ mail \in Mailboxes /\ Ascending(mail) /\ TypeOK
        /\ clean \in SUBSET UIDs /\ Known(mail, clean) /\ touched \subseteq Msgs
        /\ excused \subseteq Ops
        /\ \A p \in Ops \ excused :
              pc[p] \in {"expunge", "expunge.all"} => req[p].uid \in UIDs /\ Target(p) # Unborn
    BY AtClient
  <1>2. /\ mail' = Expunged(mail, f, UIDs)
        /\ UNCHANGED <<caps, pc, req, worked, collateral, touched, excused, clean>>
    BY DEF OtherExpunges, history
  <1>3. /\ Effect(mail, mail') /\ KeepsMarks(mail, mail') /\ Made(mail, mail') = {}
        /\ LatestKept(mail, clean, mail', Msgs \ touched') /\ FlagsKeptBut(mail, mail', {})
    BY <1>1, <1>2, ExpungedFacts
  <1>4. \A p \in Ops \ excused' : pc[p] \in {"expunge", "expunge.all"}
            => MarkKept(mail, mail', req[p].uid)
    BY <1>1, <1>2, <1>3 DEF KeepsMarks, MarkKept, Target
  <1>5. QED BY <1>1, <1>2, <1>3, <1>4, ClientKeeps

\* A confirmed request begins: an operation on a UID not given out yet is excused.
LEMMA BeginKeeps ==
    ASSUME IInv, NEW o \in Ops, NEW r \in Requests, Begin(o, r)
    PROVE  IInv'
  <1>1. /\ mail \in Mailboxes /\ Ascending(mail) /\ TypeOK
        /\ clean \in SUBSET UIDs /\ Known(mail, clean) /\ touched \subseteq Msgs
        /\ excused \subseteq Ops
        /\ \A p \in Ops \ excused :
              pc[p] \in {"expunge", "expunge.all"} => req[p].uid \in UIDs /\ Target(p) # Unborn
    BY AtClient
  <1>2. /\ pc[o] = "idle" /\ UNCHANGED <<mail, caps, worked, collateral, touched, clean>>
        /\ pc' = [pc EXCEPT ![o] = "select"] /\ req' = [req EXCEPT ![o] = r]
        /\ excused' = IF mail[r.uid] = Unborn THEN excused \cup {o} ELSE excused
    BY DEF Begin, Goto
  <1>3. /\ pc'[o] = "select" /\ req'[o] = r
        /\ \A p \in Ops \ {o} : pc'[p] = pc[p] /\ req'[p] = req[p]
                                /\ (p \in excused' <=> p \in excused)
    BY <1>1, <1>2 DEF TypeOK
  <1>4. /\ Effect(mail, mail') /\ KeepsMarks(mail, mail') /\ Made(mail, mail') = {}
        /\ LatestKept(mail, clean, mail', Msgs \ touched') /\ FlagsKeptBut(mail, mail', {})
    BY <1>1, <1>2, NothingChanged
  <1>5. excused \subseteq excused' /\ excused' \subseteq Ops /\ touched \subseteq touched'
        /\ clean' = clean \cup Made(mail, mail')
    BY <1>1, <1>2, <1>4
  <1>6. /\ clean' \subseteq UIDs /\ Known(mail', clean')
        /\ AllSafe(mail', clean', Msgs \ touched')
    BY <1>4, <1>5, CopiesKept
  <1>7. TypeOK'
    <2>1. pc' \in [Ops -> Labels] BY <1>1, <1>2 DEF TypeOK, Labels
    <2>2. req' \in [Ops -> {NoRequest} \cup Requests] BY <1>1, <1>2 DEF TypeOK
    <2>3. QED BY <1>1, <1>2, <1>5, <1>6, <2>1, <2>2 DEF TypeOK, Labels
  <1>8. req[o] = NoRequest /\ o \notin excused
    BY <1>2, InvariantByOperation DEF Promises, OperationInv
  <1>9. ASSUME NEW p \in Ops \ {o} PROVE Promises(p)' /\ HasCopied(p)'
    <2>1. req[o].kind = "none" BY <1>8 DEF NoRequest
    <2>2. Alone(p)' => Alone(p) BY <1>3, <2>1 DEF Alone
    <2>3. p \notin excused' /\ pc[p] \in {"expunge", "expunge.all"}
            => MarkKept(mail, mail', req[p].uid)
      BY <1>2 DEF MarkKept
    <2>4. Promises(p)' BY <1>3, <1>4, <2>2, <2>3, PromisesKept
    <2>5. HasCopied(p)' BY <1>3, <1>4, <1>5, HasCopiedKept
    <2>6. QED BY <2>4, <2>5
  <1>10. Promises(o)' /\ HasCopied(o)'
    BY <1>2, <1>3, <1>8 DEF Promises, OperationInv, HasCopied, Target, Pending
  <1>11. Ascending(mail') BY <1>1, <1>2
  <1>12. QED BY <1>6, <1>7, <1>9, <1>10, <1>11, InvariantByOperationNext
-----------------------------------------------------------------------------
(* The invariant and what follows from it.                                 *)

\* Every step keeps the invariant.
LEMMA StepIInv == IInv /\ [Next]_vars => IInv'
  <1> SUFFICES ASSUME IInv, [Next]_vars PROVE IInv'
    OBVIOUS
  <1>1. ASSUME NEW o \in Ops, NEW r \in Requests, Begin(o, r) PROVE IInv'
    BY <1>1, BeginKeeps
  <1>2. ASSUME NEW o \in Ops, Step(o) PROVE IInv'
    <2>1. CASE Select(o) BY <2>1, SelectKeeps
    <2>2. CASE MoveCommand(o) BY <2>2, MoveCommandKeeps
    <2>3. CASE CopyCommand(o) BY <2>3, CopyCommandKeeps
    <2>4. CASE StoreDeleted(o) BY <2>4, StoreDeletedKeeps
    <2>5. CASE ExpungeUID(o)
      <3>1. pc[o] = "expunge" BY <2>5 DEF ExpungeUID
      <3>2. req[o].uid \in UIDs BY <3>1, AtCommand
      <3>3. {req[o].uid} \in SUBSET UIDs BY <3>2
      <3>4. QED BY <2>5, <3>1, <3>3, ExpungeKeeps DEF ExpungeUID
    <2>6. CASE ExpungeFallback(o) BY <2>6, ExpungeFallbackKeeps
    <2>7. CASE ExpungeAll(o)
      <3>1. pc[o] = "expunge.all" BY <2>7 DEF ExpungeAll
      <3>2. req[o].uid \in UIDs BY <3>1, AtCommand
      <3>3. UIDs \in SUBSET UIDs OBVIOUS
      <3>4. QED BY <2>7, <3>1, <3>2, <3>3, ExpungeKeeps DEF ExpungeAll
    <2>8. CASE AddFlags(o) BY <2>8, AddFlagsKeeps
    <2>9. CASE RemoveFlags(o) BY <2>9, RemoveFlagsKeeps
    <2>10. QED BY <1>2, <2>1, <2>2, <2>3, <2>4, <2>5, <2>6, <2>7, <2>8, <2>9 DEF Step
  <1>3. ASSUME NEW u \in UIDs, OtherMarks(u) PROVE IInv'
    BY <1>3, OtherMarksKeeps
  <1>4. ASSUME NEW u \in UIDs, OtherUnmarks(u) PROVE IInv'
    BY <1>4, OtherUnmarksKeeps
  <1>5. ASSUME NEW f \in Folders, OtherExpunges(f) PROVE IInv'
    BY <1>5, OtherExpungesKeeps
  <1>6. CASE UNCHANGED vars
    <2>1. /\ mail \in Mailboxes /\ Ascending(mail) /\ TypeOK
          /\ clean \in SUBSET UIDs /\ Known(mail, clean) /\ touched \subseteq Msgs
          /\ excused \subseteq Ops
      BY AtClient
    <2>2. UNCHANGED <<mail, caps, pc, req, worked, collateral, touched, excused, clean>>
      BY <1>6 DEF vars
    <2>3. /\ Effect(mail, mail') /\ Made(mail, mail') = {}
          /\ LatestKept(mail, clean, mail', Msgs \ touched') /\ FlagsKeptBut(mail, mail', {})
      BY <2>1, <2>2, NothingChanged
    <2>4. \A p \in Ops : MarkKept(mail, mail', req[p].uid) BY <2>2 DEF MarkKept
    <2>5. QED BY <2>1, <2>2, <2>3, <2>4, ClientKeeps
  <1>7. QED BY <1>1, <1>2, <1>3, <1>4, <1>5, <1>6 DEF Next, Quiescent

\* Every message starts with one copy, which has no mark.
LEMMA InitIInv == Init => IInv
  <1> SUFFICES ASSUME Init PROVE IInv
    OBVIOUS
  <1> DEFINE First == [folder : Folders, msg : Msgs, flags : {{Flagged}}]
             Of(x) == {u \in UIDs : Exists(mail, u) /\ mail[u].msg = x}
  <1>1. /\ mail \in [UIDs -> First \cup {Unborn}] /\ Ascending(mail)
        /\ \A x \in Msgs : Cardinality(Of(x)) = 1
    BY DEF Init
  <1>2. /\ caps \in SUBSET {"MOVE", "UIDPLUS"} /\ pc = [o \in Ops |-> "idle"]
        /\ req = [o \in Ops |-> NoRequest]
        /\ worked = {} /\ collateral = {} /\ touched = {} /\ excused = {}
        /\ clean = {u \in UIDs : Exists(mail, u)}
    BY DEF Init
  <1>3. First \subseteq Copies BY DEF Copies, Flags, Allowed
  <1>4. mail \in Mailboxes BY <1>1, <1>3 DEF Mailboxes
  <1>5. TypeOK BY <1>2, <1>4 DEF TypeOK, Mailboxes
  <1>6. Known(mail, clean) BY <1>2 DEF Known, Exists
  <1>7. ASSUME NEW x \in Msgs PROVE \E v \in UIDs : Latest(mail, clean, x, v)
    <2>1. IsFiniteSet(Of(x))
      <3>1. IsFiniteSet(UIDs) BY MailboxAssumption, FS_Interval DEF UIDs
      <3>2. QED BY <3>1, FS_Subset
    <2> HIDE DEF Of
    <2>2. PICK v : Of(x) = {v} BY <1>1, <2>1, FS_Singleton
    <2>3. v \in UIDs /\ Exists(mail, v) /\ mail[v].msg = x BY <2>2 DEF Of
    <2>4. mail[v] \in First BY <1>1, <2>3 DEF Exists
    <2>5. Deleted \notin mail[v].flags BY <2>4 DEF Deleted, Flagged
    <2>6. \A u \in clean : Exists(mail, u) /\ mail[u].msg = x => u = v BY <1>2, <2>2 DEF Of
    <2>7. v <= v BY <1>4, <2>3, CopyExists
    <2>8. Latest(mail, clean, x, v) BY <1>2, <2>3, <2>5, <2>6, <2>7 DEF Latest, SafeCopy
    <2>9. QED BY <2>3, <2>8
  <1>8. AllSafe(mail, clean, Msgs \ touched) BY <1>7 DEF AllSafe
  <1>9. ASSUME NEW o \in Ops PROVE Promises(o) /\ HasCopied(o)
    <2>1. pc[o] = "idle" /\ req[o] = NoRequest /\ o \notin excused BY <1>2
    <2>2. QED BY <2>1 DEF Promises, OperationInv, HasCopied
  <1>10. QED BY <1>1, <1>5, <1>6, <1>8, <1>9, InvariantByOperation

\* The invariant of the mailbox operations, whatever other operations and other clients
\* do: they mark and unmark messages and expunge folders as they like.
THEOREM MailboxInvariance == Spec => []IInv
  BY InitIInv, StepIInv, PTL DEF Spec

\* No message is lost that nobody asked to delete.
THEOREM NothingLost == Spec => []NoLoss
  <1>1. IInv => NoLoss BY DEF IInv, NoLoss, LatestSafe
  <1>2. QED BY <1>1, MailboxInvariance, PTL

\* A move or a delete that reports success has taken the copy from its folder, unless
\* another client took its mark off in between or there was no such UID.
THEOREM SuccessMeansGone == Spec => []OkMeansGone
  <1>1. IInv => OkMeansGone BY DEF IInv
  <1>2. QED BY <1>1, MailboxInvariance, PTL

\* A flag update that reports success was applied as a whole.
THEOREM UpdatesApplied == Spec => []FlagsApplied
  <1>1. IInv => FlagsApplied BY DEF IInv
  <1>2. QED BY <1>1, MailboxInvariance, PTL
=============================================================================
