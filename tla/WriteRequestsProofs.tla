-------------------------- MODULE WriteRequestsProofs --------------------------
(***************************************************************************)
(* Proofs about WriteRequests, for any words of folders, flags and         *)
(* addresses and lists of any length: what is staged is what was asked     *)
(* for, and what was confirmed is executed unchanged.                      *)
(***************************************************************************)
EXTENDS WriteRequests, ListFacts

-----------------------------------------------------------------------------
(* What becomes of a list.                                                 *)

\* What one name adds to the list of flags.
AddFlag(out, raw) ==
    IF IsBlank(raw) \/ Contains(out, Canonical(raw)) THEN out ELSE Append(out, Canonical(raw))

\* The list of flags, from the first name to the last.
LEMMA FlagsTrace ==
    ASSUME NEW n \in Nat, NEW list \in [1 .. n -> FlagNames]
    PROVE  \E h \in [0 .. n -> Seq(FlagNames)] :
               /\ h[0] = << >> /\ h[n] = NormalizeList(list)
               /\ \A k \in 1 .. n : h[k] = AddFlag(h[k - 1], list[k])
<1> DEFINE T == Seq(FlagNames)
           step == [k \in 1 .. n |-> [out \in T |-> AddFlag(out, list[k])]]
           Fold(f) == f = [x \in SUBSET (DOMAIN list) |->
                              IF x = {} THEN << >> ELSE AddFlag(f[x \ {Max(x)}], list[Max(x)])]
           iter == CHOOSE f : Fold(f)
<1>1. DOMAIN list = 1 .. n OBVIOUS
<1>2. ASSUME NEW out \in T, NEW k \in 1 .. n PROVE AddFlag(out, list[k]) \in T
  <2>1. Canonical(list[k]) \in FlagNames BY DEF Canonical, FlagNames
  <2>. QED BY <2>1 DEF AddFlag
<1>3. step \in [1 .. n -> [T -> T]] BY <1>2
<1>4. << >> \in T OBVIOUS
<1>5. \E f : Fold(f)
  <2>1. PICK f \in [SUBSET (1 .. n) -> T] : FoldsBy(f, n, << >>, step)
    <3> HIDE DEF step, T, Fold
    <3>. QED BY <1>3, <1>4, FoldExists
  <2>2. ASSUME NEW x \in SUBSET (1 .. n), x # {}
        PROVE  step[Max(x)][f[x \ {Max(x)}]] = AddFlag(f[x \ {Max(x)}], list[Max(x)])
    <3>1. Max(x) \in 1 .. n BY <2>2, MaxOfSome
    <3>2. f[x \ {Max(x)}] \in T OBVIOUS
    <3>. QED BY <3>1, <3>2
  <2> HIDE DEF step
  <2>3. Fold(f) BY Zenon, <1>1, <2>1, <2>2 DEF FoldsBy
  <2>. QED BY <2>3
<1>6. Fold(iter) BY Zenon, <1>5
<1>7. NormalizeList(list) = iter[1 .. n]
  <2>1. NormalizeList(list) = iter[DOMAIN list]
        BY Zenon DEF NormalizeList, FoldLeft, MapThenFoldSet, AddFlag
  <2>. QED BY Zenon, <1>1, <2>1
<1> HIDE DEF iter
<1>8. iter[{}] = << >> BY Zenon, <1>1, <1>6
<1>9. IsFold(iter, T, n, << >>, step)
  <2>1. \A x \in SUBSET (1 .. n) :
             x # {} /\ iter[x \ {Max(x)}] \in T => iter[x] = step[Max(x)][iter[x \ {Max(x)}]]
    <3> SUFFICES ASSUME NEW x \in SUBSET (1 .. n), x # {}, iter[x \ {Max(x)}] \in T
                 PROVE  iter[x] = step[Max(x)][iter[x \ {Max(x)}]]
      BY Zenon
    <3>1. Max(x) \in 1 .. n BY MaxOfSome
    <3>2. iter[x] = AddFlag(iter[x \ {Max(x)}], list[Max(x)]) BY Zenon, <1>1, <1>6
    <3>. QED BY <3>1, <3>2
  <2>. QED BY Zenon, <1>8, <2>1 DEF IsFold
<1>10. PICK h \in [0 .. n -> T] : Traces(h, n, << >>, step, iter[1 .. n])
  <2> HIDE DEF step, T, Fold
  <2>. QED BY <1>3, <1>4, <1>9, FoldTrace
<1>11. ASSUME NEW k \in 1 .. n PROVE h[k] = AddFlag(h[k - 1], list[k])
  <2>1. k - 1 \in 0 .. n /\ h[k - 1] \in T OBVIOUS
  <2>. QED BY <1>10, <2>1 DEF Traces
<1> HIDE DEF step
<1>. QED BY Zenon, <1>7, <1>10, <1>11 DEF Traces
-----------------------------------------------------------------------------
\* What one entry adds to the list of addresses.
AddAddress(out, raw) == IF IsBlank(raw) THEN out ELSE Append(out, raw.word)

\* The list of addresses, from the first entry to the last.
LEMMA AddressesTrace ==
    ASSUME NEW n \in Nat, NEW list \in [1 .. n -> Recipients]
    PROVE  \E h \in [0 .. n -> Seq(AddressWords \cup {Blank})] :
               /\ h[0] = << >> /\ h[n] = Addresses(list)
               /\ \A k \in 1 .. n : h[k] = AddAddress(h[k - 1], list[k])
<1> DEFINE T == Seq(AddressWords \cup {Blank})
           step == [k \in 1 .. n |-> [out \in T |-> AddAddress(out, list[k])]]
           Fold(f) == f = [x \in SUBSET (DOMAIN list) |->
                              IF x = {} THEN << >> ELSE AddAddress(f[x \ {Max(x)}], list[Max(x)])]
           iter == CHOOSE f : Fold(f)
<1>1. DOMAIN list = 1 .. n OBVIOUS
<1>2. ASSUME NEW out \in T, NEW k \in 1 .. n PROVE AddAddress(out, list[k]) \in T
  <2>1. list[k].word \in AddressWords \cup {Blank} BY DEF Recipients
  <2>. QED BY <2>1 DEF AddAddress
<1>3. step \in [1 .. n -> [T -> T]] BY <1>2
<1>4. << >> \in T OBVIOUS
<1>5. \E f : Fold(f)
  <2>1. PICK f \in [SUBSET (1 .. n) -> T] : FoldsBy(f, n, << >>, step)
    <3> HIDE DEF step, T, Fold
    <3>. QED BY <1>3, <1>4, FoldExists
  <2>2. ASSUME NEW x \in SUBSET (1 .. n), x # {}
        PROVE  step[Max(x)][f[x \ {Max(x)}]] = AddAddress(f[x \ {Max(x)}], list[Max(x)])
    <3>1. Max(x) \in 1 .. n BY <2>2, MaxOfSome
    <3>2. f[x \ {Max(x)}] \in T OBVIOUS
    <3>. QED BY <3>1, <3>2
  <2> HIDE DEF step
  <2>3. Fold(f) BY Zenon, <1>1, <2>1, <2>2 DEF FoldsBy
  <2>. QED BY <2>3
<1>6. Fold(iter) BY Zenon, <1>5
<1>7. Addresses(list) = iter[1 .. n]
  <2>1. Addresses(list) = iter[DOMAIN list]
        BY Zenon DEF Addresses, FoldLeft, MapThenFoldSet, AddAddress
  <2>. QED BY Zenon, <1>1, <2>1
<1> HIDE DEF iter
<1>8. iter[{}] = << >> BY Zenon, <1>1, <1>6
<1>9. IsFold(iter, T, n, << >>, step)
  <2>1. \A x \in SUBSET (1 .. n) :
             x # {} /\ iter[x \ {Max(x)}] \in T => iter[x] = step[Max(x)][iter[x \ {Max(x)}]]
    <3> SUFFICES ASSUME NEW x \in SUBSET (1 .. n), x # {}, iter[x \ {Max(x)}] \in T
                 PROVE  iter[x] = step[Max(x)][iter[x \ {Max(x)}]]
      BY Zenon
    <3>1. Max(x) \in 1 .. n BY MaxOfSome
    <3>2. iter[x] = AddAddress(iter[x \ {Max(x)}], list[Max(x)]) BY Zenon, <1>1, <1>6
    <3>. QED BY <3>1, <3>2
  <2>. QED BY Zenon, <1>8, <2>1 DEF IsFold
<1>10. PICK h \in [0 .. n -> T] : Traces(h, n, << >>, step, iter[1 .. n])
  <2> HIDE DEF step, T, Fold
  <2>. QED BY <1>3, <1>4, <1>9, FoldTrace
<1>11. ASSUME NEW k \in 1 .. n PROVE h[k] = AddAddress(h[k - 1], list[k])
  <2>1. k - 1 \in 0 .. n /\ h[k - 1] \in T OBVIOUS
  <2>. QED BY <1>10, <2>1 DEF Traces
<1> HIDE DEF step
<1>. QED BY Zenon, <1>7, <1>10, <1>11 DEF Traces
-----------------------------------------------------------------------------
\* The names that are not blank.
Named(names) == {Canonical(f) : f \in {g \in names : ~IsBlank(g)}}

\* What is left of a list of flag names: each nonblank one, in canonical form and once.
LEMMA NormalizedList ==
    ASSUME NEW n \in Nat, NEW list \in [1 .. n -> FlagNames]
    PROVE  /\ NormalizeList(list) \in Seq(FlagNames)
           /\ ToSet(NormalizeList(list)) = Named(ToSet(list))
           /\ IsInjective(NormalizeList(list))
<1>1. PICK h \in [0 .. n -> Seq(FlagNames)] :
               /\ h[0] = << >> /\ h[n] = NormalizeList(list)
               /\ \A k \in 1 .. n : h[k] = AddFlag(h[k - 1], list[k])
      BY FlagsTrace
<1> DEFINE First(k) == {list[i] : i \in 1 .. k}
           P == {k \in 0 .. n : ToSet(h[k]) = Named(First(k)) /\ IsInjective(h[k])}
<1>2. 0 \in P
  <2>1. First(0) = {} OBVIOUS
  <2>2. ToSet(<< >>) = {} /\ IsInjective(<< >>) BY DEF ToSet, IsInjective
  <2>. QED BY <1>1, <2>1, <2>2 DEF Named
<1>3. ASSUME NEW k \in 1 .. n, k - 1 \in P PROVE k \in P
  <2> DEFINE s == h[k - 1]
             raw == list[k]
             before == First(k - 1)
  <2>1. s \in Seq(FlagNames) /\ ToSet(s) = Named(before) /\ IsInjective(s) BY <1>3
  <2>2. First(k) = before \cup {raw} OBVIOUS
  <2>3. h[k] = AddFlag(s, raw) BY <1>1
  <2>. k \in 0 .. n OBVIOUS
  <2> HIDE DEF s, raw, before, First
  <2>4. Named(before \cup {raw}) = IF IsBlank(raw) THEN Named(before) ELSE Named(before) \cup {Canonical(raw)}
        BY DEF Named
  <2>5. Contains(s, Canonical(raw)) <=> Canonical(raw) \in ToSet(s)
        BY <2>1 DEF Contains, ToSet
  <2>6. CASE IsBlank(raw) \/ Contains(s, Canonical(raw))
    <3>1. h[k] = s BY <2>3, <2>6 DEF AddFlag
    <3>. QED BY <2>1, <2>2, <2>4, <2>5, <2>6, <3>1
  <2>7. CASE ~IsBlank(raw) /\ ~Contains(s, Canonical(raw))
    <3> DEFINE t == Append(s, Canonical(raw))
    <3>1. h[k] = t BY <2>3, <2>7 DEF AddFlag
    <3>2. DOMAIN t = DOMAIN s \cup {Len(s) + 1} /\ Len(s) + 1 \notin DOMAIN s BY <2>1
    <3>3. (\A i \in DOMAIN s : t[i] = s[i]) /\ t[Len(s) + 1] = Canonical(raw) BY <2>1
    <3> HIDE DEF t
    <3>4. ToSet(t) = ToSet(s) \cup {Canonical(raw)} BY <3>2, <3>3 DEF ToSet
    <3>5. IsInjective(t)
      <4>1. \A i \in DOMAIN s : s[i] # Canonical(raw) BY <2>5, <2>7 DEF ToSet
      <4>2. \A i, j \in DOMAIN s : s[i] = s[j] => i = j BY <2>1 DEF IsInjective
      <4>. QED BY <3>2, <3>3, <4>1, <4>2 DEF IsInjective
    <3>. QED BY <2>1, <2>2, <2>4, <2>7, <3>1, <3>4, <3>5
  <2>. QED BY <2>6, <2>7
<1>4. n \in P
  <2> HIDE DEF P
  <2>1. \A k \in 0 .. n : k \in P BY <1>2, <1>3, NumbersUpTo
  <2>. QED BY <2>1
<1>5. ToSet(list) = First(n) BY DEF ToSet
<1>6. h[n] \in Seq(FlagNames) OBVIOUS
<1> HIDE DEF First
<1>. QED BY <1>1, <1>4, <1>5, <1>6

\* Canonical names that differ are left as they are.
LEMMA NormalizedTwice ==
    ASSUME NEW list \in Seq(FlagNames), IsInjective(list),
           \A k \in DOMAIN list : ~IsBlank(list[k]) /\ Canonical(list[k]) = list[k]
    PROVE  NormalizeList(list) = list
<1> DEFINE n == Len(list)
<1>1. n \in Nat /\ list \in [1 .. n -> FlagNames] OBVIOUS
<1>2. PICK h \in [0 .. n -> Seq(FlagNames)] :
               /\ h[0] = << >> /\ h[n] = NormalizeList(list)
               /\ \A k \in 1 .. n : h[k] = AddFlag(h[k - 1], list[k])
  <2> HIDE DEF n
  <2>. QED BY <1>1, FlagsTrace
<1> DEFINE P == {k \in 0 .. n : h[k] = SubSeq(list, 1, k)}
<1>3. 0 \in P
  <2>1. SubSeq(list, 1, 0) = << >> /\ 0 \in 0 .. n OBVIOUS
  <2>. QED BY Zenon, <1>2, <2>1
<1>4. ASSUME NEW k \in 1 .. n, k - 1 \in P PROVE k \in P
  <2> DEFINE s == SubSeq(list, 1, k - 1)
  <2>1. h[k] = AddFlag(s, list[k]) BY <1>2, <1>4
  <2>2. s \in Seq(FlagNames) /\ Len(s) = k - 1 /\ \A i \in 1 .. k - 1 : s[i] = list[i] OBVIOUS
  <2>3. ~Contains(s, list[k])
    <3>1. \A i \in 1 .. k - 1 : list[i] # list[k] BY DEF IsInjective
    <3> HIDE DEF s
    <3>. QED BY <2>2, <3>1 DEF Contains
  <2>4. h[k] = Append(s, list[k]) BY <2>1, <2>3 DEF AddFlag
  <2>5. Append(s, list[k]) = SubSeq(list, 1, k) OBVIOUS
  <2> HIDE DEF s
  <2>6. k \in 0 .. n OBVIOUS
  <2>. QED BY Zenon, <2>6, <2>4, <2>5
<1>5. n \in P
  <2> HIDE DEF P
  <2>1. \A k \in 0 .. n : k \in P
    <3> HIDE DEF n
    <3>. QED BY <1>1, <1>3, <1>4, NumbersUpTo
  <2>. QED BY <1>1, <2>1
<1>6. SubSeq(list, 1, n) = list OBVIOUS
<1>. QED BY <1>2, <1>5, <1>6

\* A list without blank entries is the list of its addresses.
LEMMA AllAddresses ==
    ASSUME NEW n \in Nat, NEW list \in [1 .. n -> Recipients],
           \A k \in 1 .. n : ~IsBlank(list[k])
    PROVE  Addresses(list) = [k \in 1 .. n |-> list[k].word]
<1> DEFINE words == [k \in 1 .. n |-> list[k].word]
<1>0. words \in Seq(AddressWords \cup {Blank}) /\ Len(words) = n
  <2>1. \A k \in 1 .. n : list[k].word \in AddressWords \cup {Blank} BY DEF Recipients
  <2>. QED BY <2>1
<1>1. PICK h \in [0 .. n -> Seq(AddressWords \cup {Blank})] :
               /\ h[0] = << >> /\ h[n] = Addresses(list)
               /\ \A k \in 1 .. n : h[k] = AddAddress(h[k - 1], list[k])
      BY AddressesTrace
<1>2. \A k \in 1 .. n : words[k] = list[k].word OBVIOUS
<1> HIDE DEF words
<1> DEFINE P == {k \in 0 .. n : h[k] = SubSeq(words, 1, k)}
<1>3. 0 \in P BY <1>0, <1>1
<1>4. ASSUME NEW k \in 1 .. n, k - 1 \in P PROVE k \in P
  <2>1. h[k] = Append(SubSeq(words, 1, k - 1), words[k]) BY <1>1, <1>2, <1>4 DEF AddAddress
  <2>2. Append(SubSeq(words, 1, k - 1), words[k]) = SubSeq(words, 1, k) BY <1>0
  <2>3. k \in 0 .. n OBVIOUS
  <2>. QED BY Zenon, <2>1, <2>2, <2>3
<1>5. n \in P
  <2> HIDE DEF P
  <2>1. \A k \in 0 .. n : k \in P BY <1>3, <1>4, NumbersUpTo
  <2>. QED BY <2>1
<1>6. SubSeq(words, 1, n) = words BY <1>0
<1>. QED BY <1>1, <1>5, <1>6 DEF words
-----------------------------------------------------------------------------
(* What the request tools freeze.                                          *)

\* A folder that has been trimmed, defaulted and checked.
Normal(folder) ==
    /\ folder \in FolderNames
    /\ ~IsBlank(folder) /\ ~folder.pad /\ ~folder.bad

\* A move, a delete, a flag update and a send as they are frozen.
MoveFrozen(f) ==
    /\ f = [kind |-> "move", folder |-> f.folder, uid |-> f.uid, dest |-> f.dest]
    /\ Normal(f.folder) /\ Normal(f.dest)
    /\ ValidUID(f.uid) /\ ~EqualFold(f.folder, f.dest)

DeleteFrozen(f) ==
    /\ f = [kind |-> "delete", folder |-> f.folder, uid |-> f.uid]
    /\ Normal(f.folder) /\ ValidUID(f.uid)

\* A list of flags that norm leaves as it is.
NormalList(list) ==
    /\ list \in Seq(FlagNames) /\ IsInjective(list)
    /\ \A k \in DOMAIN list :
           ~IsBlank(list[k]) /\ Canonical(list[k]) = list[k] /\ list[k].word \in AllowedWords

FlagsFrozen(f) ==
    /\ f = [kind |-> "set_flags", folder |-> f.folder, uid |-> f.uid,
            add |-> f.add, remove |-> f.remove]
    /\ Normal(f.folder) /\ ValidUID(f.uid)
    /\ NormalList(f.add) /\ NormalList(f.remove)
    /\ ToSet(f.add) \cap ToSet(f.remove) = {}
    /\ ~(f.add = << >> /\ f.remove = << >>)

SendFrozen(f) ==
    /\ f.kind = "send"
    /\ f.to \in Seq(Recipients) /\ f.cc \in Seq(Recipients) /\ f.bcc \in Seq(Recipients)

Staged(f) == MoveFrozen(f) \/ DeleteFrozen(f) \/ FlagsFrozen(f) \/ SendFrozen(f)

RequestInv ==
    /\ phase \in {"new", "rejected", "frozen", "executed", "failed"}
    /\ phase \in {"new", "rejected"} => frozen = Nothing
    /\ phase \in {"frozen", "executed", "failed"} => Staged(frozen)
    /\ phase = "executed" => wire = Wire(frozen) /\ Wire(frozen) # Rejected
    /\ phase = "failed" => Wire(frozen) = Rejected
    /\ phase # "executed" => wire = Nothing
    /\ FlagsAsAsked

\* The first normalisation: whatever is not refused is trimmed, named and well formed.
LEMMA Normalized ==
    ASSUME NEW folder \in FolderNames
    PROVE  /\ NormalizeFolder(folder) = Rejected \/ Normal(NormalizeFolder(folder))
           /\ NormalizeDest(folder) = Rejected \/ Normal(NormalizeDest(folder))
BY RequestAssumption
DEF NormalizeFolder, NormalizeDest, TrimSpace, IsBlank, DefaultFolder, Normal, FolderNames, Rejected

\* The second one leaves such a folder as it is.
LEMMA NormalTwice ==
    ASSUME NEW folder, Normal(folder)
    PROVE  TrimSpace(folder) = folder /\ BackendFolder(folder) = folder
BY DEF BackendFolder, TrimSpace, IsBlank, Normal, FolderNames

\* A folder is not an error.
LEMMA NotRejected ==
    ASSUME NEW folder, Normal(folder)
    PROVE  folder # Rejected
BY DEF Normal, FolderNames, Rejected

\* Folders that do not differ in case only have different words.
LEMMA WordsDiffer ==
    ASSUME NEW folder, NEW dest, Normal(folder), Normal(dest), ~EqualFold(folder, dest)
    PROVE  folder.word # dest.word
BY DEF EqualFold, Normal, FolderNames

\* A move that was frozen has two folders and a uid that the backend accepts unchanged.
LEMMA FrozenMoves ==
    ASSUME NEW in \in Moves, FrozenMove(in) # Rejected
    PROVE  MoveFrozen(FrozenMove(in))
<1> DEFINE folder == NormalizeFolder(in.folder)
           dest == NormalizeDest(in.dest)
<1>1. in.folder \in FolderNames /\ in.dest \in FolderNames BY DEF Moves
<1>2. /\ folder # Rejected /\ dest # Rejected /\ ValidUID(in.uid) /\ ~EqualFold(folder, dest)
      /\ FrozenMove(in) = [kind |-> "move", folder |-> folder, uid |-> in.uid, dest |-> dest]
      BY DEF FrozenMove
<1>3. Normal(folder) /\ Normal(dest) BY <1>1, <1>2, Normalized
<1> HIDE DEF folder, dest
<1>. QED BY <1>2, <1>3 DEF MoveFrozen

\* A delete that was frozen has a folder and a uid that the backend accepts unchanged.
LEMMA FrozenDeletes ==
    ASSUME NEW in \in Deletes, FrozenDelete(in) # Rejected
    PROVE  DeleteFrozen(FrozenDelete(in))
<1> DEFINE folder == NormalizeFolder(in.folder)
<1>1. in.folder \in FolderNames BY DEF Deletes
<1>2. /\ folder # Rejected /\ ValidUID(in.uid)
      /\ FrozenDelete(in) = [kind |-> "delete", folder |-> folder, uid |-> in.uid]
      BY DEF FrozenDelete
<1>3. Normal(folder) BY <1>1, <1>2, Normalized
<1> HIDE DEF folder
<1>. QED BY <1>2, <1>3 DEF DeleteFrozen

\* The second normalisation of flags that were normalised.
LEMMA NormalListTwice ==
    ASSUME NEW list, NormalList(list)
    PROVE  NormalizeList(list) = list /\ ListAllowed(list)
<1>1. /\ list \in Seq(FlagNames) /\ IsInjective(list)
      /\ \A k \in DOMAIN list : ~IsBlank(list[k]) /\ Canonical(list[k]) = list[k]
      BY DEF NormalList
<1>2. NormalizeList(list) = list BY <1>1, NormalizedTwice
<1>3. ListAllowed(list) BY DEF NormalList, ListAllowed
<1>. QED BY <1>2, <1>3

\* What norm makes of a list that is allowed.
LEMMA NormalizedIsNormal ==
    ASSUME NEW list \in FlagLists, ListAllowed(list)
    PROVE  NormalList(NormalizeList(list)) /\ ToSet(NormalizeList(list)) = Named(ToSet(list))
<1>1. PICK n \in Nat : list \in [1 .. n -> FlagNames] BY RequestAssumption DEF FlagLists
<1> DEFINE out == NormalizeList(list)
<1>2. out \in Seq(FlagNames) /\ ToSet(out) = Named(ToSet(list)) /\ IsInjective(out)
  <2>1. \A m \in Nat : list \in [1 .. m -> FlagNames] =>
           out \in Seq(FlagNames) /\ ToSet(out) = Named(ToSet(list)) /\ IsInjective(out)
        BY Zenon, NormalizedList
  <2>. QED BY <1>1, <2>1
<1> HIDE DEF out
<1>3. ASSUME NEW k \in DOMAIN out
      PROVE  ~IsBlank(out[k]) /\ Canonical(out[k]) = out[k] /\ out[k].word \in AllowedWords
  <2>1. out[k] \in Named(ToSet(list)) BY <1>2 DEF ToSet
  <2>2. PICK raw \in ToSet(list) : ~IsBlank(raw) /\ out[k] = Canonical(raw) BY <2>1 DEF Named
  <2>3. PICK i \in DOMAIN list : raw = list[i] BY DEF ToSet
  <2>4. raw.word \in AllowedWords BY <2>2, <2>3 DEF ListAllowed
  <2>. QED BY <2>2, <2>4 DEF Canonical, IsBlank
<1>. QED BY <1>2, <1>3 DEF NormalList, out

\* A flag update that was frozen: the lists that were asked for, in a form that the
\* backend accepts unchanged.
LEMMA FrozenUpdates ==
    ASSUME NEW in \in FlagUpdates, FrozenFlags(in) # Rejected
    PROVE  /\ FlagsFrozen(FrozenFlags(in))
           /\ ToSet(FrozenFlags(in).add) = Named(ToSet(in.add))
           /\ ToSet(FrozenFlags(in).remove) = Named(ToSet(in.remove))
<1> DEFINE folder == NormalizeFolder(in.folder)
           add == NormalizeList(in.add)
           remove == NormalizeList(in.remove)
<1>1. in.folder \in FolderNames /\ in.add \in FlagLists /\ in.remove \in FlagLists
  <2>1. DefaultFolder \in FolderNames BY RequestAssumption DEF DefaultFolder, FolderNames
  <2>2. in.folder = DefaultFolder /\ in.add \in FlagLists /\ in.remove \in FlagLists
        BY DEF FlagUpdates
  <2>. QED BY <2>1, <2>2
<1>2. /\ folder # Rejected /\ ValidUID(in.uid)
      /\ NormalizeFlags(in.add, in.remove) # Rejected
      /\ FrozenFlags(in) = [kind |-> "set_flags", folder |-> folder, uid |-> in.uid,
                            add |-> NormalizeFlags(in.add, in.remove).add,
                            remove |-> NormalizeFlags(in.add, in.remove).remove]
      BY DEF FrozenFlags
<1>3. /\ ListAllowed(in.add) /\ ListAllowed(in.remove)
      /\ ToSet(add) \cap ToSet(remove) = {} /\ ~(add = << >> /\ remove = << >>)
      /\ NormalizeFlags(in.add, in.remove) = [kind |-> "lists", add |-> add, remove |-> remove]
      BY <1>2 DEF NormalizeFlags
<1>4. Normal(folder) BY <1>1, <1>2, Normalized
<1>5. /\ NormalList(add) /\ ToSet(add) = Named(ToSet(in.add))
      /\ NormalList(remove) /\ ToSet(remove) = Named(ToSet(in.remove))
      BY <1>1, <1>3, NormalizedIsNormal
<1> HIDE DEF folder, add, remove
<1>6. FrozenFlags(in) = [kind |-> "set_flags", folder |-> folder, uid |-> in.uid,
                         add |-> add, remove |-> remove]
      BY <1>2, <1>3
<1>. QED BY <1>2, <1>3, <1>4, <1>5, <1>6 DEF FlagsFrozen

\* A send is frozen as it was asked for.
LEMMA FrozenSends ==
    ASSUME NEW in \in Sends, FrozenSend(in) # Rejected
    PROVE  SendFrozen(FrozenSend(in))
<1>1. \A m \in Nat : RecipientLists(m) \subseteq Seq(Recipients) BY DEF RecipientLists
<1>2. in.to \in Seq(Recipients) /\ in.cc \in Seq(Recipients) /\ in.bcc \in Seq(Recipients)
      BY <1>1, RequestAssumption DEF Sends
<1>. QED BY <1>2 DEF FrozenSend, SendFrozen

\* The backend accepts what was frozen and changes nothing in it.
LEMMA WireUnchanged ==
    ASSUME NEW f, MoveFrozen(f) \/ DeleteFrozen(f) \/ FlagsFrozen(f)
    PROVE  Wire(f) = f /\ Wire(f) # Rejected /\ f.kind # "send"
<1>1. CASE MoveFrozen(f)
  <2>1. f.kind = "move" /\ Normal(f.folder) /\ Normal(f.dest) BY <1>1 DEF MoveFrozen
  <2>2. BackendFolder(f.folder) = f.folder /\ TrimSpace(f.dest) = f.dest BY <2>1, NormalTwice
  <2>3. WireMove(f) = f
        BY <1>1, <2>1, <2>2, NotRejected DEF WireMove, MoveFrozen, Normal
  <2>. QED BY <2>1, <2>3 DEF Wire, Rejected
<1>2. CASE DeleteFrozen(f)
  <2>1. f.kind = "delete" /\ Normal(f.folder) BY <1>2 DEF DeleteFrozen
  <2>2. BackendFolder(f.folder) = f.folder BY <2>1, NormalTwice
  <2>3. WireDelete(f) = f
        BY <1>2, <2>1, <2>2, NotRejected DEF WireDelete, DeleteFrozen
  <2>. QED BY <2>1, <2>3 DEF Wire, Rejected
<1>3. CASE FlagsFrozen(f)
  <2>1. f.kind = "set_flags" /\ Normal(f.folder) BY <1>3 DEF FlagsFrozen
  <2>2. BackendFolder(f.folder) = f.folder BY <2>1, NormalTwice
  <2>3. /\ NormalizeList(f.add) = f.add /\ ListAllowed(f.add)
        /\ NormalizeList(f.remove) = f.remove /\ ListAllowed(f.remove)
        BY <1>3, NormalListTwice DEF FlagsFrozen
  <2>4. NormalizeFlags(f.add, f.remove) = [kind |-> "lists", add |-> f.add, remove |-> f.remove]
        BY <1>3, <2>3 DEF NormalizeFlags, FlagsFrozen
  <2>5. WireFlags(f) = f
        BY <1>3, <2>1, <2>2, <2>4, NotRejected DEF WireFlags, FlagsFrozen, Rejected
  <2>. QED BY <2>1, <2>5 DEF Wire, Rejected
<1>. QED BY <1>1, <1>2, <1>3

-----------------------------------------------------------------------------
(* Every step keeps the invariant.                                         *)

\* The initial states satisfy the invariant.
LEMMA RequestInit == Init => RequestInv
BY DEF Init, RequestInv, Nothing, FlagsAsAsked

\* What a request tool freezes is well formed, and for a flag update what was asked for.
LEMMA RequestFreezes ==
    ASSUME NEW in \in Moves \cup Deletes \cup FlagUpdates \cup Sends, Frozen(in) # Rejected
    PROVE  /\ Staged(Frozen(in))
           /\ Frozen(in).kind = "set_flags" =>
                  /\ FlagsFrozen(Frozen(in))
                  /\ ToSet(Frozen(in).add) = Named(ToSet(in.add))
                  /\ ToSet(Frozen(in).remove) = Named(ToSet(in.remove))
<1>1. CASE in \in Moves
  <2>1. Frozen(in) = FrozenMove(in) BY <1>1 DEF Frozen, Moves
  <2>2. MoveFrozen(Frozen(in)) BY <1>1, <2>1, FrozenMoves
  <2>3. Frozen(in).kind = "move" BY <2>2 DEF MoveFrozen
  <2>. QED BY <2>2, <2>3 DEF Staged
<1>2. CASE in \in Deletes
  <2>1. Frozen(in) = FrozenDelete(in) BY <1>2 DEF Frozen, Deletes
  <2>2. DeleteFrozen(Frozen(in)) BY <1>2, <2>1, FrozenDeletes
  <2>3. Frozen(in).kind = "delete" BY <2>2 DEF DeleteFrozen
  <2>. QED BY <2>2, <2>3 DEF Staged
<1>3. CASE in \in FlagUpdates
  <2>1. Frozen(in) = FrozenFlags(in) BY <1>3 DEF Frozen, FlagUpdates
  <2>. QED BY <1>3, <2>1, FrozenUpdates DEF Staged
<1>4. CASE in \in Sends
  <2>1. Frozen(in) = FrozenSend(in) BY <1>4 DEF Frozen, Sends
  <2>2. SendFrozen(Frozen(in)) BY <1>4, <2>1, FrozenSends
  <2>. QED BY <2>2 DEF Staged, SendFrozen
<1>. QED BY <1>1, <1>2, <1>3, <1>4

\* A request keeps the invariant.
LEMMA RequestKeeps ==
    ASSUME RequestInv, NEW in \in Moves \cup Deletes \cup FlagUpdates \cup Sends, Request(in)
    PROVE  RequestInv'
<1> DEFINE f == Frozen(in)
<1>1. /\ phase = "new" /\ frozen = Nothing /\ wire = Nothing
      /\ asked' = in /\ wire' = wire
      /\ \/ f = Rejected /\ phase' = "rejected" /\ frozen' = frozen
         \/ f # Rejected /\ phase' = "frozen" /\ frozen' = f
      BY DEF Request, RequestInv
<1> HIDE DEF f
<1>2. CASE f = Rejected /\ phase' = "rejected" /\ frozen' = frozen
      BY <1>1, <1>2 DEF RequestInv, FlagsAsAsked, Nothing
<1>3. CASE f # Rejected /\ phase' = "frozen" /\ frozen' = f
  <2>1. /\ Staged(f)
        /\ f.kind = "set_flags" =>
               /\ FlagsFrozen(f)
               /\ ToSet(f.add) = Named(ToSet(in.add))
               /\ ToSet(f.remove) = Named(ToSet(in.remove))
        BY <1>3, RequestFreezes DEF f
  <2>2. Staged(frozen)'
        BY <1>3, <2>1 DEF Staged, MoveFrozen, DeleteFrozen, FlagsFrozen, SendFrozen
  <2>3. FlagsAsAsked'
    <3> SUFFICES ASSUME f.kind = "set_flags"
                 PROVE  FlagsAsAsked'
      BY <1>3 DEF FlagsAsAsked
    <3>1. /\ IsInjective(f.add) /\ IsInjective(f.remove)
          /\ ToSet(f.add) \cap ToSet(f.remove) = {}
          BY <2>1 DEF FlagsFrozen, NormalList
    <3>2. ToSet(f.add) \cup ToSet(f.remove) # {}
      <4>1. f.add \in Seq(FlagNames) /\ f.remove \in Seq(FlagNames)
            /\ ~(f.add = << >> /\ f.remove = << >>)
            BY <2>1 DEF FlagsFrozen, NormalList
      <4>2. \A s \in Seq(FlagNames) : s # << >> => s[1] \in ToSet(s) BY DEF ToSet
      <4>. QED BY <4>1, <4>2
    <3>. QED BY <1>1, <1>3, <2>1, <3>1, <3>2 DEF FlagsAsAsked, Named
  <2>. QED BY <1>1, <1>3, <2>2, <2>3 DEF RequestInv
<1>. QED BY <1>1, <1>2, <1>3

\* So does the execution.
LEMMA ExecuteKeeps ==
    ASSUME RequestInv, Execute
    PROVE  RequestInv'
<1>1. /\ phase = "frozen" /\ Staged(frozen) /\ wire = Nothing
      /\ frozen' = frozen /\ asked' = asked
      /\ \/ Wire(frozen) = Rejected /\ phase' = "failed" /\ wire' = wire
         \/ Wire(frozen) # Rejected /\ phase' = "executed" /\ wire' = Wire(frozen)
      BY DEF Execute, RequestInv
<1>2. Staged(frozen)'
      BY <1>1 DEF Staged, MoveFrozen, DeleteFrozen, FlagsFrozen, SendFrozen
<1>3. Wire(frozen)' = Wire(frozen)
      BY <1>1
<1>4. FlagsAsAsked'
      BY <1>1 DEF FlagsAsAsked, RequestInv
<1>. QED BY <1>1, <1>2, <1>3, <1>4 DEF RequestInv

\* Every step keeps the invariant.
LEMMA RequestStep ==
    ASSUME RequestInv, [Next]_vars
    PROVE  RequestInv'
<1>1. ASSUME NEW in \in Moves \cup Deletes \cup FlagUpdates \cup Sends, Request(in)
      PROVE  RequestInv'
      BY <1>1, RequestKeeps
<1>2. CASE Execute BY <1>2, ExecuteKeeps
<1>3. CASE UNCHANGED vars
  <2>1. Staged(frozen)' <=> Staged(frozen)
        BY <1>3 DEF vars, Staged, MoveFrozen, DeleteFrozen, FlagsFrozen, SendFrozen
  <2>2. FlagsAsAsked' <=> FlagsAsAsked BY <1>3 DEF vars, FlagsAsAsked
  <2>3. Wire(frozen)' = Wire(frozen) BY <1>3 DEF vars
  <2>. QED BY <1>3, <2>1, <2>2, <2>3 DEF vars, RequestInv
<1>. QED BY <1>1, <1>2, <1>3 DEF Next
-----------------------------------------------------------------------------
(* The envelope of a message.                                              *)

Words(list) == [k \in DOMAIN list |-> list[k].word]

\* The words of two lists in a row.
LEMMA WordsOfBoth ==
    ASSUME NEW s \in Seq(Recipients), NEW t \in Seq(Recipients)
    PROVE  /\ s \o t \in Seq(Recipients)
           /\ Words(s \o t) = Words(s) \o Words(t)
           /\ Len(Words(s)) = Len(s)
<1>1. \A l \in Seq(Recipients) : /\ Words(l) \in Seq(AddressWords \cup {Blank})
                                 /\ Len(Words(l)) = Len(l)
                                 /\ \A k \in 1 .. Len(l) : Words(l)[k] = l[k].word
  <2> SUFFICES ASSUME NEW l \in Seq(Recipients)
               PROVE  /\ Words(l) \in Seq(AddressWords \cup {Blank})
                      /\ Len(Words(l)) = Len(l)
                      /\ \A k \in 1 .. Len(l) : Words(l)[k] = l[k].word
    OBVIOUS
  <2>1. \A k \in 1 .. Len(l) : l[k].word \in AddressWords \cup {Blank} BY DEF Recipients
  <2>2. DOMAIN l = 1 .. Len(l) OBVIOUS
  <2>. QED BY <2>1, <2>2 DEF Words
<1>2. s \o t \in Seq(Recipients) OBVIOUS
<1> DEFINE W == AddressWords \cup {Blank}
           st == s \o t  ws == Words(s)  wt == Words(t)  wst == Words(st)
<1>3. /\ ws \in Seq(W) /\ Len(ws) = Len(s) /\ \A k \in 1 .. Len(s) : ws[k] = s[k].word
      /\ wt \in Seq(W) /\ Len(wt) = Len(t) /\ \A k \in 1 .. Len(t) : wt[k] = t[k].word
      /\ wst \in Seq(W) /\ Len(wst) = Len(st) /\ \A k \in 1 .. Len(st) : wst[k] = st[k].word
      BY <1>1, <1>2
<1>4. /\ Len(st) = Len(s) + Len(t)
      /\ \A k \in 1 .. Len(s) + Len(t) : st[k] = IF k <= Len(s) THEN s[k] ELSE t[k - Len(s)]
      OBVIOUS
<1> HIDE DEF W, st, ws, wt, wst
<1>5. wst = ws \o wt
  <2>1. /\ Len(ws) \in Nat /\ Len(wt) \in Nat /\ ws \o wt \in Seq(W)
        /\ Len(ws \o wt) = Len(ws) + Len(wt)
        /\ \A k \in 1 .. Len(ws) + Len(wt) :
               (ws \o wt)[k] = IF k <= Len(ws) THEN ws[k] ELSE wt[k - Len(ws)]
    <3>1. ws \in Seq(W) /\ wt \in Seq(W) BY <1>3
    <3>. QED BY Zenon, <3>1, BothLists
  <2>2. /\ Len(s) \in Nat /\ Len(t) \in Nat /\ ws \o wt \in Seq(W)
        /\ Len(ws \o wt) = Len(s) + Len(t)
        /\ \A k \in 1 .. Len(s) + Len(t) :
               (ws \o wt)[k] = IF k <= Len(s) THEN ws[k] ELSE wt[k - Len(s)]
        BY <1>3, <2>1
  <2>3. ASSUME NEW k \in 1 .. Len(s) + Len(t) PROVE wst[k] = (ws \o wt)[k]
    <3>1. wst[k] = st[k].word BY <1>3, <1>4
    <3>2. CASE k <= Len(s)
          BY <1>3, <1>4, <2>2, <3>1, <3>2
    <3>3. CASE k > Len(s)
      <4>1. k - Len(s) \in 1 .. Len(t) BY <2>2, <3>3
      <4>2. ~(k <= Len(s)) BY <2>2, <3>3
      <4>. QED BY <1>3, <1>4, <2>2, <3>1, <4>1, <4>2
    <3>. QED BY <2>2, <3>2, <3>3
  <2> DEFINE both == ws \o wt
  <2> HIDE DEF both
  <2>4. both \in Seq(W) /\ Len(both) = Len(wst) BY <1>3, <1>4, <2>2 DEF both
  <2>5. \A k \in 1 .. Len(wst) : wst[k] = both[k] BY <1>3, <1>4, <2>3 DEF both
  <2>6. wst = both BY <1>3, <2>4, <2>5, SameList
  <2>. QED BY <2>6 DEF both
<1>. QED BY <1>1, <1>2, <1>5 DEF st, ws, wt, wst

\* A message that is put on the wire has the recipients of its headers, then the Bcc list.
LEMMA EnvelopeOfSend ==
    ASSUME NEW f, SendFrozen(f), WireSend(f) # Rejected
    PROVE  /\ WireSend(f).rcpt = WireSend(f).headers.to \o WireSend(f).headers.cc \o Addresses(f.bcc)
           /\ Len(WireSend(f).rcpt) <= MaxRecipients
<1> DEFINE to == f.to
           cc == f.cc
           bcc == f.bcc
<1>1. to \in Seq(Recipients) /\ cc \in Seq(Recipients) /\ bcc \in Seq(Recipients)
      BY DEF SendFrozen
<1>2. /\ WireSend(f) = [kind |-> "send", headers |-> Headers(f), rcpt |-> Words(Envelope(f))]
      /\ EnvelopeParses(f) /\ Len(Envelope(f)) <= MaxRecipients
      BY DEF WireSend, Words, ValidSend
<1>3. Envelope(f) = (to \o cc) \o bcc BY DEF Envelope
<1>4. Headers(f) = [to |-> Addresses(to), cc |-> Addresses(cc)] BY DEF Headers
<1> HIDE DEF to, cc, bcc
<1>5. ASSUME NEW l \in Seq(Recipients), \A k \in DOMAIN l : ~IsBlank(l[k])
      PROVE  Addresses(l) = Words(l)
  <2>1. Len(l) \in Nat /\ l \in [1 .. Len(l) -> Recipients] /\ DOMAIN l = 1 .. Len(l) OBVIOUS
  <2>2. Addresses(l) = [k \in 1 .. Len(l) |-> l[k].word] BY <1>5, <2>1, AllAddresses
  <2>. QED BY <2>1, <2>2 DEF Words
<1>6. \A k \in DOMAIN ((to \o cc) \o bcc) : ~IsBlank(((to \o cc) \o bcc)[k])
      BY <1>2, <1>3 DEF EnvelopeParses
<1>7. /\ \A k \in DOMAIN to : ~IsBlank(to[k])
      /\ \A k \in DOMAIN cc : ~IsBlank(cc[k])
      /\ \A k \in DOMAIN bcc : ~IsBlank(bcc[k])
  <2>1. ASSUME NEW s \in Seq(Recipients), NEW t \in Seq(Recipients),
               \A k \in DOMAIN (s \o t) : ~IsBlank((s \o t)[k])
        PROVE  (\A k \in DOMAIN s : ~IsBlank(s[k])) /\ (\A k \in DOMAIN t : ~IsBlank(t[k]))
    <3>1. ASSUME NEW k \in DOMAIN s PROVE ~IsBlank(s[k])
      <4>1. k \in DOMAIN (s \o t) /\ (s \o t)[k] = s[k] OBVIOUS
      <4>. QED BY <2>1, <4>1
    <3>2. ASSUME NEW k \in DOMAIN t PROVE ~IsBlank(t[k])
      <4>1. k + Len(s) \in DOMAIN (s \o t) /\ (s \o t)[k + Len(s)] = t[k] OBVIOUS
      <4>. QED BY <2>1, <4>1
    <3>. QED BY <3>1, <3>2
  <2>2. to \o cc \in Seq(Recipients) BY <1>1
  <2>. QED BY <1>1, <1>6, <2>1, <2>2
<1>8. Words((to \o cc) \o bcc) = (Words(to) \o Words(cc)) \o Words(bcc)
  <2>1. to \o cc \in Seq(Recipients) /\ Words(to \o cc) = Words(to) \o Words(cc)
        BY <1>1, WordsOfBoth
  <2>2. Words((to \o cc) \o bcc) = Words(to \o cc) \o Words(bcc)
        BY <1>1, <2>1, WordsOfBoth
  <2>. QED BY Zenon, <2>1, <2>2
<1>9. Len(Words((to \o cc) \o bcc)) = Len((to \o cc) \o bcc)
  <2>1. to \o cc \in Seq(Recipients) BY <1>1, WordsOfBoth
  <2>2. (to \o cc) \o bcc \in Seq(Recipients) BY <1>1, <2>1, WordsOfBoth
  <2>3. << >> \in Seq(Recipients) OBVIOUS
  <2>. QED BY Zenon, <2>2, <2>3, WordsOfBoth
<1>10. Addresses(to) = Words(to) /\ Addresses(cc) = Words(cc) /\ Addresses(bcc) = Words(bcc)
       BY <1>1, <1>5, <1>7
<1>11. f.bcc = bcc BY DEF bcc
<1>. QED BY <1>2, <1>3, <1>4, <1>8, <1>9, <1>10, <1>11
-----------------------------------------------------------------------------
\* For any words, whatever spelling, padding or default the arguments came with: a staged
\* move has two different folders.
THEOREM MovesBetweenFolders == Spec => []MoveChangesFolder
<1>1. Init => RequestInv BY RequestInit
<1>2. RequestInv /\ [Next]_vars => RequestInv' BY RequestStep
<1>3. RequestInv => MoveChangesFolder
  <2>1. ASSUME RequestInv, frozen.kind = "move" PROVE MoveFrozen(frozen)
    <3>1. Nothing.kind # "move" BY DEF Nothing
    <3>2. Staged(frozen) BY <2>1, <3>1 DEF RequestInv
    <3>. QED BY <2>1, <3>2 DEF Staged, DeleteFrozen, FlagsFrozen, SendFrozen
  <2>. QED BY <2>1, WordsDiffer DEF MoveFrozen, MoveChangesFolder
<1>. QED BY <1>1, <1>2, <1>3, PTL DEF Spec

\* For any words and lists of any length: a confirmed move, delete or flag update passes
\* the checks of the backend and reaches the mail server as it was confirmed.
THEOREM ConfirmedIsExecuted == Spec => []FrozenIsExecuted
<1>1. Init => RequestInv BY RequestInit
<1>2. RequestInv /\ [Next]_vars => RequestInv' BY RequestStep
<1>3. RequestInv => FrozenIsExecuted
  <2> SUFFICES ASSUME RequestInv, phase \in {"executed", "failed"}, frozen.kind # "send"
               PROVE  phase = "executed" /\ wire = frozen
    BY DEF FrozenIsExecuted
  <2>1. MoveFrozen(frozen) \/ DeleteFrozen(frozen) \/ FlagsFrozen(frozen)
        BY DEF RequestInv, Staged, SendFrozen
  <2>2. Wire(frozen) = frozen /\ Wire(frozen) # Rejected BY <2>1, WireUnchanged
  <2>. QED BY <2>2 DEF RequestInv
<1>. QED BY <1>1, <1>2, <1>3, PTL DEF Spec

\* For any words and lists of any length: the flags staged are the flags asked for, in
\* canonical form and once, and none is both added and removed.
THEOREM FlagsStagedAsAsked == Spec => []FlagsAsAsked
<1>1. Init => RequestInv BY RequestInit
<1>2. RequestInv /\ [Next]_vars => RequestInv' BY RequestStep
<1>3. RequestInv => FlagsAsAsked BY DEF RequestInv
<1>. QED BY <1>1, <1>2, <1>3, PTL DEF Spec

\* For any recipients and lists of any length: the envelope has the recipients that the
\* headers name, then those of the Bcc list, and no more than the limit.
THEOREM BccInEnvelopeOnly == Spec => []BccOnlyInEnvelope
<1>1. Init => RequestInv BY RequestInit
<1>2. RequestInv /\ [Next]_vars => RequestInv' BY RequestStep
<1>3. RequestInv => BccOnlyInEnvelope
  <2> SUFFICES ASSUME RequestInv, wire.kind = "send" PROVE BccOnlyInEnvelope
    BY DEF BccOnlyInEnvelope
  <2>1. /\ phase = "executed" /\ Staged(frozen)
        /\ wire = Wire(frozen) /\ Wire(frozen) # Rejected
        BY DEF RequestInv, Nothing
  <2>2. SendFrozen(frozen) BY <2>1, WireUnchanged DEF Staged
  <2>3. Wire(frozen) = WireSend(frozen) BY <2>2 DEF Wire, SendFrozen
  <2>. QED BY <2>1, <2>2, <2>3, EnvelopeOfSend DEF BccOnlyInEnvelope
<1>. QED BY <1>1, <1>2, <1>3, PTL DEF Spec
=============================================================================
