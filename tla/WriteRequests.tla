---------------------------- MODULE WriteRequests ----------------------------
(***************************************************************************)
(* What becomes of the arguments of a write: internal/mail/write.go and    *)
(* the request tools of internal/mcp/write.go check and normalise them     *)
(* before they are frozen, and internal/imap/write.go checks and           *)
(* normalises the frozen request once more before it acts.  One write is   *)
(* followed from the arguments to what is put on the wire.                 *)
(*                                                                         *)
(* A string is abstracted to a record of what the checks tell apart: its   *)
(* word (Blank when it is empty or only white space) and, for a folder,    *)
(* whether it is in upper case, whether white space surrounds it, and      *)
(* whether it is too long or contains a control character; for a flag,     *)
(* whether it is spelt as in the allowlist (not in another case, padded or *)
(* without its backslash); for a recipient, whether it is too long or      *)
(* contains a control character and whether it parses as an address, which *)
(* surrounding white space does not affect.                                *)
(***************************************************************************)
EXTENDS Naturals, Sequences, SequencesExt

CONSTANTS
    Blank,          \* the word of an empty string
    FolderWords,    \* words of folder names
    DefaultWord,    \* the word of cfg.DefaultFolder
    UIDs,           \* UIDs a request may carry, 0 among them
    FlagWords,      \* words of flag names
    AllowedWords,   \* AllowedFlags: the words of \Seen, \Flagged, \Answered, \Draft
    AddressWords,   \* words of recipients
    MaxList,        \* bound on the length of the To, Add and Remove lists asked for
    MaxRecipients   \* cfg.MaxRecipients

ASSUME RequestAssumption ==
    /\ Blank \notin FolderWords \cup FlagWords \cup AddressWords
    /\ DefaultWord \in FolderWords
    /\ AllowedWords \subseteq FlagWords
    /\ UIDs \subseteq Nat
    /\ MaxList \in Nat /\ MaxRecipients \in Nat

VARIABLES
    phase,   \* "new", "rejected", "frozen", "executed", "failed"
    asked,   \* the arguments of the request tool
    frozen,  \* the payload that waits for the confirmation
    wire     \* what the backend puts on the wire

vars == <<phase, asked, frozen, wire>>

Nothing == [kind |-> "none"]

\* An error return of a check.
Rejected == [kind |-> "error"]
-----------------------------------------------------------------------------
\* strings.TrimSpace
TrimSpace(s) == [s EXCEPT !.pad = FALSE]

IsBlank(s) == s.word = Blank

\* strings.EqualFold
EqualFold(s, t) == [s EXCEPT !.upper = FALSE] = [t EXCEPT !.upper = FALSE]

FolderNames == [word : FolderWords \cup {Blank}, upper : BOOLEAN, pad : BOOLEAN, bad : BOOLEAN]
FlagNames == [word : FlagWords \cup {Blank}, canonical : BOOLEAN]
Recipients == [word : AddressWords, bad : BOOLEAN, parses : BOOLEAN]
                \cup {[word |-> Blank, bad |-> FALSE, parses |-> FALSE]}

\* cfg.DefaultFolder, trimmed and checked when the configuration is loaded.
DefaultFolder == [word |-> DefaultWord, upper |-> FALSE, pad |-> FALSE, bad |-> FALSE]

\* The folder to act on: trimmed, the default when empty, refused when malformed.
NormalizeFolder(folder) ==
    LET trimmed == TrimSpace(folder)
        chosen  == IF IsBlank(trimmed) THEN DefaultFolder ELSE trimmed
    IN  IF chosen.bad THEN Rejected ELSE chosen

ValidUID(uid) == uid # 0

\* The destination of a move, checked in the tool and again in the backend.
NormalizeDest(dest) ==
    LET trimmed == TrimSpace(dest)
    IN  IF IsBlank(trimmed) \/ trimmed.bad THEN Rejected ELSE trimmed
-----------------------------------------------------------------------------
\* "\\" + TrimPrefix(TrimSpace(raw), "\\"), in the spelling of AllowedFlags.
Canonical(raw) == [word |-> raw.word, canonical |-> TRUE]

\* Mutant: a flag is compared with those seen so far before it is canonical.
NormalizeListDuplicates(list) ==
    LET Add(out, raw) ==
            IF IsBlank(raw) \/ Contains(out, raw) THEN out ELSE Append(out, Canonical(raw))
    IN  FoldLeft(Add, << >>, list)

\* norm: blank names are dropped, the rest put in canonical form, each kept once.
NormalizeList(list) ==
    LET Add(out, raw) ==
            IF IsBlank(raw) \/ Contains(out, Canonical(raw)) THEN out ELSE Append(out, Canonical(raw))
    IN  FoldLeft(Add, << >>, list)

ListAllowed(list) == \A k \in DOMAIN list : IsBlank(list[k]) \/ list[k].word \in AllowedWords

\* The flags to add and to remove: allowlisted, not contradictory, not empty.
NormalizeFlags(add, remove) ==
    LET normAdd == NormalizeList(add)  normRemove == NormalizeList(remove)
    IN  IF \/ ~ListAllowed(add) \/ ~ListAllowed(remove)
           \/ ToSet(normAdd) \cap ToSet(normRemove) # {}
           \/ normAdd = << >> /\ normRemove = << >>
        THEN Rejected ELSE [kind |-> "lists", add |-> normAdd, remove |-> normRemove]
-----------------------------------------------------------------------------
\* ParseAddresses drops blank entries; the rest must parse.
AddressesParse(list) == \A k \in DOMAIN list : IsBlank(list[k]) \/ list[k].parses

Addresses(list) ==
    LET Add(out, raw) == IF IsBlank(raw) THEN out ELSE Append(out, raw.word)
    IN  FoldLeft(Add, << >>, list)

\* req.To, then req.Cc, then req.Bcc
Envelope(req) == req.to \o req.cc \o req.bcc

\* ValidateSend: the number of entries, blank ones included, is bounded; every
\* entry is clean and the nonblank ones parse; subject and bodies are in bounds.
ValidSend(req) ==
    LET all == Envelope(req)
    IN  /\ Len(all) > 0
        /\ Len(all) <= MaxRecipients
        /\ \A k \in DOMAIN all : ~all[k].bad
        /\ AddressesParse(all)
        /\ req.textOK

\* sendSMTP: every entry of the envelope goes through mail.ParseAddress, which
\* refuses a blank one.
EnvelopeParses(req) ==
    \A k \in DOMAIN Envelope(req) : ~IsBlank(Envelope(req)[k]) /\ Envelope(req)[k].parses

\* Mutant: the headers name the Bcc recipients too.
HeadersWithBcc(req) == [to |-> Addresses(req.to), cc |-> Addresses(req.cc \o req.bcc)]

\* buildSendBytes: the recipients that the headers name.
Headers(req) == [to |-> Addresses(req.to), cc |-> Addresses(req.cc)]
-----------------------------------------------------------------------------
\* The request tools: what is frozen for the arguments, or Rejected.

\* Mutant: the source is compared with the destination before the default applies.
FrozenMoveEarlyCompare(in) ==
    LET folder == NormalizeFolder(in.folder)  dest == NormalizeDest(in.dest)
    IN  IF \/ folder = Rejected \/ ~ValidUID(in.uid) \/ dest = Rejected
           \/ EqualFold(TrimSpace(in.folder), dest)
        THEN Rejected
        ELSE [kind |-> "move", folder |-> folder, uid |-> in.uid, dest |-> dest]

FrozenMove(in) ==
    LET folder == NormalizeFolder(in.folder)  dest == NormalizeDest(in.dest)
    IN  IF folder = Rejected \/ ~ValidUID(in.uid) \/ dest = Rejected \/ EqualFold(folder, dest)
        THEN Rejected
        ELSE [kind |-> "move", folder |-> folder, uid |-> in.uid, dest |-> dest]

\* Mutant: the folder is frozen as it was asked for.
FrozenDeleteAsAsked(in) ==
    IF NormalizeFolder(in.folder) = Rejected \/ ~ValidUID(in.uid)
    THEN Rejected ELSE [kind |-> "delete", folder |-> in.folder, uid |-> in.uid]

FrozenDelete(in) ==
    LET folder == NormalizeFolder(in.folder)
    IN  IF folder = Rejected \/ ~ValidUID(in.uid)
        THEN Rejected ELSE [kind |-> "delete", folder |-> folder, uid |-> in.uid]

FrozenFlags(in) ==
    LET folder == NormalizeFolder(in.folder)  lists == NormalizeFlags(in.add, in.remove)
    IN  IF folder = Rejected \/ ~ValidUID(in.uid) \/ lists = Rejected
        THEN Rejected
        ELSE [kind |-> "set_flags", folder |-> folder, uid |-> in.uid,
              add |-> lists.add, remove |-> lists.remove]

\* A send is frozen as it was asked for.
FrozenSend(in) ==
    IF ValidSend(in)
    THEN [kind |-> "send", to |-> in.to, cc |-> in.cc, bcc |-> in.bcc, textOK |-> in.textOK]
    ELSE Rejected

Frozen(in) ==
    CASE in.kind = "move"      -> FrozenMove(in)
      [] in.kind = "delete"    -> FrozenDelete(in)
      [] in.kind = "set_flags" -> FrozenFlags(in)
      [] in.kind = "send"      -> FrozenSend(in)
-----------------------------------------------------------------------------
\* The backend, given the frozen payload: the commands it issues, or Rejected.
\* Each operation repeats the checks of its request tool, in an order of its own.
BackendFolder(folder) ==
    LET trimmed == TrimSpace(folder)
        chosen  == IF IsBlank(trimmed) THEN DefaultFolder ELSE trimmed
    IN  IF chosen.bad THEN Rejected ELSE chosen

WireMove(req) ==
    LET folder == BackendFolder(req.folder)  dest == TrimSpace(req.dest)
    IN  IF \/ folder = Rejected
           \/ IsBlank(dest) \/ dest.bad
           \/ EqualFold(folder, dest)
           \/ ~ValidUID(req.uid)
        THEN Rejected
        ELSE [kind |-> "move", folder |-> folder, uid |-> req.uid, dest |-> dest]

WireDelete(req) ==
    IF BackendFolder(req.folder) = Rejected \/ ~ValidUID(req.uid)
    THEN Rejected
    ELSE [kind |-> "delete", folder |-> BackendFolder(req.folder), uid |-> req.uid]

WireFlags(req) ==
    LET folder == BackendFolder(req.folder)  lists == NormalizeFlags(req.add, req.remove)
    IN  IF folder = Rejected \/ ~ValidUID(req.uid) \/ lists = Rejected
        THEN Rejected
        ELSE [kind |-> "set_flags", folder |-> folder, uid |-> req.uid,
              add |-> lists.add, remove |-> lists.remove]

\* The headers and the envelope of the message.
WireSend(req) ==
    IF ValidSend(req) /\ EnvelopeParses(req)
    THEN [kind |-> "send", headers |-> Headers(req),
          rcpt |-> [k \in DOMAIN Envelope(req) |-> Envelope(req)[k].word]]
    ELSE Rejected

Wire(req) ==
    CASE req.kind = "move"      -> WireMove(req)
      [] req.kind = "delete"    -> WireDelete(req)
      [] req.kind = "set_flags" -> WireFlags(req)
      [] req.kind = "send"      -> WireSend(req)
-----------------------------------------------------------------------------
Moves == [kind : {"move"}, folder : FolderNames, uid : UIDs, dest : FolderNames]
Deletes == [kind : {"delete"}, folder : FolderNames, uid : UIDs]
FlagLists == UNION {[1 .. n -> FlagNames] : n \in 0 .. MaxList}
FlagUpdates == [kind : {"set_flags"}, folder : {DefaultFolder}, uid : UIDs,
                add : FlagLists, remove : FlagLists]
RecipientLists(m) == UNION {[1 .. n -> Recipients] : n \in 0 .. m}
Sends == [kind : {"send"}, to : RecipientLists(MaxList), cc : RecipientLists(1),
          bcc : RecipientLists(1), textOK : BOOLEAN]

Init == phase = "new" /\ asked = Nothing /\ frozen = Nothing /\ wire = Nothing

\* A request tool checks its arguments and freezes them, or refuses.
Request(in) ==
    /\ phase = "new"
    /\ asked' = in
    /\ LET f == Frozen(in)
       IN  IF f = Rejected
           THEN phase' = "rejected" /\ UNCHANGED frozen
           ELSE phase' = "frozen" /\ frozen' = f
    /\ UNCHANGED wire

\* The confirmed payload reaches the backend.
Execute ==
    /\ phase = "frozen"
    /\ LET w == Wire(frozen)
       IN  IF w = Rejected
           THEN phase' = "failed" /\ UNCHANGED wire
           ELSE phase' = "executed" /\ wire' = w
    /\ UNCHANGED <<asked, frozen>>

Next ==
    \/ \E in \in Moves : Request(in)
    \/ \E in \in Deletes : Request(in)
    \/ \E in \in FlagUpdates : Request(in)
    \/ \E in \in Sends : Request(in)
    \/ Execute

Spec == Init /\ [][Next]_vars
-----------------------------------------------------------------------------
\* What the user confirmed is what reaches the mail server: the second round of
\* trimming, defaulting and allowlisting in the backend accepts every frozen move,
\* delete and flag update and changes nothing in it.
FrozenIsExecuted ==
    /\ phase = "failed" => frozen.kind = "send"
    /\ phase = "executed" /\ frozen.kind # "send" => wire = frozen

\* A staged move has two different folders, whatever spelling, padding or default
\* the arguments came with.
MoveChangesFolder ==
    frozen.kind = "move" => frozen.folder.word # frozen.dest.word

\* The flags staged are the flags asked for: every nonblank name, in canonical
\* form and once, in the order first mentioned; nothing is both added and removed.
FlagsAsAsked ==
    frozen.kind = "set_flags" =>
        LET Asked(list) == {Canonical(f) : f \in {g \in ToSet(list) : ~IsBlank(g)}}
        IN  /\ ToSet(frozen.add) = Asked(asked.add)
            /\ ToSet(frozen.remove) = Asked(asked.remove)
            /\ IsInjective(frozen.add) /\ IsInjective(frozen.remove)
            /\ ToSet(frozen.add) \cap ToSet(frozen.remove) = {}
            /\ ToSet(frozen.add) \cup ToSet(frozen.remove) # {}

\* Bcc recipients get the message and are never named in it: the envelope is the
\* headers' recipients followed by the Bcc list.
BccOnlyInEnvelope ==
    wire.kind = "send" =>
        /\ wire.rcpt = wire.headers.to \o wire.headers.cc \o Addresses(frozen.bcc)
        /\ Len(wire.rcpt) <= MaxRecipients

\* A send that was accepted for confirmation is one that the backend can execute:
\* "Empty entries are dropped; each remaining entry must be a valid RFC 5322
\* address" (internal/mail/write.go, ParseAddresses).
AcceptedSendIsExecutable == phase # "failed"
=============================================================================
