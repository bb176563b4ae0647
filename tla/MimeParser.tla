------------------------------- MODULE MimeParser -------------------------------
(***************************************************************************)
(* internal/mail/parser.go, ParseRaw: what mail_get and                    *)
(* mail_get_attachment make of a raw message.  A message is the sequence   *)
(* of its parts, a part what its headers make of it and how long its       *)
(* decoded content is; the bytes of part i are <<i, 1>>, <<i, 2>>, ...     *)
(***************************************************************************)
EXTENDS Naturals, Sequences, SequencesExt

Types == {"text/plain", "text/html", "text/other", "other"}

\* named: Content-Disposition is attachment, or there is a file name.
\* readable: go-message can read what ParseRaw asks of the part (encoding, character
\* set, boundary): all of an attachment, one byte more than the limit of a body.
Part == [type : Types, named : BOOLEAN, len : Nat, readable : BOOLEAN]

Content(i, part) == [k \in 1 .. part.len |-> <<i, k>>]

\* The "\n\n" between two bodies.
Separator == <<<<0, 1>>, <<0, 2>>>>

IsAttachment(part) == part.named \/ part.type = "other"

\* At most n bytes from the start of s.
Clip(s, n) == SubSeq(s, 1, IF n < Len(s) THEN n ELSE Len(s))

ReadBounded(src, limit) == [data |-> Clip(src, limit), cut |-> Len(src) > limit]

\* Mutant: the separator is not counted against the limit.
AppendBoundedFreeSeparator(dst, src, limit) ==
    LET sep  == IF dst # << >> /\ src # << >> THEN Separator ELSE << >>
        room == IF Len(dst) < limit THEN limit - Len(dst) ELSE 0
    IN  [body |-> IF room = 0 THEN dst ELSE dst \o sep \o Clip(src, room), cut |-> Len(src) > room]

\* dst with src after it, as far as the limit allows.
AppendBounded(dst, src, limit) ==
    LET added == IF dst # << >> /\ src # << >> THEN Separator \o src ELSE src
        room  == IF Len(dst) < limit THEN limit - Len(dst) ELSE 0
    IN  [body |-> dst \o Clip(added, room), cut |-> Len(added) > room]

NothingParsed == [text |-> << >>, html |-> << >>, truncated |-> FALSE, attachments |-> << >>]

\* Mutant: an attachment that is too large is left out of the list.
AddAttachmentSmallOnly(out, i, part, limit) ==
    IF part.len > limit THEN out ELSE
    [out EXCEPT !.attachments =
        Append(@, [index |-> Len(@), size |-> part.len, tooLarge |-> FALSE, data |-> Content(i, part)])]

\* An attachment that is too large is listed without its content.
AddAttachment(out, i, part, limit) ==
    LET tooLarge == part.len > limit
    IN  [out EXCEPT !.attachments =
            Append(@, [index |-> Len(@), size |-> part.len, tooLarge |-> tooLarge,
                       data |-> IF tooLarge THEN << >> ELSE Content(i, part)])]

\* text/plain goes to the text, text/html to the HTML, other text nowhere.
AddBody(out, i, part, limit) ==
    LET read == ReadBounded(Content(i, part), limit)
        text == AppendBounded(out.text, read.data, limit)
        html == AppendBounded(out.html, read.data, limit)
    IN  CASE part.type = "text/plain" ->
               [out EXCEPT !.text = text.body, !.truncated = @ \/ read.cut \/ text.cut]
          [] part.type = "text/html" ->
               [out EXCEPT !.html = html.body, !.truncated = @ \/ read.cut \/ html.cut]
          [] OTHER -> [out EXCEPT !.truncated = @ \/ read.cut]

\* One part that cannot be read fails the whole message.
Parses(parts) == \A i \in DOMAIN parts : parts[i].readable

ParseRaw(parts, bodyLimit, attachmentLimit) ==
    FoldLeftDomain(
        LAMBDA out, i : IF IsAttachment(parts[i])
                        THEN AddAttachment(out, i, parts[i], attachmentLimit)
                        ELSE AddBody(out, i, parts[i], bodyLimit),
        NothingParsed, parts)

\* AttachmentMetadata: the list without the contents.
Metadata(attachments) ==
    [k \in DOMAIN attachments |->
        [index |-> attachments[k].index, size |-> attachments[k].size, tooLarge |-> attachments[k].tooLarge]]
-----------------------------------------------------------------------------
(* What was sent, without limits: the reference the answers are judged by. *)

\* The indices of the parts that are chosen, in order.
Picked(parts, chosen) ==
    FoldLeftDomain(LAMBDA out, i : IF i \in chosen THEN Append(out, i) ELSE out, << >>, parts)

\* The inline bodies of a type, those without content apart.
Bodies(parts, type) ==
    Picked(parts, {i \in DOMAIN parts : ~IsAttachment(parts[i]) /\ parts[i].type = type /\ parts[i].len > 0})

\* Bodies one after the other, with separators between them.
Joined(parts, bodies) ==
    FlattenSeq([k \in DOMAIN bodies |->
        (IF k = 1 THEN << >> ELSE Separator) \o Content(bodies[k], parts[bodies[k]])])

Sent(parts, type) == Joined(parts, Bodies(parts, type))

Attached(parts) == Picked(parts, {i \in DOMAIN parts : IsAttachment(parts[i])})
=============================================================================
