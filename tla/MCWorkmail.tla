----------------------------- MODULE MCWorkmail -----------------------------
(***************************************************************************)
(* Workmail over small worlds.  Bodies: the server command with a folder   *)
(* of one message, of every sequence of up to two parts and some of three, *)
(* around a body limit of 4 and an attachment limit of 2, sizes reported   *)
(* rightly or wrongly.  Searches: a folder of three messages on three      *)
(* days.  Starts: every command with settings that are missing, malformed, *)
(* out of range or at odds.                                                *)
(***************************************************************************)
EXTENDS Workmail, TLC

MCDefault == [n \in Numbers |->
    CASE n = "message" -> 6 [] n \in {"body"} -> 4 [] OTHER -> 2]
MCLowest == [n \in Limits |-> 1]
MCHighest == [n \in Limits |-> 8]

Plain ==
    [imapHost |-> "h", imapUser |-> "u", imapPassword |-> "p", imapPasswordFile |-> Unset,
     smtpHost |-> Unset, smtpUser |-> Unset, smtpPassword |-> Unset, smtpPasswordFile |-> Unset,
     smtpFrom |-> Unset, folder |-> Unset, httpAddr |-> Unset, apiToken |-> "t", apiTokenFile |-> Unset,
     numbers |-> [n \in Numbers |-> Unset]]

With(name, value) == [Plain EXCEPT ![name] = value]
Number(name, value) == [Plain EXCEPT !.numbers[name] = value]

Text(n) == [type |-> "text/plain", named |-> FALSE, len |-> n, readable |-> TRUE]
Html(n) == [type |-> "text/html", named |-> FALSE, len |-> n, readable |-> TRUE]
File(n) == [type |-> "other", named |-> TRUE, len |-> n, readable |-> TRUE]

Parts == {Text(0), Text(2), Text(5), Html(3), File(2), File(3),
          [Text(1) EXCEPT !.named = TRUE], [Text(5) EXCEPT !.type = "text/other"],
          [Text(1) EXCEPT !.readable = FALSE]}

Mail(parts, reported, raw) == [time |-> 4, reported |-> reported, raw |-> raw, parts |-> parts]

Folder1(mail) == [u \in {1} |-> mail]

Mails ==
    {Mail(<<p, q>>, 5, 5) : p, q \in Parts} \cup {Mail(<<p>>, 5, 5) : p \in Parts}
        \cup {Mail(<<Text(1), p, Text(n)>>, 5, 5) : p \in {Text(0), File(3)}, n \in {1, 2}}
        \cup {Mail(<<Text(1)>>, 7, 5), Mail(<<Text(1)>>, 5, 7), Mail(<< >>, 6, 6)}

Days3 == [u \in 1 .. 3 |-> [time |-> 2 * u, reported |-> 1, raw |-> 1, parts |-> << >>]]

Empty == [u \in {} |-> 0]

Settings1 ==
    {With(name, Unset) : name \in {"imapHost", "imapUser", "imapPassword", "apiToken"}}
        \cup {With("imapPasswordFile", v) : v \in {"q", Blank}}
        \cup {With("apiTokenFile", "q"), With("smtpPasswordFile", Unreadable),
              With("smtpUser", "v"), With("smtpFrom", "f"), With("imapUser", "login"), With("imapPassword", Placeholder),
              With("httpAddr", "elsewhere"), With("apiToken", "short"), With("folder", "bad")}
        \cup {[With("imapPassword", Unset) EXCEPT !.imapPasswordFile = v] : v \in {"q", Blank}}
        \cup {Number("timeout", Malformed), Number("results", 0), Number("recipients", 9),
              Number("body", 7), Number("attachment", 7), Number("message", 3),
              Number("smtpPort", 0), Number("imapPort", 65536), Number("ttl", 8)}

Req(tool) == [tool |-> tool, wellFormed |-> TRUE]
Get(u) == Req("mail_get") @@ [uid |-> u]
Attachment(u, i) == Req("mail_get_attachment") @@ [uid |-> u, index |-> i]
Search(since, before, limit) ==
    Req("mail_search") @@ [since |-> since, before |-> before, limit |-> limit]
Recent(days, limit) == Req("mail_recent") @@ [days |-> days, limit |-> limit]

Folders == {Req("mail_list_folders"), Req("mail_stats"), [tool |-> "mail_stats", wellFormed |-> FALSE]}

Reads == {Get(1)} \cup {Attachment(1, i) : i \in 0 .. 2}

Refused == {Get(0), Get(4), Attachment(0, 0), Attachment(1, -1)}

Finds ==
    {Search(s, b, l) : s \in {NoDate, 4}, b \in {NoDate, 6}, l \in {0, 1}}
        \cup {Search(BadDate, NoDate, 1), Search(4, 4, 1), Search(NoDate, NoDate, 3), Search(5, NoDate, 1)}
        \cup {Recent(0, 1), Recent(1, 1), Recent(-1, 1)}

World(command, env, mails, calls) ==
    [command |-> command, env |-> env, messages |-> mails, calls |-> calls]

MCWorlds ==
    {World("stdio", Plain, Folder1(b), Reads) : b \in Mails}
        \cup {World("serve", Plain, Days3, Finds)}
        \cup {World(command, Plain, Empty, Folders \cup Refused \cup {Req("mail_confirm")}) :
                 command \in {"stdio", "serve"}}
        \cup {World(command, env, Empty, {}) :
                 command \in {"doctor --latest-subject", "stdio", "serve"}, env \in Settings1}
        \cup {World(command, Plain, Folder1(Mail(<< >>, 1, 1)), {}) : command \in Doctors}
        \cup {World(command, Plain, Empty, {}) : command \in {"help", "version", "token", "unknown"}}
=============================================================================
