-------------------------------- MODULE Settings --------------------------------
(***************************************************************************)
(* internal/config/config.go: the configuration made of the environment,   *)
(* once, when the process starts.  An environment gives every WORKMAIL_*   *)
(* variable a value or leaves it Unset (blank values count as unset).      *)
(***************************************************************************)
EXTENDS Integers

CONSTANTS
    Unset,        \* a variable that is not set, or blank
    Malformed,    \* a value that is not a number or a duration
    Unreadable,   \* a secret file that cannot be read
    Blank,        \* a secret file without content
    Default,      \* the default of each limit
    Lowest,       \* the range that validateLimits accepts for each limit
    Highest,
    Loopback,     \* host:port pairs whose host is a loopback IP address
    LoopbackDefault,
    Tokens,       \* tokens of at least 32 characters that are no placeholder
    Placeholder,  \* the password of the example configuration
    Addresses,    \* the values that mail.ParseAddress accepts
    DefaultFolder,
    BadFolders    \* folder names that are too long or hold control characters

Limits == {"results", "queryLength", "message", "body", "attachment", "thread", "recipients",
           "timeout", "ttl"}
Ports == {"imapPort", "smtpPort"}
Numbers == Limits \cup Ports
Port == 1 .. 65535

ASSUME SettingsAssumption ==
    /\ Default \in [Numbers -> Int]
    /\ Lowest \in [Limits -> Nat] /\ Highest \in [Limits -> Nat]
    /\ LoopbackDefault \in Loopback
    /\ \A n \in {"body", "attachment"} : Highest[n] = Highest["message"]
    /\ Unset \notin Loopback \cup Tokens \cup Addresses /\ Unset # Blank
    /\ DefaultFolder \notin BadFolders

OrElse(value, fallback) == IF value = Unset THEN fallback ELSE value
-----------------------------------------------------------------------------
\* loadInt, loadInt64, ParseDuration.
NumberParses(value) == value # Malformed

\* A secret is given directly or as a file, not both.
SecretReadable(value, file) == (value = Unset \/ file = Unset) /\ file # Unreadable

Secret(value, file) ==
    CASE file = Unset -> value
      [] file = Blank -> Unset
      [] OTHER -> file

\* Mutant: the default of the sender is taken before the default of the user name.
SmtpFromFirst(env) ==
    [host     |-> OrElse(env.smtpHost, env.imapHost),
     user     |-> OrElse(env.smtpUser, env.imapUser),
     password |-> OrElse(Secret(env.smtpPassword, env.smtpPasswordFile),
                         Secret(env.imapPassword, env.imapPasswordFile)),
     from     |-> OrElse(env.smtpFrom, env.smtpUser)]

\* What is not given for SMTP is taken from IMAP, the sender from the SMTP user name.
Smtp(env) ==
    LET user == OrElse(env.smtpUser, env.imapUser)
    IN  [host     |-> OrElse(env.smtpHost, env.imapHost),
         user     |-> user,
         password |-> OrElse(Secret(env.smtpPassword, env.smtpPasswordFile),
                             Secret(env.imapPassword, env.imapPasswordFile)),
         from     |-> OrElse(env.smtpFrom, user)]

Load(env) ==
    [imap   |-> [host |-> env.imapHost, user |-> env.imapUser,
                 password |-> Secret(env.imapPassword, env.imapPasswordFile)],
     smtp   |-> Smtp(env),
     folder |-> OrElse(env.folder, DefaultFolder),
     addr   |-> OrElse(env.httpAddr, LoopbackDefault),
     token  |-> Secret(env.apiToken, env.apiTokenFile),
     limits |-> [n \in Numbers |-> OrElse(env.numbers[n], Default[n])]]

LimitsValid(limits) ==
    /\ \A n \in Limits : limits[n] \in Lowest[n] .. Highest[n]
    /\ limits["body"] <= limits["message"]
    /\ limits["attachment"] <= limits["message"]
    /\ limits["smtpPort"] \in Port

\* Load and its validateLimits return no error.
Loads(env) ==
    /\ SecretReadable(env.imapPassword, env.imapPasswordFile)
    /\ SecretReadable(env.apiToken, env.apiTokenFile)
    /\ SecretReadable(env.smtpPassword, env.smtpPasswordFile)
    /\ \A n \in Numbers : NumberParses(env.numbers[n])
    /\ LimitsValid(Load(env).limits)
-----------------------------------------------------------------------------
ValidateFolder(folder) == folder \notin BadFolders

ValidateLoopbackAddr(addr) == addr \in Loopback

ValidateIMAP(c) ==
    /\ Unset \notin {c.imap.host, c.imap.user, c.imap.password}
    /\ c.imap.password # Placeholder
    /\ c.limits["imapPort"] \in Port
    /\ ValidateFolder(c.folder)

ValidateHTTP(c) ==
    /\ ValidateIMAP(c)
    /\ ValidateLoopbackAddr(c.addr)
    /\ c.token \in Tokens

ValidateSMTP(c) ==
    /\ Unset \notin {c.smtp.host, c.smtp.user, c.smtp.password, c.smtp.from}
    /\ c.limits["smtpPort"] \in Port

\* SendMessage and buildSendBytes, internal/imap/write.go: what a send, confirmed
\* already, checks of the settings before it dials.
SendAccepts(c) == ValidateSMTP(c) /\ c.smtp.from \in Addresses
=============================================================================
