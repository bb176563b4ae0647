-------------------------------- MODULE Workmail --------------------------------
(***************************************************************************)
(* cmd/workmail/main.go and internal/mcp/http.go over the read tools: the  *)
(* process from its start, through the configuration, to its end.  Of the  *)
(* calls that a server has in flight the module follows one read, and says *)
(* of a send (module SmtpSend) only that it may take forever.              *)
(*                                                                         *)
(* net/http, the MCP library and the signal handling of the runtime are    *)
(* external; a request without the bearer token changes nothing and is     *)
(* left out.                                                               *)
(***************************************************************************)
EXTENDS ReadTools, Settings

CONSTANTS
    Worlds,     \* the command, environment and folder a process may find, and the calls
                \* that its client makes
    NotLoaded   \* before Load there is no configuration

ASSUME WorldAssumption ==
    \A w \in Worlds :
        /\ DOMAIN w.messages \subseteq UIDs
        /\ \A u \in DOMAIN w.messages : w.messages[u] \in Message
        /\ \A r \in w.calls :
               /\ r.tool \in {"mail_list_folders", "mail_stats", "mail_get", "mail_get_attachment",
                              "mail_confirm"} \cup Searches
               /\ r.tool = "mail_get_attachment" => r.index \in Int
               /\ r.tool \in Searches => r.limit \in Int
               /\ r.tool = "mail_search" => r.since \in Dates /\ r.before \in Dates
               /\ r.tool = "mail_recent" => r.days \in Int

VARIABLES
    world,      \* command, environment and calls
    phase,      \* the command that runs, or how far the process is otherwise
    signal,     \* an interrupt was received
    sending     \* a mail_confirm that sends a message is in flight

vars == <<sessionVars, toolVars, world, phase, signal, sending>>
process == <<world, phase, signal, sending>>

Doctors == {"doctor", "doctor --latest-subject"}
Servers == {"stdio", "serve"}
Ends == {"ended", "failed"}

TypeOK ==
    /\ ToolsTypeOK
    /\ phase \in {"start", "stopping"} \cup Doctors \cup Servers \cup Ends
    /\ signal \in BOOLEAN /\ sending \in BOOLEAN
    /\ phase \notin {"start"} \cup Ends => cfg = Load(world.env)
    /\ phase \in {"start"} \cup Ends => pc = "idle"

Init ==
    /\ SessionInit
    /\ cfg = NotLoaded
    /\ \E w \in Worlds :
           /\ world = [command |-> w.command, env |-> w.env, calls |-> w.calls]
           /\ messages = w.messages
    /\ present = DOMAIN messages
    /\ request = NoRequest
    /\ found = {}
    /\ answer = NoAnswer
    /\ phase = "start"
    /\ signal = FALSE
    /\ sending = FALSE

\* The process ends with a status, and whatever it held with it.
Exit(status) ==
    /\ phase' = status
    /\ EndSession
    /\ sending' = FALSE
    /\ request' = NoRequest
    /\ found' = {}
    /\ answer' = NoAnswer
    /\ UNCHANGED <<cfg, messages, present, world, signal>>
-----------------------------------------------------------------------------
(* run: the command line.                                                  *)

\* help, version and token need no configuration.
Help ==
    /\ phase = "start"
    /\ world.command \in {"help", "version", "token"}
    /\ Exit("ended")

\* The settings that the command needs are all there.
Configured ==
    /\ Loads(world.env)
    /\ ValidateIMAP(Load(world.env))
    /\ world.command = "serve" => ValidateHTTP(Load(world.env))

Start ==
    /\ phase = "start"
    /\ world.command \in Doctors \cup Servers
    /\ Configured
    /\ cfg' = Load(world.env)
    /\ phase' = world.command
    /\ UNCHANGED <<sessionVars, messages, present, request, found, answer, world, signal, sending>>

\* A missing or wrong setting, an unknown command or option.
StartFails ==
    /\ phase = "start"
    /\ world.command \notin {"help", "version", "token"}
    /\ ~(world.command \in Doctors \cup Servers /\ Configured)
    /\ Exit("failed")

\* doctor lists the folders, and on request searches for the newest message.
DoctorList ==
    /\ phase \in Doctors
    /\ pc = "idle"
    /\ Call([tool |-> "doctor", wellFormed |-> TRUE])
    /\ UNCHANGED process

DoctorSearch ==
    /\ phase = "doctor --latest-subject"
    /\ pc = "returned"
    /\ answer = Done
    /\ Call([tool |-> "mail_search", wellFormed |-> TRUE, since |-> NoDate, before |-> NoDate, limit |-> 1])
    /\ UNCHANGED process

DoctorEnds ==
    /\ phase \in Doctors
    /\ pc = "returned"
    /\ \/ answer = Error /\ Exit("failed")
       \/ answer = Done /\ phase = "doctor" /\ Exit("ended")
       \/ answer.kind = "found" /\ Exit("ended")
-----------------------------------------------------------------------------
(* The server.                                                             *)

Read(r) ==
    /\ phase \in Servers
    /\ r.tool # "mail_confirm"
    /\ Call(r) \/ Refuse(r)
    /\ UNCHANGED process

SendBegins ==
    /\ phase \in Servers
    /\ \E r \in world.calls : r.tool = "mail_confirm"
    /\ ~sending
    /\ sending' = TRUE
    /\ UNCHANGED <<sessionVars, toolVars, world, phase, signal>>

SendEnds ==
    /\ sending
    /\ sending' = FALSE
    /\ UNCHANGED <<sessionVars, toolVars, world, phase, signal>>

\* server.Run returns when the client closes stdin, or on an interrupt; whether it waits
\* for the calls in flight is up to the library.
StdioEnds ==
    /\ phase = "stdio"
    /\ Exit(IF signal THEN "failed" ELSE "ended")

\* ListenAndServe fails: the address is in use, or the listener breaks.
ListenFails ==
    /\ phase = "serve"
    /\ Exit("failed")

\* The first interrupt.  RunHTTP turns to Shutdown, which takes no new requests; the
\* contexts of those in flight do not hang on the interrupt.
Interrupt ==
    /\ phase \in Doctors \cup Servers
    /\ ~signal
    /\ signal' = TRUE
    /\ phase' = IF phase = "serve" THEN "stopping" ELSE phase
    /\ UNCHANGED <<sessionVars, toolVars, world, sending>>

InFlight == pc \notin Idle \/ sending

ShutdownDone ==
    /\ phase = "stopping"
    /\ ~InFlight
    /\ Exit("ended")

\* Mutant: Shutdown is given a context without a deadline.
ShutdownTimesOutNever ==
    /\ phase = "stopping"
    /\ FALSE
    /\ Exit("failed")

\* After 5 s the process ends in the middle of what is in flight.
ShutdownTimesOut ==
    /\ phase = "stopping"
    /\ InFlight
    /\ Exit("failed")
-----------------------------------------------------------------------------
Ended == phase \in Ends /\ UNCHANGED vars

Running == phase \notin {"start"} \cup Ends

Next ==
    \/ Help \/ Start \/ StartFails
    \/ DoctorList \/ DoctorSearch \/ DoctorEnds
    \/ \E r \in world.calls : Read(r)
    \/ SendBegins \/ SendEnds
    \/ StdioEnds \/ ListenFails \/ Interrupt \/ ShutdownDone \/ ShutdownTimesOut
    \/ Running /\ ToolsNext /\ UNCHANGED process
    \/ Running /\ (\E u \in UIDs : Expunge(u)) /\ UNCHANGED process
    \/ Ended

Spec == Init /\ [][Next]_vars

\* The dialer gives up, deadlines pass, goroutines run, and the library fails the commands
\* of a closed connection.  Nothing is assumed of the server, nor of a send.
Fairness ==
    /\ WF_vars(Running /\ ((Dialled /\ UNCHANGED toolVars) \/ (DialFails /\ Fail)) /\ UNCHANGED process)
    /\ WF_vars(Running /\ CtxEnds /\ UNCHANGED <<toolVars, process>>)
    /\ WF_vars(Running /\ Closing /\ UNCHANGED <<toolVars, process>>)
    /\ WF_vars(Running /\ Watching /\ UNCHANGED <<toolVars, process>>)
    /\ WF_vars(Running /\ FailsClosed /\ Fail /\ UNCHANGED process)
    /\ WF_vars(Start \/ DoctorList \/ DoctorSearch \/ DoctorEnds)
    /\ WF_vars(ShutdownDone \/ ShutdownTimesOut)

FairSpec == Spec /\ Fairness
-----------------------------------------------------------------------------
\* The values an environment gives that may become the sender.
Senders(env) == {env.smtpFrom, env.smtpUser, env.imapUser} \ {Unset}

\* In a server that has started, every limit the tools compare with is within its range,
\* and a confirmed send is not refused for a setting as long as the user names and the
\* sender that were given are mail addresses.  Nothing checks that they are before the
\* first send.
SendSettingsSuffice ==
    phase \in Servers \cup {"stopping"} =>
        /\ LimitsValid(cfg.limits)
        /\ Senders(world.env) \subseteq Addresses => SendAccepts(cfg)

\* An interrupt ends the doctor and the HTTP server, whatever a call in flight waits for.
ShutdownEnds == signal /\ world.command # "stdio" ~> phase \in Ends
=============================================================================
