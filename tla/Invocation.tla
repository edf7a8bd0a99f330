----------------------------- MODULE Invocation -----------------------------
(***************************************************************************)
(* One `bcp` command from its command line to its exit code: main.rs, the  *)
(* lazily opened session of transport.rs and mcp/client.rs, the handlers   *)
(* of commands/*.rs as the requests they make and what they do with the    *)
(* replies, and the error contract of error.rs and output.rs.              *)
(*                                                                         *)
(* Commands whose control is the same are one here: "avm" stands for       *)
(* extensions, ext-types, resource-types and best-practices, "schema" for  *)
(* ext-schema, "decompile" for decompile-params.  `format --check` is a    *)
(* name of its own.  `batch` is in Calls, `skill` in FileCommands, `serve` *)
(* and `daemon` in Discovery.  How a daemon is found is Discovery's too;   *)
(* what else happens to a file that is written, FileCommands'.             *)
(***************************************************************************)
EXTENDS Naturals, Sequences, Functions

CONSTANT Invocations        \* the command lines considered

Names == {"build", "buildParams", "format", "formatCheck", "decompile", "refs", "snapshot", "avm",
          "schema", "schemaLatest", "call", "tools", "doctor", "versionServer", "version"}

\* The texts in a command's result, each of which may go to a file.
Texts(name) ==
    CASE name = "build" -> {"template"}
      [] name = "buildParams" -> {"template", "parameters"}
      [] name \in {"format", "decompile"} -> {"source"}
      [] OTHER -> {}

\* The commands that turn URIs into paths (uri_to_path).
Decoding == {"build", "buildParams", "refs", "decompile"}

Outputs == {<< >>, <<"source">>, <<"template">>, <<"parameters">>, <<"parameters", "template">>}
Faults == {"none", "flags", "serverCommand", "file", "arguments"}

\* What a command line may be: the output files it names (-o, --template-out,
\* --write), the text it wants alone (--template-only, --parameters-only), and
\* the first fault that it has, if any.
Invocation ==
    {c \in [name : Names, mode : {"auto", "daemon", "spawn"}, raw : BOOLEAN,
            only : {"none", "template", "parameters"}, writes : Outputs, fault : Faults] :
        /\ Range(c.writes) \subseteq Texts(c.name)
        /\ c.only # "none" => c.only \in Texts(c.name)
        /\ c.fault = "file" => c.name \in Decoding \cup {"format", "formatCheck", "snapshot"}
        /\ c.fault = "arguments" => c.name \in {"call", "schema"}}

ASSUME InvocationsAssumption == Invocations \subseteq Invocation

VARIABLES
    cmd,                    \* the command line
    stage,                  \* where the process is
    session,                \* the session kept in Ctx: "none", "daemon" or "spawned"
    server,                 \* the server behind it
    sought,                 \* whether a daemon has been looked for
    spawned,                \* how many servers were started
    replies,                \* what became of each request so far
    texts,                  \* the texts that the result has
    tried,                  \* how many output files have been dealt with
    written,                \* the texts written to files
    output,                 \* what the handler wants printed
    error,                  \* the error it returns
    stdout,                 \* what is printed
    reports,                \* how many error objects are on standard error
    exit                    \* "none", then the exit code by name

sessionVars == <<session, server, sought, spawned>>
fileVars == <<texts, tried, written>>
outcomeVars == <<output, error>>
endVars == <<stdout, reports, exit>>
vars == <<cmd, stage, sessionVars, replies, fileVars, outcomeVars, endVars>>

Errors == {"none", "usage", "tool", "transport"}
ReplyKinds == {"ok", "failed", "empty", "isError", "invalid", "unknown", "serverError",
               "timeout", "closed"}

TypeOK ==
    /\ cmd \in Invocations
    /\ stage \in {"start", "resolving", "checking", "probing", "asking", "dialling", "spawning",
                  "shaking", "waiting", "spilling", "printing", "reporting", "finishing", "panicking", "ended"}
    /\ session \in {"none", "daemon", "spawned"}
    /\ server \in {"none", "starting", "up", "down", "dropped", "closed"}
    /\ sought \in BOOLEAN
    /\ spawned \in Nat
    /\ replies \in Seq(ReplyKinds) /\ Len(replies) <= 2
    /\ tried \in 0 .. Len(cmd.writes)
    /\ written \subseteq texts /\ texts \subseteq Texts(cmd.name)
    /\ output \in {"none", "value", "text", "raw", "report"}
    /\ error \in Errors
    /\ stdout \in {"none", "value", "text", "raw", "report", "lost"}
    /\ reports \in 0 .. 1
    /\ exit \in {"none", "success", "usageError", "toolError", "transportError", "panicked"}

Init ==
    /\ cmd \in Invocations
    /\ stage = "start"
    /\ session = "none" /\ server = "none" /\ sought = FALSE /\ spawned = 0
    /\ replies = << >>
    /\ texts = {} /\ tried = 0 /\ written = {}
    /\ output = "none" /\ error = "none"
    /\ stdout = "none" /\ reports = 0 /\ exit = "none"

-----------------------------------------------------------------------------
(* The two results of a handler: an error, or something to print.          *)

Fail(e) == stage' = "reporting" /\ error' = e /\ output' = "none"
Done(out, e) == stage' = "printing" /\ error' = e /\ output' = out

Goto(s) == stage' = s /\ UNCHANGED outcomeVars

\* The requests of a command, in order.
Requests ==
    CASE cmd.name = "tools" -> <<"tools/list">>
      [] cmd.name = "doctor" -> <<"tools/list", "practices">>
      [] cmd.name = "schemaLatest" -> <<"versions", "tool">>
      [] cmd.name \in {"version", "versionServer"} -> << >>
      [] OTHER -> <<"tool">>

Request == Requests[Len(replies) + 1]

-----------------------------------------------------------------------------
(* Before any server is asked.                                             *)

Parse ==
    /\ stage = "start"
    /\ IF cmd.fault = "flags" THEN Fail("usage") ELSE Goto("resolving")
    /\ UNCHANGED <<cmd, sessionVars, replies, fileVars, endVars>>

ResolveServer ==
    /\ stage = "resolving"
    /\ IF cmd.fault = "serverCommand" THEN Fail("usage") ELSE Goto("checking")
    /\ UNCHANGED <<cmd, sessionVars, replies, fileVars, endVars>>

\* Mutant: the file and the arguments are looked at when they are needed.
CheckLate ==
    /\ stage = "checking"
    /\ Goto(IF cmd.name = "doctor" THEN "probing" ELSE "asking")
    /\ UNCHANGED <<cmd, sessionVars, replies, fileVars, endVars>>

\* The file must exist, the arguments parse, and a version be given once.
CheckArguments ==
    /\ stage = "checking"
    /\ \/ cmd.fault # "none" /\ Fail("usage")
       \/ cmd.fault = "none" /\ cmd.name = "version" /\ Done("value", "none")
       \/ cmd.fault = "none" /\ cmd.name = "doctor" /\ Goto("probing")
       \/ cmd.fault = "none" /\ cmd.name \notin {"version", "doctor"} /\ Goto("asking")
    /\ UNCHANGED <<cmd, sessionVars, replies, fileVars, endVars>>

\* `doctor` first asks a daemon for its status, and goes on whatever it hears.
Probe ==
    /\ stage = "probing"
    /\ sought' = TRUE
    /\ Goto("asking")
    /\ UNCHANGED <<cmd, session, server, spawned, replies, fileVars, endVars>>

-----------------------------------------------------------------------------
(* The session: opened where the first request needs it, and kept.         *)

Seek ==
    /\ stage = "asking"
    /\ session = "none"
    /\ sought' = (sought \/ cmd.mode # "spawn")
    /\ Goto(IF cmd.mode = "spawn" THEN "spawning" ELSE "dialling")
    /\ UNCHANGED <<cmd, session, server, spawned, replies, fileVars, endVars>>

\* A daemon is found, acknowledges and completes the handshake.
UseDaemon ==
    /\ stage = "dialling"
    /\ session' = "daemon" /\ server' = "up"
    /\ Goto("asking")
    /\ UNCHANGED <<cmd, sought, spawned, replies, fileVars, endVars>>

\* No session: only `doctor` has something to print all the same.
NoSession ==
    IF cmd.name = "doctor" THEN Done("report", "transport") ELSE Fail("transport")

NoDaemon ==
    /\ stage = "dialling"
    /\ IF cmd.mode = "auto" THEN Goto("spawning") ELSE NoSession
    /\ UNCHANGED <<cmd, sessionVars, replies, fileVars, endVars>>

SpawnServer ==
    /\ stage = "spawning"
    /\ spawned' = spawned + 1
    /\ server' = "starting"
    /\ Goto("shaking")
    /\ UNCHANGED <<cmd, session, sought, replies, fileVars, endVars>>

SpawnFails ==
    /\ stage = "spawning"
    /\ NoSession
    /\ UNCHANGED <<cmd, sessionVars, replies, fileVars, endVars>>

ShakeHands ==
    /\ stage = "shaking"
    /\ session' = "spawned" /\ server' = "up"
    /\ Goto("asking")
    /\ UNCHANGED <<cmd, sought, spawned, replies, fileVars, endVars>>

\* The server answers nonsense, ends, or is too slow.
HandshakeFails ==
    /\ stage = "shaking"
    /\ server' = "dropped"
    /\ NoSession
    /\ UNCHANGED <<cmd, session, sought, spawned, replies, fileVars, endVars>>

ServerDies ==
    /\ server = "up"
    /\ server' = "down"
    /\ UNCHANGED <<cmd, stage, session, sought, spawned, replies, fileVars, outcomeVars, endVars>>

-----------------------------------------------------------------------------
(* Requests and replies.                                                   *)

\* `version --server` wants the session only.
Ask ==
    /\ stage = "asking"
    /\ session # "none"
    /\ IF Requests = << >> THEN Done("value", "none") ELSE Goto("waiting")
    /\ UNCHANGED <<cmd, sessionVars, replies, fileVars, endVars>>

\* Mutant: every error the server reports by code is the server's.
ErrorOfCode(r) ==
    CASE r \in {"ok", "failed"} -> "none"
      [] r = "isError" -> "tool"
      [] r = "empty" -> "usage"
      [] OTHER -> "transport"

\* map_service_error, result_to_value, and a list without the type asked for.
ErrorOf(r) ==
    CASE r \in {"ok", "failed"} -> "none"
      [] r = "isError" -> "tool"
      [] r \in {"invalid", "unknown", "empty"} -> "usage"
      [] r \in {"serverError", "timeout", "closed"} -> "transport"

\* What --raw prints as it is; it does not ask whether a build succeeded.
IsRaw(r) == cmd.raw /\ Request = "tool" /\ r \in {"ok", "failed", "isError"}

\* `let _ =`: `doctor` times its second request and forgets its result.
IsForgotten == Request = "practices"

\* A build that failed may have texts all the same, one that succeeded may lack
\* one, and the source may be formatted already.
Spilling(e) ==
    /\ stage' = "spilling" /\ error' = e /\ UNCHANGED output
    /\ texts' \in SUBSET Texts(cmd.name)
    /\ UNCHANGED <<tried, written>>

Failing(e) == Fail(e) /\ UNCHANGED fileVars

\* A result whose URIs percent_decode cannot slice: no handler sees the panic.
Panicking == cmd.name \in Decoding /\ Goto("panicking") /\ UNCHANGED fileVars

\* The request was the last one, or another follows.
Proceed(e) ==
    \/ Len(replies) + 1 < Len(Requests) /\ Goto("asking") /\ UNCHANGED fileVars
    \/ Len(replies) + 1 = Len(Requests) /\ Spilling(e)

\* Mutant: a failed build returns its error, not its diagnostics.
TakeHard(r) ==
    \/ IsForgotten /\ Done("report", "none") /\ UNCHANGED fileVars
    \/ IsRaw(r) /\ Done("raw", ErrorOf(r)) /\ UNCHANGED fileVars
    \/ ~IsForgotten /\ ~IsRaw(r) /\ ErrorOf(r) # "none" /\ Failing(ErrorOf(r))
    \/ ~IsForgotten /\ ~IsRaw(r) /\ r = "failed" /\ Failing("tool")
    \/ ~IsForgotten /\ ~IsRaw(r) /\ r = "ok" /\ Proceed("none")

\* A build that failed, or a text that `format --check` finds to differ, keeps
\* its error beside the result.
Take(r) ==
    \/ IsForgotten /\ Done("report", "none") /\ UNCHANGED fileVars
    \/ IsRaw(r) /\ Done("raw", ErrorOf(r)) /\ UNCHANGED fileVars
    \/ ~IsForgotten /\ ~IsRaw(r) /\ ErrorOf(r) # "none" /\ Failing(ErrorOf(r))
    \/ /\ ~IsForgotten /\ ~IsRaw(r) /\ ErrorOf(r) = "none"
       /\ Proceed(IF r = "failed" THEN "tool" ELSE "none") \/ Panicking

Hear(r) ==
    /\ stage = "waiting"
    /\ Take(r)
    /\ replies' = Append(replies, r)
    /\ UNCHANGED <<cmd, sessionVars, endVars>>

\* What a live server may say to a request.
Possible ==
    {"ok", "invalid", "unknown", "serverError"}
        \cup (IF Request = "tools/list" THEN {} ELSE {"isError"})
        \cup (IF Request = "versions" THEN {"empty"} ELSE {})
        \cup (IF cmd.name \in {"build", "buildParams", "formatCheck"} THEN {"failed"} ELSE {})

Reply(r) ==
    /\ server = "up"
    /\ stage = "waiting" /\ r \in Possible
    /\ Hear(r)

\* Mutant: the request waits for ever.
TimeOutNever == FALSE /\ UNCHANGED vars

\* --timeout, of every request.
TimeOut == Hear("timeout")

LoseSession ==
    /\ server = "down"
    /\ Hear("closed")

-----------------------------------------------------------------------------
(* Output files, standard output, the report and the end.                  *)

\* --template-only and --parameters-only return before any file is written.
Wanted == IF cmd.only # "none" THEN 0 ELSE Len(cmd.writes)

\* Mutant: one write too many.
SpillOneMore ==
    /\ stage = "spilling"
    /\ tried <= Wanted
    /\ tried' = tried + 1
    /\ UNCHANGED <<cmd, stage, sessionVars, replies, texts, written, outcomeVars, endVars>>

\* A text that the result lacks is passed over.
Spill ==
    /\ stage = "spilling"
    /\ tried < Wanted
    /\ tried' = tried + 1
    /\ written' = written \cup ({cmd.writes[tried + 1]} \cap texts)
    /\ UNCHANGED <<cmd, stage, sessionVars, replies, texts, outcomeVars, endVars>>

\* Mutant: one file that cannot be written does not keep the other from it.
SpillSkips ==
    /\ stage = "spilling"
    /\ tried < Wanted /\ cmd.writes[tried + 1] \in texts
    /\ Done("value", error)
    /\ UNCHANGED <<cmd, sessionVars, replies, fileVars, endVars>>

\* The file cannot be written, or `decompile` would need --force for it: this
\* error takes the place of the result, and of its error.
SpillFails ==
    /\ stage = "spilling"
    /\ tried < Wanted /\ cmd.writes[tried + 1] \in texts
    /\ Fail("usage")
    /\ UNCHANGED <<cmd, sessionVars, replies, fileVars, endVars>>

Render ==
    /\ stage = "spilling"
    /\ tried = Wanted
    /\ Done(IF cmd.only \in texts THEN "text" ELSE "value", error)
    /\ UNCHANGED <<cmd, sessionVars, replies, fileVars, endVars>>

PrintOutput ==
    /\ stage = "printing"
    /\ stdout' = output
    /\ Goto("reporting")
    /\ UNCHANGED <<cmd, sessionVars, replies, fileVars, reports, exit>>

\* A line on standard error, no error.
PrintFails ==
    /\ stage = "printing"
    /\ stdout' = "lost"
    /\ Goto("reporting")
    /\ UNCHANGED <<cmd, sessionVars, replies, fileVars, reports, exit>>

Report ==
    /\ stage = "reporting"
    /\ reports' = IF error = "none" THEN reports ELSE reports + 1
    /\ Goto("finishing")
    /\ UNCHANGED <<cmd, sessionVars, replies, fileVars, stdout, exit>>

ExitCode ==
    CASE error = "none" -> "success"
      [] error = "usage" -> "usageError"
      [] error = "tool" -> "toolError"
      [] error = "transport" -> "transportError"

\* Mutant: an error leaves the process at once.
FinishIfFine ==
    /\ stage = "finishing"
    /\ server' = IF session = "spawned" /\ server = "up" /\ error = "none" THEN "closed" ELSE server
    /\ exit' = ExitCode
    /\ Goto("ended")
    /\ UNCHANGED <<cmd, session, sought, spawned, replies, fileVars, stdout, reports>>

\* The session is closed before process::exit, which runs no destructor.
Finish ==
    /\ stage = "finishing"
    /\ server' = IF session = "spawned" /\ server = "up" THEN "closed" ELSE server
    /\ exit' = ExitCode
    /\ Goto("ended")
    /\ UNCHANGED <<cmd, session, sought, spawned, replies, fileVars, stdout, reports>>

\* Exit code 101 without a report; the session is dropped with the stack (that
\* this ends its server is the MCP library's promise).
Unwind ==
    /\ stage = "panicking"
    /\ server' = IF session = "spawned" /\ server = "up" THEN "dropped" ELSE server
    /\ exit' = "panicked"
    /\ Goto("ended")
    /\ UNCHANGED <<cmd, session, sought, spawned, replies, fileVars, stdout, reports>>

-----------------------------------------------------------------------------
Command ==
    \/ Parse \/ ResolveServer \/ CheckArguments \/ Probe
    \/ Seek \/ NoDaemon \/ SpawnServer \/ SpawnFails \/ HandshakeFails
    \/ Ask \/ TimeOut \/ LoseSession
    \/ Spill \/ SpillFails \/ Render \/ PrintOutput \/ PrintFails \/ Report \/ Finish
    \/ Unwind

\* Not the command's to decide.
Server == UseDaemon \/ ShakeHands \/ (\E r \in ReplyKinds : Reply(r)) \/ ServerDies

Next == Command \/ Server

\* The process runs; no server need ever answer.
Spec == Init /\ [][Next]_vars
FairSpec == Spec /\ WF_vars(Command)

-----------------------------------------------------------------------------
Heard(kinds) == \E i \in DOMAIN replies : replies[i] \in kinds
Ended == exit # "none"

\* "fails in milliseconds without contacting the server" (README.md:72): a
\* command line with a fault reaches no server, whichever check finds it.
UsageErrorsAskNobody ==
    cmd.fault # "none" => ~sought /\ spawned = 0 /\ replies = << >>

\* The exit codes of README.md:69 to 72, by what has happened, unless --raw asks
\* for the server's result as it is.  0: the command line is right, every request
\* was answered well, all but the one `doctor` forgets, and every text that the
\* result has for a file is written, unless one text is wanted alone: then none is
\* (build.rs:62), though cli.rs:27 shows this as a way to write it.  Another code has its cause among the replies, the files or the
\* session.  "Exactly one JSON object" (README.md:67) is on standard error then,
\* also beside a printed result; a command that panics leaves none.
ExitNamesTheCause ==
    /\ exit \notin {"none", "panicked"} => reports = (IF exit = "success" THEN 0 ELSE 1)
    /\ exit = "success" /\ ~cmd.raw =>
        /\ cmd.fault = "none"
        /\ Len(replies) = Len(Requests)
        /\ \A i \in DOMAIN replies : Requests[i] = "practices" \/ replies[i] = "ok"
        /\ cmd.only = "none" => written = texts \cap Range(cmd.writes)
    /\ exit = "toolError" => Heard({"failed", "isError"})
    /\ exit = "transportError" =>
        session = "none" \/ Heard({"serverError", "timeout", "closed"})
    /\ exit = "usageError" =>
        \/ cmd.fault # "none"
        \/ Heard({"invalid", "unknown", "empty"})
        \/ tried < Wanted

\* A build that fails prints its diagnostics, `format --check` what it found, and
\* `doctor` its report when there is no server, each beside the error (output.rs:1),
\* whatever else is said on standard output.  The four ways to lose them are named:
\* printing fails, a file cannot be written, the command panics, and a failed
\* build that has the text which --template-only wants prints that alone.
FindingsArePrinted ==
    exit \notin {"none", "usageError", "panicked"} /\ stdout # "lost" =>
        /\ Heard({"failed"}) => stdout = (IF cmd.raw THEN "raw" ELSE IF cmd.only \in texts THEN "text" ELSE "value")
        /\ cmd.name = "doctor" /\ session = "none" => stdout = "report"

\* A server that a command started and used is closed when the command ends, on
\* whatever path (main.rs:96: process::exit follows), or dropped by a panic.
NoServerIsLeft == Ended /\ session = "spawned" => server # "up"

\* Every command ends, though its server answers nothing.
InvocationEnds == <>Ended
=============================================================================
