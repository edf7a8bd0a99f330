------------------------------- MODULE Calls -------------------------------
(***************************************************************************)
(* Tool calls through a daemon: `bcp batch` clients (src/src/commands/     *)
(* meta.rs), each with a session of its own (src/src/mcp/client.rs), the   *)
(* proxy that forwards every call to the one upstream server (src/src/     *)
(* daemon.rs), and that server, which answers in any order, late or never. *)
(*                                                                         *)
(* A call is named by its client and the index of its input line.  Request *)
(* identifiers are the MCP library's (rmcp): that a response finds the call *)
(* that waits for it, or nobody, is assumed here and not shown.            *)
(***************************************************************************)
EXTENDS Naturals, Sequences, FiniteSets

CONSTANTS
    Clients,                \* the `bcp batch` processes
    Lines                   \* how many lines each finds on its standard input

ASSUME LinesAssumption == Lines \in Nat /\ IsFiniteSet(Clients)

VARIABLES
    input,                  \* what each line is: "call", "bad" or "blank"
    next,                   \* the line each client is at
    phase,                  \* "ready", "waiting" or "ended"
    out,                    \* the result lines each client has printed
    failures,               \* the failed calls each client has counted
    exit,                   \* "none", then exit code 0, 1 or 2 by name
    requests,               \* calls on their way to the daemon
    pending,                \* calls the daemon has forwarded upstream
    answers,                \* responses on their way to a client
    calls,                  \* the daemon's count of tool calls
    daemon,                 \* "up" or "down"
    upstream                \* "up" or "down"

clientVars == <<input, next, phase, out, failures, exit>>
daemonVars == <<requests, pending, answers, calls, daemon, upstream>>
vars == <<clientVars, daemonVars>>

Index == 1 .. Lines
Call == Clients \X Index
\* Of a line: the tool's result, the tool's own failure, or that nothing came of
\* it (refused, timed out, lost, or a JSON-RPC error of the server's).
Verdicts == {"ok", "tool", "error"}
Answer == [call : Call, verdict : Verdicts]
Line == [index : Index, verdict : Verdicts]

TypeOK ==
    /\ input \in [Clients -> [Index -> {"call", "bad", "blank"}]]
    /\ next \in [Clients -> 1 .. Lines + 1]
    /\ phase \in [Clients -> {"ready", "waiting", "ended"}]
    /\ out \in [Clients -> Seq(Line)]
    /\ failures \in [Clients -> 0 .. Lines]
    /\ exit \in [Clients -> {"none", "success", "toolError", "usageError"}]
    /\ requests \subseteq Call
    /\ pending \subseteq Call
    /\ answers \subseteq Answer
    /\ calls \in Nat
    /\ daemon \in {"up", "down"}
    /\ upstream \in {"up", "down"}

Init ==
    /\ input \in [Clients -> [Index -> {"call", "bad", "blank"}]]
    /\ next = [c \in Clients |-> 1]
    /\ phase = [c \in Clients |-> "ready"]
    /\ out = [c \in Clients |-> << >>]
    /\ failures = [c \in Clients |-> 0]
    /\ exit = [c \in Clients |-> "none"]
    /\ requests = {}
    /\ pending = {}
    /\ answers = {}
    /\ calls = 0
    /\ daemon = "up"
    /\ upstream = "up"

Current(c) == <<c, next[c]>>

\* One result line, the count of failures, and on to the next input line.
PrintLine(c, verdict) ==
    /\ out' = [out EXCEPT ![c] = Append(@, [index |-> next[c], verdict |-> verdict])]
    /\ failures' = [failures EXCEPT ![c] = IF verdict = "ok" THEN @ ELSE @ + 1]
    /\ next' = [next EXCEPT ![c] = @ + 1]
    /\ phase' = [phase EXCEPT ![c] = "ready"]

-----------------------------------------------------------------------------
(* batch: one line after the other.                                        *)

AtLine(c, what) ==
    /\ phase[c] = "ready"
    /\ next[c] \in Index
    /\ input[c][next[c]] = what

\* Mutant: the end of the input is not looked for.
SkipPastEnd(c) ==
    /\ phase[c] = "ready"
    /\ next[c] \in Index => input[c][next[c]] = "blank"
    /\ next' = [next EXCEPT ![c] = @ + 1]
    /\ UNCHANGED <<input, phase, out, failures, exit, daemonVars>>

SkipBlank(c) ==
    /\ AtLine(c, "blank")
    /\ next' = [next EXCEPT ![c] = @ + 1]
    /\ UNCHANGED <<input, phase, out, failures, exit, daemonVars>>

\* Mutant: a refused line is printed and not counted.
RefuseUncounted(c) ==
    /\ AtLine(c, "bad")
    /\ out' = [out EXCEPT ![c] = Append(@, [index |-> next[c], verdict |-> "error"])]
    /\ next' = [next EXCEPT ![c] = @ + 1]
    /\ UNCHANGED <<input, phase, failures, exit, daemonVars>>

\* No JSON, no tool, or a path that cannot be made absolute: nothing is sent.
RefuseLine(c) ==
    /\ AtLine(c, "bad")
    /\ PrintLine(c, "error")
    /\ UNCHANGED <<input, exit, daemonVars>>

SendCall(c) ==
    /\ AtLine(c, "call")
    /\ daemon = "up"
    /\ requests' = requests \cup {Current(c)}
    /\ phase' = [phase EXCEPT ![c] = "waiting"]
    /\ UNCHANGED <<input, next, out, failures, exit, pending, answers, calls, daemon, upstream>>

\* A response is the caller's by its identifier.
Receive(c, a) ==
    /\ phase[c] = "waiting"
    /\ a \in answers
    /\ a.call = Current(c)
    /\ answers' = answers \ {a}
    /\ PrintLine(c, a.verdict)
    /\ UNCHANGED <<input, exit, requests, pending, calls, daemon, upstream>>

\* Mutant: a call that timed out leaves no line.
TimeOutSilently(c) ==
    /\ phase[c] = "waiting"
    /\ next' = [next EXCEPT ![c] = @ + 1]
    /\ phase' = [phase EXCEPT ![c] = "ready"]
    /\ UNCHANGED <<input, out, failures, exit, daemonVars>>

\* Mutant: the forwarding call of the proxy, which has no timeout, is used.
TimeOutNever(c) == FALSE /\ UNCHANGED vars

\* --timeout: the call is given up, not cancelled.
TimeOut(c) ==
    /\ phase[c] = "waiting"
    /\ PrintLine(c, "error")
    /\ UNCHANGED <<input, exit, daemonVars>>

\* The session is closed: this call, and every later one, fails at once.
LoseSession(c) ==
    /\ daemon = "down"
    /\ phase[c] = "waiting" \/ AtLine(c, "call")
    /\ PrintLine(c, "error")
    /\ UNCHANGED <<input, exit, daemonVars>>

End(c) ==
    /\ phase[c] = "ready"
    /\ next[c] = Lines + 1
    /\ phase' = [phase EXCEPT ![c] = "ended"]
    /\ exit' = [exit EXCEPT ![c] = IF failures[c] > 0 THEN "toolError" ELSE "success"]
    /\ UNCHANGED <<input, next, out, failures, daemonVars>>

\* Standard input cannot be read, or a result line cannot be written.
Abort(c) ==
    /\ phase[c] # "ended"
    /\ phase' = [phase EXCEPT ![c] = "ended"]
    /\ exit' = [exit EXCEPT ![c] = "usageError"]
    /\ UNCHANGED <<input, next, out, failures, daemonVars>>

-----------------------------------------------------------------------------
(* The proxy: a task for each request, none waiting for another.           *)

Respond(r, verdict) == [call |-> r, verdict |-> verdict]

\* Mutant: a request stays queued until it is answered.
ForwardAgain(r) ==
    /\ daemon = "up"
    /\ r \in requests
    /\ calls' = calls + 1
    /\ \/ /\ upstream = "up"
          /\ pending' = pending \cup {r}
          /\ UNCHANGED <<requests, answers>>
       \/ /\ upstream = "down"
          /\ answers' = answers \cup {Respond(r, "error")}
          /\ requests' = requests \ {r}
          /\ UNCHANGED pending
    /\ UNCHANGED <<clientVars, daemon, upstream>>

\* call_tool counts and forwards; a lost upstream server is an error answer.
Forward(r) ==
    /\ daemon = "up"
    /\ r \in requests
    /\ requests' = requests \ {r}
    /\ calls' = calls + 1
    /\ \/ /\ upstream = "up"
          /\ pending' = pending \cup {r}
          /\ UNCHANGED answers
       \/ /\ upstream = "down"
          /\ answers' = answers \cup {Respond(r, "error")}
          /\ UNCHANGED pending
    /\ UNCHANGED <<clientVars, daemon, upstream>>

\* The upstream server answers one of its calls, whichever it likes: with a
\* result, or with an error that the proxy passes on (to_mcp_error) and the
\* client turns into a usage or transport error (map_service_error).
\* The response goes to the session the call came from.
AnswerCall(r) ==
    /\ daemon = "up"
    /\ upstream = "up"
    /\ r \in pending
    /\ pending' = pending \ {r}
    /\ \E verdict \in Verdicts : answers' = answers \cup {Respond(r, verdict)}
    /\ UNCHANGED <<clientVars, requests, calls, daemon, upstream>>

\* A response nobody waits for any more is dropped.
DropLate(a) ==
    /\ a \in answers
    /\ LET c == a.call[1] IN phase[c] # "waiting" \/ Current(c) # a.call
    /\ answers' = answers \ {a}
    /\ UNCHANGED <<clientVars, requests, pending, calls, daemon, upstream>>

UpstreamDies ==
    /\ upstream = "up"
    /\ upstream' = "down"
    /\ pending' = {}
    /\ answers' = answers \cup {Respond(r, "error") : r \in pending}
    /\ UNCHANGED <<clientVars, requests, calls, daemon>>

\* The daemon leaves or is killed: requests are lost, of the responses some
\* may have left already.
DaemonDies ==
    /\ daemon = "up"
    /\ daemon' = "down"
    /\ requests' = {}
    /\ pending' = {}
    /\ answers' \in SUBSET answers
    /\ UNCHANGED <<clientVars, calls, upstream>>

-----------------------------------------------------------------------------
Client(c) ==
    \/ SkipBlank(c) \/ RefuseLine(c) \/ SendCall(c)
    \/ \E a \in answers : Receive(c, a)
    \/ TimeOut(c) \/ LoseSession(c) \/ End(c)

Proxy == \/ \E r \in requests : Forward(r)
         \/ \E r \in pending : AnswerCall(r)
         \/ \E a \in answers : DropLate(a)

Next == (\E c \in Clients : Client(c) \/ Abort(c)) \/ Proxy \/ UpstreamDies \/ DaemonDies

\* Only the clients are sure to run: their timeouts make up for the rest.
Fairness == \A c \in Clients : WF_vars(Client(c))

Spec == Init /\ [][Next]_vars

FairSpec == Spec /\ Fairness

-----------------------------------------------------------------------------
\* "one result line each" (README.md:99): the lines printed are, in order,
\* those of the input lines that are not blank.
OneResultEach ==
    \A c \in Clients :
        /\ {out[c][k].index : k \in 1 .. Len(out[c])} = {i \in 1 .. next[c] - 1 : input[c][i] # "blank"}
        /\ \A j, k \in 1 .. Len(out[c]) : j < k => out[c][j].index < out[c][k].index

\* "exit 1 if any call failed" (meta.rs:184): exit code 0 vouches for every
\* line of the input, 1 for a failure the output shows.
ExitTellsFailure ==
    \A c \in Clients :
        LET ok == {out[c][k].index : k \in {j \in 1 .. Len(out[c]) : out[c][j].verdict = "ok"}}
        IN  /\ exit[c] = "success" => \A i \in Index : input[c][i] = "blank" \/ i \in ok
            /\ exit[c] = "toolError" => \E k \in 1 .. Len(out[c]) : out[c][k].index \notin ok

\* Calls of lines the clients have come to, and those whose result is printed:
\* a line with an error does not tell whether the tool was called.
SentCalls ==
    {r \in Call : /\ input[r[1]][r[2]] = "call"
                  /\ r[2] < next[r[1]] \/ (r[2] = next[r[1]] /\ phase[r[1]] # "ready")}
AnsweredCalls ==
    {r \in Call : \E k \in 1 .. Len(out[r[1]]) :
        out[r[1]][k].index = r[2] /\ out[r[1]][k].verdict \in {"ok", "tool"}}

\* What the daemon counts (`daemon status`) covers every call that was answered,
\* or is still upstream, and never exceeds the calls that were sent: one whose
\* client gave up is not made again, nor is one whose upstream server is lost.
EachCallIsMadeOnce ==
    /\ Cardinality(AnsweredCalls) + Cardinality(pending) <= calls
    /\ calls <= Cardinality(SentCalls)

\* A batch ends although the upstream server, or the daemon, answers nothing.
BatchesEnd == \A c \in Clients : <>(phase[c] = "ended")
=============================================================================
