----------------------------- MODULE Discovery -----------------------------
(***************************************************************************)
(* How processes that share nothing but the state file and the loopback    *)
(* ports find, refuse, evict and stop a daemon (src/src/transport.rs and   *)
(* src/src/daemon.rs).  A process is one run of `bcp`: a daemon runs       *)
(* `bcp serve`, a client runs one other command, with the operation op[p]: *)
(*                                                                         *)
(*   "auto", "daemon", "spawn"   a tool command under that --transport     *)
(*   "status", "stop"            `bcp daemon status`, `bcp daemon stop`    *)
(*                                                                         *)
(* The life of a process, by pc:                                           *)
(*                                                                         *)
(*   idle -> dial -> await -> acked | refused | failed                     *)
(*   a daemon then goes   spawn -> bind -> open -> write -> serving ->     *)
(*   closing -> exiting -> stopped, or crashed from any of them            *)
(*   a client then goes   session | spawn | poll -> done                   *)
(*                                                                         *)
(* Between any two steps of one process every other process may move.      *)
(***************************************************************************)
EXTENDS StateFile, Naturals

CONSTANTS
    Clients,                \* the other `bcp` processes
    Ports,                  \* loopback ports the kernel hands out
    Ops,                    \* the operations clients run
    MaxPolls                \* reads of the state file `daemon stop` waits for

ASSUME NamesAssumption ==
    /\ Daemons \cap Clients = {}
    /\ Daemons \cap (NoState \cup {"none", "free", "foreign"}) = {}
    /\ Ports \cap {"none"} = {}

ASSUME OpsAssumption == Ops \subseteq {"auto", "daemon", "spawn", "status", "stop"}

ASSUME MaxPollsAssumption == MaxPolls \in Nat

VARIABLES
    pc,                     \* where each process is
    op,                     \* what each process was asked to do
    seen,                   \* the state each process read, "none" before
    link,                   \* its connection to a daemon, as the client end sees it
    peer,                   \* who accepted that connection
    port,                   \* the port in each daemon's state
    listener,               \* who listens on each port
    polls,                  \* reads `daemon stop` has waited for
    result                  \* what each process reported

procVars == <<pc, op, seen, link, peer, polls, result>>
netVars == <<port, listener>>
vars == <<procVars, netVars, fileVars>>

Procs == Daemons \cup Clients

Running == {"serving", "closing", "exiting"}
Published == {"write"} \cup Running
Bound == {"open"} \cup Published
Gone == {"stopped", "crashed"}
Steps == {"idle", "dial", "await", "acked", "refused", "failed", "session",
          "spawn", "poll", "done", "bind"} \cup Bound \cup Gone
Links == {"none", "queued", "taken", "acked", "closed"}
Results == {"none", "viaDaemon", "viaOwn", "error", "notRunning", "running",
            "stale", "stopped", "alreadyRunning", "served"}

TypeOK ==
    /\ FileTypeOK
    /\ pc \in [Procs -> Steps]
    /\ op \in [Procs -> Ops \cup {"serve"}]
    /\ seen \in [Procs -> Daemons \cup {"none"}]
    /\ link \in [Procs -> Links]
    /\ peer \in [Procs -> Daemons \cup {"none", "foreign"}]
    /\ port \in [Daemons -> Ports \cup {"none"}]
    /\ listener \in [Ports -> Daemons \cup {"free", "foreign"}]
    /\ polls \in [Procs -> 0 .. MaxPolls]
    /\ result \in [Procs -> Results]

Init ==
    /\ FileInit
    /\ pc = [p \in Procs |-> "idle"]
    /\ op \in [Procs -> Ops \cup {"serve"}]
    /\ \A p \in Procs : op[p] = "serve" <=> p \in Daemons
    /\ seen = [p \in Procs |-> "none"]
    /\ link = [p \in Procs |-> "none"]
    /\ peer = [p \in Procs |-> "none"]
    /\ port = [d \in Daemons |-> "none"]
    /\ listener = [q \in Ports |-> "free"]
    /\ polls = [p \in Procs |-> 0]
    /\ result = [p \in Procs |-> "none"]

Dead(d) == pc[d] \in Gone

Goto(p, step) == pc' = [pc EXCEPT ![p] = step]

Finish(p, outcome) ==
    /\ pc' = [pc EXCEPT ![p] = IF p \in Daemons THEN "stopped" ELSE "done"]
    /\ result' = [result EXCEPT ![p] = outcome]

Vacated(d) == [q \in Ports |-> IF listener[q] = d THEN "free" ELSE listener[q]]

-----------------------------------------------------------------------------
(* Looking for a daemon.                                                   *)

\* A state was read: it is used from here on, whatever happens to the file.
ReadFound(p) ==
    /\ pc[p] = "idle"
    /\ op[p] # "spawn"
    /\ ReadState # "none"
    /\ seen' = [seen EXCEPT ![p] = ReadState]
    /\ Goto(p, "dial")
    /\ UNCHANGED <<op, link, peer, polls, result, netVars, fileVars>>

\* No state, or --transport spawn: start a server, or say nothing runs.
NothingFound(p) ==
    /\ pc[p] = "idle"
    /\ op[p] = "spawn" \/ ReadState = "none"
    /\ \/ op[p] \in {"serve", "auto", "spawn"} /\ Goto(p, "spawn") /\ UNCHANGED result
       \/ op[p] \in {"status", "stop"} /\ Finish(p, "notRunning")
       \/ op[p] = "daemon" /\ Finish(p, "error")
    /\ UNCHANGED <<op, seen, link, peer, polls, netVars, fileVars>>

\* TcpStream::connect to the port that was read, and the preamble behind it.
Connect(p) ==
    LET owner == listener[port[seen[p]]]
    IN  /\ pc[p] = "dial"
        /\ \/ /\ owner = "free"
              /\ Goto(p, "refused")
              /\ UNCHANGED <<link, peer>>
           \/ /\ owner # "free"
              /\ Goto(p, "await")
              /\ link' = [link EXCEPT ![p] = "queued"]
              /\ peer' = [peer EXCEPT ![p] = owner]
        /\ UNCHANGED <<op, seen, polls, result, netVars, fileVars>>

\* Mutant: the acknowledgement is awaited without a timeout.
TimeOutDialOnly(p) ==
    /\ pc[p] = "dial"
    /\ Goto(p, "failed")
    /\ UNCHANGED <<op, seen, link, peer, polls, result, netVars, fileVars>>

\* CONNECT_TIMEOUT, for the connection or for the acknowledgement.
TimeOut(p) ==
    /\ pc[p] \in {"dial", "await"}
    /\ Goto(p, "failed")
    /\ UNCHANGED <<op, seen, link, peer, polls, result, netVars, fileVars>>

\* The client authenticates nobody: an acknowledgement is {"ok": true}, and a
\* foreign program on the port may send that as well as anything else.
ReceiveAck(p) ==
    /\ pc[p] = "await"
    /\ link[p] = "acked" \/ peer[p] = "foreign"
    /\ link' = [link EXCEPT ![p] = "acked"]
    /\ Goto(p, "acked")
    /\ UNCHANGED <<op, seen, peer, polls, result, netVars, fileVars>>

\* End of file, a reset, a refusal or text that is no acknowledgement.
ReceiveNoAck(p) ==
    /\ pc[p] = "await"
    /\ \/ link[p] = "closed"
       \/ peer[p] = "foreign"
       \/ peer[p] \in Daemons /\ Dead(peer[p])
    /\ Goto(p, "failed")
    /\ UNCHANGED <<op, seen, link, peer, polls, result, netVars, fileVars>>

\* The failure is told from a refused connection by its message, which quotes
\* what the peer sent, here or in the MCP handshake: a foreign answer that
\* holds the phrase passes for one.
MistakenForRefused(p) ==
    /\ pc[p] = "await" \/ (pc[p] = "acked" /\ op[p] \in {"auto", "daemon"})
    /\ peer[p] = "foreign"
    /\ Goto(p, "refused")
    /\ UNCHANGED <<op, seen, link, peer, polls, result, netVars, fileVars>>

\* Mutant: a tool command evicts after any failure, as `serve` does.
MayEvictEagerly(p) ==
    /\ pc[p] \in {"refused", "failed"}
    /\ op[p] \in {"serve", "stop", "auto"}

\* Mutant: `daemon status` cleans up what it cannot reach.
MayEvictOnStatus(p) ==
    \/ pc[p] = "refused" /\ op[p] \in {"serve", "stop", "auto"}
    \/ pc[p] = "failed" /\ op[p] \in {"serve", "stop", "status"}

\* Who removes the state file after which failure.
MayEvict(p) ==
    \/ pc[p] = "refused" /\ op[p] \in {"serve", "stop", "auto"}
    \/ pc[p] = "failed" /\ op[p] \in {"serve", "stop"}

Evict(p) ==
    /\ MayEvict(p)
    /\ RemoveFile
    /\ \/ op[p] = "stop" /\ Finish(p, "stale")
       \/ op[p] # "stop" /\ Goto(p, "spawn") /\ UNCHANGED result
    /\ UNCHANGED <<op, seen, link, peer, polls, netVars>>

\* The failures that leave the file alone.
GiveUp(p) ==
    /\ pc[p] \in {"refused", "failed"}
    /\ ~MayEvict(p)
    /\ \/ op[p] = "auto" /\ Goto(p, "spawn") /\ UNCHANGED result
       \/ op[p] = "daemon" /\ Finish(p, "error")
       \/ op[p] = "status" /\ Finish(p, "stale")
    /\ UNCHANGED <<op, seen, link, peer, polls, netVars, fileVars>>

-----------------------------------------------------------------------------
(* After the acknowledgement.                                              *)

\* Mutant: a failure other than a refused connection counts as an answer.
ReportRunningUnanswered(p) ==
    /\ pc[p] \in {"acked", "failed"}
    /\ \/ op[p] = "serve" /\ Finish(p, "alreadyRunning")
       \/ op[p] = "status" /\ Finish(p, "running")
    /\ UNCHANGED <<op, seen, link, peer, polls, netVars, fileVars>>

\* `serve` refuses to start, `daemon status` prints what the daemon said.
ReportRunning(p) ==
    /\ pc[p] = "acked"
    /\ \/ op[p] = "serve" /\ Finish(p, "alreadyRunning")
       \/ op[p] = "status" /\ Finish(p, "running")
    /\ UNCHANGED <<op, seen, link, peer, polls, netVars, fileVars>>

\* Who acknowledged is there to go on talking.
PeerLives(p) == peer[p] = "foreign" \/ (peer[p] \in Daemons /\ ~Dead(peer[p]))

\* The MCP handshake over the acknowledged connection.
Handshake(p) ==
    /\ pc[p] = "acked"
    /\ op[p] \in {"auto", "daemon"}
    /\ \/ PeerLives(p) /\ Goto(p, "session")
       \/ Goto(p, "failed")
    /\ UNCHANGED <<op, seen, link, peer, polls, result, netVars, fileVars>>

\* The command's tool calls, over the daemon or not answered at all; it ends
\* with the last reply, taken to arrive when it is sent.
UseDaemon(p) ==
    /\ pc[p] = "session"
    /\ \/ PeerLives(p) /\ Finish(p, "viaDaemon")
       \/ Finish(p, "error")
    /\ UNCHANGED <<op, seen, link, peer, polls, netVars, fileVars>>

\* A client's one-shot server: spawned, used and closed, or failing.
UseOwnServer(c) ==
    /\ c \in Clients
    /\ pc[c] = "spawn"
    /\ \E outcome \in {"viaOwn", "error"} : Finish(c, outcome)
    /\ UNCHANGED <<op, seen, link, peer, polls, netVars, fileVars>>

\* `daemon stop` waits for the state file to go, at most MaxPolls reads.
StartPolling(p) ==
    /\ pc[p] = "acked"
    /\ op[p] = "stop"
    /\ Goto(p, "poll")
    /\ UNCHANGED <<op, seen, link, peer, polls, result, netVars, fileVars>>

\* Mutant: the number of polls is not bounded.
PollForever(p) ==
    /\ pc[p] = "poll"
    /\ ReadState # "none"
    /\ polls' = [polls EXCEPT ![p] = @ + 1]
    /\ UNCHANGED <<pc, op, seen, link, peer, result, netVars, fileVars>>

PollAgain(p) ==
    /\ pc[p] = "poll"
    /\ polls[p] < MaxPolls
    /\ ReadState # "none"
    /\ polls' = [polls EXCEPT ![p] = @ + 1]
    /\ UNCHANGED <<pc, op, seen, link, peer, result, netVars, fileVars>>

PollEnds(p) ==
    /\ pc[p] = "poll"
    /\ polls[p] = MaxPolls \/ ReadState = "none"
    /\ Finish(p, "stopped")
    /\ UNCHANGED <<op, seen, link, peer, polls, netVars, fileVars>>

-----------------------------------------------------------------------------
(* Becoming a daemon.                                                      *)

\* A step that may fail ends `serve` with an error instead.
SpawnUpstream(d) ==
    /\ d \in Daemons
    /\ pc[d] = "spawn"
    /\ \/ Goto(d, "bind") /\ UNCHANGED result
       \/ Finish(d, "error")
    /\ UNCHANGED <<op, seen, link, peer, polls, netVars, fileVars>>

Bind(d) ==
    /\ pc[d] = "bind"
    /\ \/ \E q \in Ports :
            /\ listener[q] = "free"
            /\ listener' = [listener EXCEPT ![q] = d]
            /\ port' = [port EXCEPT ![d] = q]
            /\ Goto(d, "open")
            /\ UNCHANGED result
       \/ Finish(d, "error") /\ UNCHANGED netVars
    /\ UNCHANGED <<op, seen, link, peer, polls, fileVars>>

OpenState(d) ==
    /\ pc[d] = "open"
    /\ \/ /\ OpenTruncated(d)
          /\ Goto(d, "write")
          /\ UNCHANGED <<result, listener>>
       \/ /\ Finish(d, "error")
          /\ listener' = Vacated(d)
          /\ UNCHANGED fileVars
    /\ UNCHANGED <<op, seen, link, peer, polls, port>>

WriteState(d) ==
    /\ pc[d] = "write"
    /\ \/ /\ WriteThrough(d)
          /\ Goto(d, "serving")
          /\ UNCHANGED <<result, listener>>
       \/ /\ WriteCutShort(d)
          /\ Finish(d, "error")
          /\ listener' = Vacated(d)
    /\ UNCHANGED <<op, seen, link, peer, polls, port>>

-----------------------------------------------------------------------------
(* Being a daemon.                                                         *)

\* The accept loop runs only while serving; what it spawned outlives it.
Accept(d, p) ==
    /\ pc[d] = "serving"
    /\ peer[p] = d
    /\ link[p] = "queued"
    /\ link' = [link EXCEPT ![p] = "taken"]
    /\ UNCHANGED <<pc, op, seen, peer, polls, result, netVars, fileVars>>

\* Mutant: the token is not compared.
GreetAnyone(d, p) ==
    /\ pc[d] \in Running
    /\ peer[p] = d
    /\ link[p] = "taken"
    /\ link' = [link EXCEPT ![p] = "acked"]
    /\ UNCHANGED <<pc, op, seen, peer, polls, result, netVars, fileVars>>

\* handle_conn up to the acknowledgement: the preamble carries the token of
\* the state that was read, which must be this daemon's own.
Greet(d, p) ==
    /\ pc[d] \in Running
    /\ peer[p] = d
    /\ link[p] = "taken"
    /\ link' = [link EXCEPT ![p] = IF seen[p] = d THEN "acked" ELSE "closed"]
    /\ UNCHANGED <<pc, op, seen, peer, polls, result, netVars, fileVars>>

\* PREAMBLE_TIMEOUT, or a preamble that did not arrive whole.
HangUp(d, p) ==
    /\ pc[d] \in Running
    /\ peer[p] = d
    /\ link[p] = "taken"
    /\ link' = [link EXCEPT ![p] = "closed"]
    /\ UNCHANGED <<pc, op, seen, peer, polls, result, netVars, fileVars>>

\* The loop breaks: a signal, a stop request, the idle limit or the loss of
\* the upstream server (DaemonLoop tells them apart).
LeaveLoop(d) ==
    /\ pc[d] = "serving"
    /\ Goto(d, "closing")
    /\ UNCHANGED <<op, seen, link, peer, polls, result, netVars, fileVars>>

\* Mutant: the daemon leaves its state file behind.
ExitKeepingState(d) ==
    /\ pc[d] = "closing"
    /\ Goto(d, "exiting")
    /\ UNCHANGED <<op, seen, link, peer, polls, result, netVars, fileVars>>

RemoveOnExit(d) ==
    /\ pc[d] = "closing"
    /\ RemoveFile
    /\ Goto(d, "exiting")
    /\ UNCHANGED <<op, seen, link, peer, polls, result, netVars>>

Exit(d) ==
    /\ pc[d] = "exiting"
    /\ Finish(d, "served")
    /\ listener' = Vacated(d)
    /\ UNCHANGED <<op, seen, link, peer, polls, port, fileVars>>

\* Killed at any point: nothing is cleaned up but what the kernel owns.
Crash(d) ==
    /\ ~Dead(d)
    /\ Goto(d, "crashed")
    /\ CloseHandle(d)
    /\ listener' = Vacated(d)
    /\ UNCHANGED <<op, seen, link, peer, polls, port, result>>

\* Other programs take and leave loopback ports.
ForeignBinds(q) ==
    /\ listener[q] = "free"
    /\ listener' = [listener EXCEPT ![q] = "foreign"]
    /\ UNCHANGED <<procVars, port, fileVars>>

ForeignLeaves(q) ==
    /\ listener[q] = "foreign"
    /\ listener' = [listener EXCEPT ![q] = "free"]
    /\ UNCHANGED <<procVars, port, fileVars>>

-----------------------------------------------------------------------------
\* What a process does of itself until it has its answer.
Seek(p) ==
    \/ ReadFound(p) \/ NothingFound(p)
    \/ Connect(p) \/ TimeOut(p)
    \/ ReceiveAck(p) \/ ReceiveNoAck(p) \/ MistakenForRefused(p)
    \/ Evict(p) \/ GiveUp(p)
    \/ ReportRunning(p) \/ Handshake(p) \/ UseDaemon(p) \/ UseOwnServer(p)
    \/ StartPolling(p) \/ PollAgain(p) \/ PollEnds(p)

Start(d) == SpawnUpstream(d) \/ Bind(d) \/ OpenState(d) \/ WriteState(d)

Attend(d, p) == Accept(d, p) \/ Greet(d, p) \/ HangUp(d, p)

Leave(d) == LeaveLoop(d) \/ RemoveOnExit(d) \/ Exit(d) \/ Crash(d)

Environment(q) == ForeignBinds(q) \/ ForeignLeaves(q)

Next ==
    \/ \E p \in Procs : Seek(p)
    \/ \E d \in Daemons : Start(d) \/ Leave(d)
    \/ \E d \in Daemons, p \in Procs : Attend(d, p)
    \/ \E q \in Ports : Environment(q)

\* The scheduler runs every process; nothing makes a daemon stop or crash.
Fairness ==
    /\ \A p \in Procs : WF_vars(Seek(p))
    /\ \A d \in Daemons : WF_vars(Start(d))

Spec == Init /\ [][Next]_vars

FairSpec == Spec /\ Fairness

-----------------------------------------------------------------------------
\* A daemon that left by itself has left no state that names it, whatever
\* other processes wrote and removed meanwhile (serve, daemon.rs:279).
CleanExitLeavesNoState ==
    \A d \in Daemons : pc[d] \in {"exiting", "stopped"} => content # d

\* No daemon acknowledges for another one, though the port that was read may
\* have passed to it since (handle_conn, daemon.rs:144).  A foreign program may,
\* since the client asks for no proof (transport.rs:75), but not before the
\* daemon that was read is dead: while it lives, it alone answers for itself.
NoOtherDaemonAcknowledges ==
    \A p \in Procs :
        link[p] = "acked" \/ pc[p] \in {"acked", "session", "poll"}
            => \/ peer[p] = seen[p]
               \/ peer[p] = "foreign" /\ seen[p] \in Daemons /\ Dead(seen[p])

\* A tool command removes the state file only after the daemon it names is
\* gone, never for a daemon that is merely slow (open_session,
\* transport.rs:171): that one the user may still want.
AutoGivesUpOnTheDeadOnly ==
    \A p \in Procs :
        op[p] = "auto" /\ MayEvict(p) => Dead(seen[p])

\* No other daemon and no `daemon stop` has set out beside this daemon yet:
\* "idle" is left at once and never entered again.
Undisputed(d) ==
    /\ \A e \in Daemons \ {d} : pc[e] = "idle"
    /\ \A p \in Procs : op[p] = "stop" => pc[p] = "idle"

\* Until a second `serve` or a `daemon stop` sets out, the state file names the
\* daemon for as long as it serves: no tool command, status, timeout or failed
\* attempt to connect hides it from the next one (open_session and status).
ServingIsDiscoverable ==
    \A d \in Daemons : pc[d] = "serving" /\ Undisputed(d) => content = d

\* Every command ends, whoever holds the port it dials and whatever becomes
\* of the daemon: timeouts bound each wait (transport.rs:43 and :68, stop).
CommandsEnd == \A c \in Clients : <>(pc[c] = "done")

\* Every `serve` gets to serve or ends, never stuck on the daemon it found.
StartsSettle == \A d \in Daemons : <>(pc[d] = "serving" \/ Dead(d))

\* What users are promised, with everything shared hidden.
Life == [d \in Daemons |-> IF pc[d] \in Running THEN "up"
                           ELSE IF Dead(d) THEN "gone" ELSE "starting"]

Answered == [p \in Procs |-> IF link[p] = "acked" THEN peer[p] ELSE "none"]

Service == INSTANCE DaemonService
             WITH life <- Life, answer <- Answered, outcome <- result

\* Files, ports and tokens implement that promise: every outcome a command
\* reports is supported by the answer of a daemon that was up to give it, or
\* of a foreign program after some daemon has gone and left its port.
ImplementsService == Service!Spec

-----------------------------------------------------------------------------
(* Why the safety properties hold: facts every step preserves.             *)

\* A daemon whose state may be in the file, or in the hands of a process.
Posted(d) == port[d] \in Ports /\ pc[d] \in Running \cup Gone

RolesFixed == \A p \in Procs : op[p] = "serve" <=> p \in Daemons

FileNamesPosted == content \in Daemons => Posted(content)

SeenIsPosted == \A p \in Procs : seen[p] \in Daemons => Posted(seen[p])

DialsWhatItSaw ==
    \A p \in Procs :
        pc[p] \in {"dial", "await", "acked", "refused"} => seen[p] \in Daemons

HoldsItsPort ==
    \A d \in Daemons :
        pc[d] \in Bound => port[d] \in Ports /\ listener[port[d]] = d

FreshLink ==
    \A p \in Procs : pc[p] \in {"idle", "dial"} => link[p] = "none" /\ peer[p] = "none"

LostItsPort ==
    \A p \in Procs :
        pc[p] = "refused" \/ peer[p] = "foreign"
            => seen[p] \in Daemons /\ Dead(seen[p])

AckIsKept ==
    \A p \in Procs :
        /\ pc[p] \in {"acked", "session", "poll"} => link[p] = "acked"
        /\ link[p] = "acked" => peer[p] \in {seen[p], "foreign"} /\ seen[p] \in Daemons

\* Nothing is reported before the end, and only clients open a session, poll
\* or are done.
ReportsOnce ==
    \A p \in Procs :
        /\ pc[p] \notin {"done", "stopped"} => result[p] = "none"
        /\ pc[p] \in {"session", "poll", "done"} => p \notin Daemons

DiscoveryInv ==
    /\ TypeOK
    /\ RolesFixed
    /\ FileNamesPosted
    /\ SeenIsPosted
    /\ DialsWhatItSaw
    /\ HoldsItsPort
    /\ FreshLink
    /\ LostItsPort
    /\ AckIsKept
    /\ ReportsOnce
    /\ CleanExitLeavesNoState

\* While a daemon is undisputed, only it touches the file from the moment it
\* opens it until it leaves.
FileIsKept ==
    \A d \in Daemons : Undisputed(d) =>
        /\ pc[d] = "write" => d \in handles /\ content = "blank"
        /\ pc[d] \in {"serving", "closing"} => content = d

-----------------------------------------------------------------------------
(* What docs and comments say, and concurrent processes break.             *)

\* "a daemon is already running ...; stop it with `bcp daemon stop`"
\* (daemon.rs:201): a second daemon does not serve beside the first.
OneDaemonServes ==
    \A d, e \in Daemons : pc[d] = "serving" /\ pc[e] = "serving" => d = e

\* "A stale state file (daemon crashed) is removed automatically"
\* (README.md:57), and only a stale one by a tool command.
AutoRemovesStaleOnly ==
    [][\A c \in Clients :
          op[c] = "auto" /\ Evict(c) /\ content \in Daemons => Dead(content)]_vars
=============================================================================
