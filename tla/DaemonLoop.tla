----------------------------- MODULE DaemonLoop -----------------------------
(***************************************************************************)
(* Inside one `bcp serve` (src/src/daemon.rs): the select! loop, one task  *)
(* per accepted connection, and what they share: the count of MCP sessions,*)
(* the time of the last activity, the shutdown flag and the upstream       *)
(* server.  The runtime has several threads: every atomic operation, lock  *)
(* and await of a task is a step of its own between which others move.     *)
(*                                                                         *)
(* The life of a connection, by stage:                                     *)
(*   away -> queued -> preamble -> closed                                  *)
(*                             \-> stopping -> closed         (shutdown)   *)
(*                             \-> acked -> shaking -> session <-> calling *)
(*                                      -> uncounted -> closed      (mcp)  *)
(***************************************************************************)
EXTENDS Integers, FiniteSets

CONSTANTS
    Conns,                  \* connections clients make in the daemon's life
    Kinds,                  \* what their first lines are
    Limits,                 \* seconds of serve --idle, 0 for never
    PreambleSecs            \* PREAMBLE_TIMEOUT

ASSUME KindsAssumption ==
    Kinds \subseteq {"mcp", "status", "shutdown", "unknown", "invalid",
                     "unauthorized", "silent"}

ASSUME SecsAssumption == Limits \subseteq Nat /\ PreambleSecs \in Nat \ {0}

ASSUME ConnsAssumption == IsFiniteSet(Conns)

VARIABLES
    limit,                  \* the idle limit this daemon was started with
    loop,                   \* what serve is at
    reason,                 \* why the loop was left
    due,                    \* the one-second ticker has a tick to deliver
    caught,                 \* a signal reached the futures polled right now
    stop,                   \* the value of the shutdown channel
    upstream,               \* "up" or "down"
    kind,                   \* what each client will send
    stage,                  \* of each connection
    waited,                 \* seconds a connection's preamble has been awaited
    link,                   \* the connection as its client has it
    active,                 \* the shared count of MCP sessions
    idle,                   \* seconds since last_activity, no further than limit
    signalled               \* history: a signal was sent to this process

loopVars == <<loop, reason, due, caught>>
given == <<limit, kind>>
connVars == <<given, stage, waited, link>>
sharedVars == <<stop, active, idle>>
vars == <<loopVars, connVars, sharedVars, upstream, signalled>>

Stages == {"away", "queued", "preamble", "stopping", "acked", "shaking",
           "session", "calling", "uncounted", "closed"}
Counted == {"shaking", "session", "calling"}
Open == Counted \cup {"preamble", "stopping", "acked", "uncounted"}
Links == {"none", "queued", "taken", "acked", "closed"}
Looping == {"polling", "counting", "timing"}
Reasons == {"none", "signal", "stopRequested", "upstreamExited",
            "idleTimeout"}

TypeOK ==
    /\ loop \in Looping \cup {"left", "removed", "exited"}
    /\ reason \in Reasons
    /\ due \in BOOLEAN /\ caught \in BOOLEAN /\ stop \in BOOLEAN /\ signalled \in BOOLEAN
    /\ upstream \in {"up", "down"}
    /\ kind \in [Conns -> Kinds]
    /\ stage \in [Conns -> Stages]
    /\ waited \in [Conns -> 0 .. PreambleSecs]
    /\ link \in [Conns -> Links]
    /\ active \in Nat
    /\ limit \in Limits
    /\ idle \in 0 .. limit

Init ==
    /\ limit \in Limits
    /\ loop = "polling"
    /\ reason = "none"
    /\ due = TRUE
    /\ caught = FALSE
    /\ stop = FALSE
    /\ upstream = "up"
    /\ kind \in [Conns -> Kinds]
    /\ stage = [c \in Conns |-> "away"]
    /\ waited = [c \in Conns |-> 0]
    /\ link = [c \in Conns |-> "none"]
    /\ active = 0
    /\ idle = 0
    /\ signalled = FALSE

AtStage(s) == {c \in Conns : stage[c] \in s}

Move(c, s) == stage' = [stage EXCEPT ![c] = s]

Tell(c, s) == link' = [link EXCEPT ![c] = s]

Touch == idle' = 0

-----------------------------------------------------------------------------
(* The loop.  select! takes any branch that is ready and drops the futures *)
(* of the others.  ctrl_c() and terminate_signal() are made anew in every  *)
(* iteration and hear only what is sent while they live, so a signal that  *)
(* was caught is lost with them.                                           *)

LeaveLoop(why) ==
    /\ loop' = "left"
    /\ reason' = why

Accept(c) ==
    /\ loop = "polling"
    /\ stage[c] = "queued"
    /\ Move(c, "preamble")
    /\ Tell(c, "taken")
    /\ caught' = FALSE
    /\ UNCHANGED <<loop, reason, due, given, waited, sharedVars, upstream, signalled>>

HearSignal ==
    /\ loop = "polling"
    /\ caught
    /\ LeaveLoop("signal")
    /\ UNCHANGED <<due, caught, connVars, sharedVars, upstream, signalled>>

HearStop ==
    /\ loop = "polling"
    /\ stop
    /\ LeaveLoop("stopRequested")
    /\ UNCHANGED <<due, caught, connVars, sharedVars, upstream, signalled>>

\* Mutant: the upstream server is not looked at.
HearTickIdleOnly ==
    /\ loop = "polling"
    /\ due
    /\ due' = FALSE
    /\ caught' = FALSE
    /\ loop' = IF limit = 0 THEN "polling" ELSE "counting"
    /\ UNCHANGED <<reason, connVars, sharedVars, upstream, signalled>>

\* The tick's branch looks at the upstream server, then at the count, then at
\* the clock; the tasks run on meanwhile.
HearTick ==
    /\ loop = "polling"
    /\ due
    /\ due' = FALSE
    /\ caught' = FALSE
    /\ \/ upstream = "down" /\ LeaveLoop("upstreamExited")
       \/ /\ upstream = "up"
          /\ loop' = IF limit = 0 THEN "polling" ELSE "counting"
          /\ UNCHANGED reason
    /\ UNCHANGED <<connVars, sharedVars, upstream, signalled>>

\* Mutant: the count of sessions is not looked at.
SkipActive ==
    /\ loop = "counting"
    /\ loop' = "timing"
    /\ UNCHANGED <<reason, due, caught, connVars, sharedVars, upstream, signalled>>

LoadActive ==
    /\ loop = "counting"
    /\ loop' = IF active = 0 THEN "timing" ELSE "polling"
    /\ UNCHANGED <<reason, due, caught, connVars, sharedVars, upstream, signalled>>

ReadClock ==
    /\ loop = "timing"
    /\ \/ idle >= limit /\ LeaveLoop("idleTimeout")
       \/ idle < limit /\ loop' = "polling" /\ UNCHANGED reason
    /\ UNCHANGED <<due, caught, connVars, sharedVars, upstream, signalled>>

RemoveState ==
    /\ loop = "left"
    /\ loop' = "removed"
    /\ UNCHANGED <<reason, due, caught, connVars, sharedVars, upstream, signalled>>

\* The process ends, with every task in it.
Exit ==
    /\ loop = "removed"
    /\ loop' = "exited"
    /\ stage' = [c \in Conns |-> IF stage[c] = "away" THEN "away" ELSE "closed"]
    /\ UNCHANGED <<reason, due, caught, given, waited, link, sharedVars, upstream, signalled>>

-----------------------------------------------------------------------------
(* handle_conn, one task per connection.                                   *)

\* Mutant: the token is not compared.
HandleAnyToken(c) ==
    /\ stage[c] = "preamble"
    /\ \/ kind[c] = "invalid" /\ Move(c, "closed") /\ Tell(c, "closed") /\ UNCHANGED idle
       \/ kind[c] = "status" /\ Move(c, "closed") /\ Tell(c, "acked") /\ Touch
       \/ kind[c] = "shutdown" /\ Move(c, "stopping") /\ Tell(c, "acked") /\ Touch
       \/ kind[c] \in {"mcp", "unauthorized"} /\ Move(c, "acked") /\ Tell(c, "acked") /\ Touch
    /\ UNCHANGED <<loopVars, given, waited, stop, active, upstream, signalled>>

\* The preamble is read, told apart and checked, and the reply written.
HandlePreamble(c) ==
    /\ stage[c] = "preamble"
    /\ \/ kind[c] \in {"invalid", "unauthorized"} /\ Move(c, "closed") /\ Tell(c, "closed") /\ UNCHANGED idle
       \/ kind[c] = "unknown" /\ Move(c, "closed") /\ Tell(c, "closed") /\ Touch
       \/ kind[c] = "status" /\ Move(c, "closed") /\ Tell(c, "acked") /\ Touch
       \/ kind[c] = "shutdown" /\ Move(c, "stopping") /\ Tell(c, "acked") /\ Touch
       \/ kind[c] = "mcp" /\ Move(c, "acked") /\ Tell(c, "acked") /\ Touch
    /\ UNCHANGED <<loopVars, given, waited, stop, active, upstream, signalled>>

\* Mutant: the preamble is awaited without a timeout.
GiveUpOnEndOfFile(c) ==
    /\ stage[c] = "preamble"
    /\ kind[c] # "silent"
    /\ Move(c, "closed")
    /\ Tell(c, "closed")
    /\ UNCHANGED <<loopVars, given, waited, sharedVars, upstream, signalled>>

\* The timeout, or the client's end of file.
GiveUpPreamble(c) ==
    /\ stage[c] = "preamble"
    /\ waited[c] = PreambleSecs \/ kind[c] # "silent"
    /\ Move(c, "closed")
    /\ Tell(c, "closed")
    /\ UNCHANGED <<loopVars, given, waited, sharedVars, upstream, signalled>>

\* Mutant: the reply is sent and the flag forgotten.
ReplyOnly(c) ==
    /\ stage[c] = "stopping"
    /\ Move(c, "closed")
    /\ UNCHANGED <<loopVars, given, waited, link, sharedVars, upstream, signalled>>

RequestStop(c) ==
    /\ stage[c] = "stopping"
    /\ stop' = TRUE
    /\ Move(c, "closed")
    /\ UNCHANGED <<loopVars, given, waited, link, active, idle, upstream, signalled>>

Count(c) ==
    /\ stage[c] = "acked"
    /\ active' = active + 1
    /\ Move(c, "shaking")
    /\ UNCHANGED <<loopVars, given, waited, link, stop, idle, upstream, signalled>>

HandshakeDone(c) ==
    /\ stage[c] = "shaking"
    /\ Move(c, "session")
    /\ UNCHANGED <<loopVars, given, waited, link, sharedVars, upstream, signalled>>

\* Proxy::call_tool, up to the await of the upstream server, and its return.
CallTool(c) ==
    /\ stage[c] = "session"
    /\ Touch
    /\ Move(c, "calling")
    /\ UNCHANGED <<loopVars, given, waited, link, stop, active, upstream, signalled>>

ReturnResult(c) ==
    /\ stage[c] = "calling"
    /\ Move(c, "session")
    /\ UNCHANGED <<loopVars, given, waited, link, sharedVars, upstream, signalled>>

\* Mutant: a failed handshake returns early, past the decrement.
UncountServed(c) ==
    /\ stage[c] \in Counted
    /\ active' = IF stage[c] = "shaking" THEN active ELSE active - 1
    /\ Move(c, "uncounted")
    /\ UNCHANGED <<loopVars, given, waited, link, stop, idle, upstream, signalled>>

\* The client is gone, or its handshake failed: the session is counted off.
Uncount(c) ==
    /\ stage[c] \in Counted
    /\ active' = active - 1
    /\ Move(c, "uncounted")
    /\ UNCHANGED <<loopVars, given, waited, link, stop, idle, upstream, signalled>>

\* Mutant: the session is counted off a second time at the end.
UncountLast(c) ==
    /\ stage[c] = "uncounted"
    /\ Touch
    /\ active' = active - 1
    /\ Move(c, "closed")
    /\ UNCHANGED <<loopVars, given, waited, link, stop, upstream, signalled>>

\* The last touch, after the count has already dropped.
TouchLast(c) ==
    /\ stage[c] = "uncounted"
    /\ Touch
    /\ Move(c, "closed")
    /\ UNCHANGED <<loopVars, given, waited, link, stop, active, upstream, signalled>>

-----------------------------------------------------------------------------
(* What happens to the daemon.                                             *)

Arrive(c) ==
    /\ loop # "exited"
    /\ stage[c] = "away"
    /\ Move(c, "queued")
    /\ Tell(c, "queued")
    /\ UNCHANGED <<loopVars, given, waited, sharedVars, upstream, signalled>>

\* Ctrl-C or SIGTERM: heard by what select! polls, if it is polling.
Signal ==
    /\ loop \in Looping
    /\ ~signalled
    /\ signalled' = TRUE
    /\ caught' = (loop = "polling")
    /\ UNCHANGED <<loop, reason, due, connVars, sharedVars, upstream>>

UpstreamDies ==
    /\ upstream = "up"
    /\ upstream' = "down"
    /\ UNCHANGED <<loopVars, connVars, sharedVars, signalled>>

AtMost(n, bound) == IF n < bound THEN n ELSE bound

\* A second passes, which neither the handling of one tick nor the end of a
\* session takes; clocks are counted no further than they are compared.
Second ==
    /\ loop = "polling"
    /\ AtStage({"uncounted"}) = {}
    /\ due' = TRUE
    /\ idle' = AtMost(idle + 1, limit)
    /\ waited' = [c \in Conns |-> IF stage[c] = "preamble"
                                    THEN AtMost(waited[c] + 1, PreambleSecs)
                                    ELSE waited[c]]
    /\ UNCHANGED <<loop, reason, caught, given, stage, link, stop, active, upstream, signalled>>

-----------------------------------------------------------------------------
Leave == RemoveState \/ Exit

Loop ==
    \/ \E c \in Conns : Accept(c)
    \/ HearSignal \/ HearStop \/ HearTick \/ LoadActive \/ ReadClock
    \/ Leave

\* A task ends with the process; what it does of itself, and what its client
\* decides.
Task(c) ==
    \/ HandlePreamble(c) \/ GiveUpPreamble(c) \/ RequestStop(c)
    \/ Count(c) \/ TouchLast(c)

Client(c) ==
    \/ Arrive(c) \/ HandshakeDone(c) \/ CallTool(c) \/ ReturnResult(c) \/ Uncount(c)

Next ==
    \/ Loop
    \/ \E c \in Conns : Task(c) \/ Client(c)
    \/ Signal \/ UpstreamDies \/ Second

\* select! picks among ready branches at random, so none is passed over for
\* ever; tasks are scheduled; time passes; every bcp client leaves in the end
\* because each of its waits has a timeout.
Fairness ==
    /\ WF_vars(HearSignal)
    /\ WF_vars(HearStop)
    /\ WF_vars(HearTick)
    /\ WF_vars(LoadActive \/ ReadClock)
    /\ WF_vars(Leave)
    /\ WF_vars(Second)
    /\ \A c \in Conns :
        /\ WF_vars(Accept(c))
        /\ WF_vars(Task(c))
        /\ WF_vars(Uncount(c))

Spec == Init /\ [][Next]_vars

FairSpec == Spec /\ Fairness

-----------------------------------------------------------------------------
\* The count is the number of sessions between their two atomic updates: no
\* path through handle_conn, the failed handshake included, leaks one.
ActiveIsExact == active = Cardinality(AtStage(Counted)) \/ loop = "exited"

\* The idle limit does not strike while a tool call is upstream, however long
\* that takes and whenever its session was counted: a session is seen in the
\* count, or has come since and by its call has set the clock back, which is
\* read last (daemon.rs:269).  What idleness may cut is a session counted since
\* the count was read that has asked nothing yet, and what comes after.
NoCallIsPendingAtIdleTimeout ==
    [][reason' = "idleTimeout" /\ reason # reason' => AtStage({"calling"}) = {}]_vars

\* "ok" to a stop request is a promise: the daemon leaves (daemon.rs:152).
AcknowledgedStopEnds ==
    \A c \in Conns : stage[c] = "stopping" ~> loop = "exited"

\* The loss of the upstream server is noticed with nobody calling it.
UpstreamLossEnds == upstream = "down" ~> loop = "exited"

\* A daemon whose clients have all come and gone stops by itself (--idle).
IdleDaemonEnds == limit > 0 => <>(loop = "exited")

\* A connection that never sends its preamble is not kept for ever.
SilentConnectionsClose ==
    \A c \in Conns : stage[c] = "preamble" ~> stage[c] # "preamble"

\* Why the count is exact: it is kept while the process lives, and no
\* connection outlives it.  Why the limit spares calls: one that has begun since
\* the sessions were counted has touched the clock.
LoopInv ==
    /\ TypeOK
    /\ loop # "exited" => active = Cardinality(AtStage(Counted))
    /\ loop = "exited" => AtStage({"away", "closed"}) = Conns
    /\ loop \in {"counting", "timing"} => limit > 0
    /\ loop = "timing" => AtStage({"calling"}) = {} \/ idle = 0

-----------------------------------------------------------------------------
\* "press Ctrl-C to stop" (daemon.rs:236).
SignalEnds == signalled ~> loop = "exited"

\* "stop after 30 min without clients" (README.md:50): the limit counts from
\* when the last client left, so it does not strike between the moment a session
\* is counted off and the moment its end is noted (daemon.rs:167).
IdlenessCountsFromTheLastClient ==
    [][reason' = "idleTimeout" /\ reason # reason' => AtStage({"uncounted"}) = {}]_vars
=============================================================================
