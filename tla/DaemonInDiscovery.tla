------------------------- MODULE DaemonInDiscovery -------------------------
(***************************************************************************)
(* The daemon of DaemonLoop in the world of Discovery: its clients have    *)
(* read a state from the file and dial the port in it.  Seen from there a  *)
(* task, a session or a clock is nothing; what shows is that connections   *)
(* are taken, acknowledged or closed, and that the daemon leaves, unlinks  *)
(* its state and ends (src/src/daemon.rs, serve and handle_conn).          *)
(*                                                                         *)
(* An unauthorized client is one that read the state of an earlier daemon, *)
(* which has crashed and whose port this one was given.                    *)
(***************************************************************************)
EXTENDS DaemonLoop

This == "this daemon"
Earlier == "earlier daemon"
Port == "port"

World == Conns \cup {This, Earlier}

ASSUME WorldAssumption == Conns \cap {This, Earlier} = {}

\* The daemon and its clients as processes of Discovery.  What a client makes
\* of a reply is its own affair, and not a step of the daemon.
LoopAt == [polling |-> "serving", counting |-> "serving", timing |-> "serving",
           left |-> "closing", removed |-> "exiting", exited |-> "stopped"]

Where == [p \in World |->
            CASE p = This -> LoopAt[loop]
              [] p = Earlier -> "crashed"
              [] OTHER -> IF stage[p] = "away" THEN "dial" ELSE "await"]

Asked == [p \in World |-> IF p \notin Conns THEN "serve"
                          ELSE CASE kind[p] = "status" -> "status"
                                 [] kind[p] = "shutdown" -> "stop"
                                 [] OTHER -> "auto"]

Saw == [p \in World |-> IF p \notin Conns THEN "none"
                        ELSE IF kind[p] = "unauthorized" THEN Earlier ELSE This]

ClientEnd == [p \in World |-> IF p \in Conns THEN link[p] ELSE "none"]

Peer == [p \in World |-> IF ClientEnd[p] = "none" THEN "none" ELSE This]

Reported == [p \in World |-> IF p = This /\ loop = "exited" THEN "served" ELSE "none"]

Listens == [q \in {Port} |-> IF loop = "exited" THEN "free" ELSE This]

Held == IF loop \in {"removed", "exited"} THEN "absent" ELSE This

Outer == INSTANCE Discovery WITH
    Daemons <- {This, Earlier}, Clients <- Conns, Ports <- {Port},
    Ops <- {"auto", "status", "stop"}, MaxPolls <- 1,
    pc <- Where, op <- Asked, seen <- Saw, link <- ClientEnd, peer <- Peer,
    port <- [d \in {This, Earlier} |-> Port], listener <- Listens,
    polls <- [p \in World |-> 0], result <- Reported,
    content <- Held, handles <- {}

\* What the daemon does of itself, and who dials it.
Dealings ==
    \/ \E c \in Conns : Outer!Attend(This, c) \/ Outer!Connect(c)
    \/ Outer!LeaveLoop(This) \/ Outer!RemoveOnExit(This) \/ Outer!Exit(This)

\* Why: while the process lives, the client's end of a connection tells how
\* far its task has come before the reply.
LinkFollowsStage ==
    loop # "exited" => \A c \in Conns :
        /\ link[c] = "none" <=> stage[c] = "away"
        /\ link[c] = "queued" <=> stage[c] = "queued"
        /\ link[c] = "taken" <=> stage[c] = "preamble"

(* The loop and its tasks implement the daemon that Discovery takes for    *)
(* granted: it accepts only while it serves, greets only who has its own   *)
(* token, closes or acknowledges each connection once, unlinks the state   *)
(* when it has left the loop and not before, and gives up its port last.   *)
(* So what is shown of many processes in Discovery holds with the daemon   *)
(* as it is built.                                                         *)
ServesAsDiscoverySays == Outer!DiscoveryInv /\ [][Dealings]_(Outer!vars)
=============================================================================
