--------------------------- MODULE DaemonService ---------------------------
(***************************************************************************)
(* What a user of bcp is promised about daemons, without files, ports or   *)
(* tokens: each daemon starts, is up and is gone for good; a process may   *)
(* be answered, at most once, by a daemon that is up, or by a foreign      *)
(* program once some daemon is gone; and it reports, once, an outcome its  *)
(* answer supports.  So as long as no daemon has gone, what is reported of *)
(* daemons is true.  Discovery implements it.                              *)
(***************************************************************************)
CONSTANTS Daemons, Procs

VARIABLES
    life,                   \* of each daemon
    answer,                 \* the daemon, or "foreign", that answered each process
    outcome                 \* what each process reported

serviceVars == <<life, answer, outcome>>

Init ==
    /\ life = [d \in Daemons |-> "starting"]
    /\ answer = [p \in Procs |-> "none"]
    /\ outcome = [p \in Procs |-> "none"]

Rise(d) ==
    /\ life[d] = "starting"
    /\ life' = [life EXCEPT ![d] = "up"]
    /\ UNCHANGED <<answer, outcome>>

Fall(d) ==
    /\ life[d] # "gone"
    /\ life' = [life EXCEPT ![d] = "gone"]
    /\ UNCHANGED <<answer, outcome>>

Answer(d, p) ==
    /\ life[d] = "up"
    /\ answer[p] = "none"
    /\ answer' = [answer EXCEPT ![p] = d]
    /\ UNCHANGED <<life, outcome>>

\* A gone daemon's port may belong to anybody, who may answer in its place.
Impersonate(p) ==
    /\ \E d \in Daemons : life[d] = "gone"
    /\ answer[p] = "none"
    /\ answer' = [answer EXCEPT ![p] = "foreign"]
    /\ UNCHANGED <<life, outcome>>

\* A daemon's work is reported only while that daemon is up; that one runs, or
\* was told to stop, only after it said so; that none runs, only if none did.
Supported(p, r) ==
    CASE r = "viaDaemon" ->
            answer[p] = "foreign" \/ (answer[p] \in Daemons /\ life[answer[p]] = "up")
      [] r \in {"running", "stopped", "alreadyRunning"} -> answer[p] # "none"
      [] r = "notRunning" -> answer[p] = "none"
      [] OTHER -> r \in {"viaOwn", "error", "stale", "served"}

Report(p, r) ==
    /\ outcome[p] = "none"
    /\ Supported(p, r)
    /\ outcome' = [outcome EXCEPT ![p] = r]
    /\ UNCHANGED <<life, answer>>

\* `serve` ends with its report: the only outcomes of a daemon.
Retire(d, r) ==
    /\ life[d] # "gone"
    /\ life' = [life EXCEPT ![d] = "gone"]
    /\ outcome[d] = "none"
    /\ Supported(d, r)
    /\ r \in {"error", "served", "alreadyRunning"}
    /\ outcome' = [outcome EXCEPT ![d] = r]
    /\ UNCHANGED answer

Outcomes == {"viaDaemon", "viaOwn", "error", "notRunning", "running",
             "stale", "stopped", "alreadyRunning", "served"}

Next ==
    \/ \E d \in Daemons : Rise(d) \/ Fall(d)
    \/ \E d \in Daemons, p \in Procs : Answer(d, p)
    \/ \E p \in Procs : Impersonate(p)
    \/ \E p \in Procs \ Daemons, r \in Outcomes : Report(p, r)
    \/ \E d \in Daemons, r \in Outcomes : Retire(d, r)

Spec == Init /\ [][Next]_serviceVars
=============================================================================
