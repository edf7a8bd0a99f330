---------------------- MODULE DaemonInDiscoveryProofs ----------------------
(***************************************************************************)
(* The loop and the tasks of a daemon, for any connections and limits,     *)
(* implement the daemon of Discovery, so that what is proved there of any  *)
(* number of processes holds of them.                                      *)
(***************************************************************************)
EXTENDS DaemonInDiscovery, DaemonLoopProofs

\* The client's end and the task's stage move together before the reply.
LEMMA LinkFollows == LoopInv /\ LinkFollowsStage /\ [Next]_vars => LinkFollowsStage'
  <1> SUFFICES ASSUME LoopInv, LinkFollowsStage, [Next]_vars PROVE LinkFollowsStage'
    OBVIOUS
  <1> USE DEF LoopInv, TypeOK, LinkFollowsStage, loopVars, connVars, given, sharedVars
  <1>1. CASE Loop
    <2>1. ASSUME NEW c \in Conns, Accept(c) PROVE LinkFollowsStage'
      BY <2>1 DEF Accept, Move, Tell
    <2>2. CASE HearSignal \/ HearStop \/ HearTick \/ LoadActive \/ ReadClock \/ RemoveState
      BY <2>2 DEF HearSignal, HearStop, HearTick, LoadActive, ReadClock, RemoveState, LeaveLoop, Looping
    <2>3. CASE Exit
      BY <2>3 DEF Exit
    <2>4. QED
      BY <1>1, <2>1, <2>2, <2>3 DEF Loop, Leave
  <1>2. ASSUME NEW c \in Conns, Task(c) \/ Client(c) PROVE LinkFollowsStage'
    <2>1. CASE Task(c)
      BY <2>1 DEF Task, HandlePreamble, GiveUpPreamble, RequestStop, Count, TouchLast, Move, Tell
    <2>2. CASE Client(c)
      BY <2>2 DEF Client, Arrive, HandshakeDone, CallTool, ReturnResult, Uncount, Counted, Move, Tell
    <2>3. QED
      BY <1>2, <2>1, <2>2
  <1>3. CASE Signal \/ UpstreamDies \/ Second \/ UNCHANGED vars
    BY <1>3 DEF Signal, UpstreamDies, Second, vars
  <1>4. QED
    BY <1>1, <1>2, <1>3 DEF Next

\* A step that shows on no client's end, and does not end the loop or the
\* process, is nothing to Discovery.
LEMMA Inside ==
  ASSUME UNCHANGED <<kind, link>>, loop' = loop \/ (loop \in Looping /\ loop' \in Looping),
         \A c \in Conns : stage'[c] = "away" <=> stage[c] = "away"
  PROVE  UNCHANGED Outer!vars
  <1>1. Where' = Where
    <2>1. LoopAt[loop'] = LoopAt[loop]
      BY DEF Looping, LoopAt
    <2>2. ASSUME NEW p \in World PROVE Where'[p] = Where[p]
      BY <2>1 DEF Where, World, This, Earlier
    <2>3. QED
      BY <2>2 DEF Where
  <1>2. UNCHANGED <<Asked, Saw, ClientEnd, Peer>>
    BY DEF Asked, Saw, ClientEnd, Peer, World
  <1>3. UNCHANGED <<Reported, Listens, Held>>
    BY DEF Reported, Listens, Held, Looping
  <1>4. QED
    BY <1>1, <1>2, <1>3 DEF Outer!vars, Outer!procVars, Outer!netVars, Outer!fileVars

\* Where the daemon itself is, from what its loop is at.
LEMMA ThisOne ==
  /\ This \in World /\ Earlier \in World /\ This # Earlier
  /\ Where[This] = LoopAt[loop]
  /\ Where[Earlier] = "crashed"
  <1>1. This \in World /\ Earlier \in World /\ This # Earlier
    BY DEF World, This, Earlier
  <1>2. Where[This] = LoopAt[loop]
    BY <1>1 DEF Where
  <1>3. Where[Earlier] = "crashed"
    BY <1>1 DEF Where
  <1>4. QED
    BY <1>1, <1>2, <1>3

\* What Discovery sees when a task or a client moves one client's end.
LEMMA Shown ==
  ASSUME NEW c \in Conns, NEW s \in Links, LoopInv,
         Tell(c, s), UNCHANGED <<loop, kind>>, s # "none", link[c] # "none",
         \A b \in Conns : stage'[b] = "away" <=> stage[b] = "away"
  PROVE  /\ ClientEnd' = [ClientEnd EXCEPT ![c] = s]
         /\ UNCHANGED <<Where, Asked, Saw, Peer, Reported, Listens, Held>>
  <1> USE WorldAssumption DEF LoopInv, TypeOK
  <1>0. UNCHANGED <<Reported, Listens, Held>>
    BY DEF Reported, Listens, Held
  <1>1. UNCHANGED <<Asked, Saw>>
    BY DEF Asked, Saw, World
  <1>2. ClientEnd' = [ClientEnd EXCEPT ![c] = s]
    BY DEF ClientEnd, World, Tell
  <1>3. ASSUME NEW p \in World PROVE Peer'[p] = Peer[p]
    BY <1>2 DEF Peer, ClientEnd, World
  <1>4. ASSUME NEW p \in World PROVE Where'[p] = Where[p]
    BY DEF Where, World, This, Earlier
  <1>5. QED
    BY <1>0, <1>1, <1>2, <1>3, <1>4 DEF Peer, Where

\* The daemon's dealings with one connection.
LEMMA WithOne ==
  ASSUME NEW c \in Conns, LoopInv, LinkFollowsStage,
         Accept(c) \/ HandlePreamble(c) \/ GiveUpPreamble(c)
  PROVE  Outer!Attend(This, c)
  <1> USE WorldAssumption DEF LoopInv, TypeOK
  <1> DEFINE Others == UNCHANGED <<Where, Asked, Saw, Peer, Reported, Listens, Held>>
  <1>1. loop # "exited" /\ loop \in Looping \cup {"left", "removed"}
    BY DEF Accept, HandlePreamble, GiveUpPreamble, AtStage
  <1>2. Where[This] \in {"serving", "closing", "exiting"} /\ (loop = "polling" => Where[This] = "serving")
    BY <1>1, ThisOne DEF LoopAt, Looping
  <1>3. link[c] # "none" => Peer[c] = This /\ ClientEnd[c] = link[c]
    BY DEF Peer, ClientEnd, World
  <1>4. CASE Accept(c)
    <2>1. link[c] = "queued" /\ Tell(c, "taken") /\ loop = "polling"
      BY <1>1, <1>4 DEF Accept, LinkFollowsStage
    <2>2. ClientEnd' = [ClientEnd EXCEPT ![c] = "taken"] /\ Others
      BY <1>4, <2>1, Shown DEF Accept, Move, Links, given
    <2>3. QED
      BY <1>2, <1>3, <2>1, <2>2 DEF Outer!Attend, Outer!Accept, Outer!netVars, Outer!fileVars
  <1>5. CASE GiveUpPreamble(c)
    <2>1. link[c] = "taken" /\ Tell(c, "closed")
      BY <1>1, <1>5 DEF GiveUpPreamble, LinkFollowsStage
    <2>2. ClientEnd' = [ClientEnd EXCEPT ![c] = "closed"] /\ Others
      BY <1>5, <2>1, Shown DEF GiveUpPreamble, Move, Links, given, loopVars
    <2>3. QED
      BY <1>2, <1>3, <2>1, <2>2 DEF Outer!Attend, Outer!HangUp, Outer!Running, Outer!netVars, Outer!fileVars
  <1>6. CASE HandlePreamble(c)
    <2>1. PICK s \in {"acked", "closed"} :
             /\ Tell(c, s)
             /\ s = "acked" => kind[c] # "unauthorized"
      BY <1>6 DEF HandlePreamble
    <2>2. link[c] = "taken"
      BY <1>1, <1>6 DEF HandlePreamble, LinkFollowsStage
    <2>3. ClientEnd' = [ClientEnd EXCEPT ![c] = s] /\ Others
      BY <1>6, <2>1, <2>2, Shown DEF HandlePreamble, Move, Links, given, loopVars
    <2>4. CASE s = "closed"
      BY <1>2, <1>3, <2>2, <2>3, <2>4 DEF Outer!Attend, Outer!HangUp, Outer!Running, Outer!netVars, Outer!fileVars
    <2>5. CASE s = "acked"
      <3>1. Saw[c] = This
        BY <2>1, <2>5 DEF Saw, World
      <3>2. QED
        BY <1>2, <1>3, <2>2, <2>3, <2>5, <3>1 DEF Outer!Attend, Outer!Greet, Outer!Running, Outer!netVars, Outer!fileVars
    <2>6. QED
      BY <2>4, <2>5
  <1>7. QED
    BY <1>4, <1>5, <1>6

\* A client that dials finds this daemon, whichever state it read.
LEMMA Dials ==
  ASSUME NEW c \in Conns, LoopInv, LinkFollowsStage, Arrive(c)
  PROVE  Outer!Connect(c)
  <1> USE WorldAssumption DEF LoopInv, TypeOK
  <1>1. link[c] = "none" /\ Tell(c, "queued") /\ Move(c, "queued") /\ UNCHANGED <<loop, kind>>
    BY DEF Arrive, LinkFollowsStage, loopVars, given
  <1>2. Where[c] = "dial" /\ Where' = [Where EXCEPT ![c] = "await"]
    <2>1. Where[c] = "dial"
      BY DEF Arrive, Where, World
    <2>2. ASSUME NEW p \in World PROVE Where'[p] = [Where EXCEPT ![c] = "await"][p]
      BY <1>1 DEF Where, World, Move, This, Earlier
    <2>3. QED
      BY <2>1, <2>2 DEF Where
  <1>3. ClientEnd' = [ClientEnd EXCEPT ![c] = "queued"]
    BY <1>1 DEF ClientEnd, World, Tell
  <1>4. Peer' = [Peer EXCEPT ![c] = This]
    <2>1. ASSUME NEW p \in World PROVE Peer'[p] = [Peer EXCEPT ![c] = This][p]
      BY <1>1, <1>3 DEF Peer, ClientEnd, World
    <2>2. QED
      BY <2>1 DEF Peer
  <1>5. Saw[c] \in {This, Earlier} /\ UNCHANGED <<Asked, Saw>>
    BY <1>1 DEF Saw, Asked, World
  <1>6. This # "free" /\ Listens[Port] = This /\ UNCHANGED <<Reported, Listens, Held>>
    BY <1>1 DEF This, Listens, Reported, Held, Arrive
  <1>7. QED
    BY <1>1, <1>2, <1>3, <1>4, <1>5, <1>6 DEF Outer!Connect, Outer!Goto, Outer!netVars, Outer!fileVars

\* The end of the loop, and of the process.
LEMMA Leaves ==
  ASSUME LoopInv, loop' \notin Looping,
         HearSignal \/ HearStop \/ HearTick \/ LoadActive \/ ReadClock \/ Leave
  PROVE  Outer!LeaveLoop(This) \/ Outer!RemoveOnExit(This) \/ Outer!Exit(This)
  <1> USE WorldAssumption DEF LoopInv, TypeOK
  <1>1. UNCHANGED <<kind, link>> /\ \A c \in Conns : stage'[c] = "away" <=> stage[c] = "away"
    BY DEF HearSignal, HearStop, HearTick, LoadActive, ReadClock, Leave, RemoveState, Exit, connVars, given
  <1>2. UNCHANGED <<Asked, Saw, ClientEnd, Peer>>
    BY <1>1 DEF Asked, Saw, ClientEnd, Peer, World
  <1>3. Where[This] = LoopAt[loop] /\ Where' = [Where EXCEPT ![This] = LoopAt[loop']]
    <2>1. ASSUME NEW p \in World PROVE Where'[p] = [Where EXCEPT ![This] = LoopAt[loop']][p]
      BY <1>1 DEF Where, World, This, Earlier
    <2>2. QED
      BY <2>1, ThisOne DEF Where
  <1>4. CASE loop \in Looping /\ loop' = "left"
    <2>1. UNCHANGED <<Reported, Listens, Held>>
      BY <1>4 DEF Reported, Listens, Held, Looping
    <2>2. QED
      BY <1>2, <1>3, <1>4, <2>1 DEF LoopAt, Looping, Outer!LeaveLoop, Outer!Goto, Outer!netVars, Outer!fileVars
  <1>5. CASE loop = "left" /\ loop' = "removed"
    <2>1. UNCHANGED <<Reported, Listens>> /\ Held' = "absent"
      BY <1>5 DEF Reported, Listens, Held
    <2>2. QED
      BY <1>2, <1>3, <1>5, <2>1 DEF LoopAt, Outer!RemoveOnExit, Outer!Goto, Outer!RemoveFile, Outer!netVars
  <1>6. CASE loop = "removed" /\ loop' = "exited"
    <2>1. UNCHANGED Held
      BY <1>6 DEF Held
    <2>2. Reported' = [Reported EXCEPT ![This] = "served"]
      BY <1>6, ThisOne DEF Reported
    <2>3. Listens' = Outer!Vacated(This)
      BY <1>6 DEF Listens, Outer!Vacated
    <2>4. This \in {This, Earlier}
      OBVIOUS
    <2>5. QED
      BY <1>2, <1>3, <1>6, <2>1, <2>2, <2>3, <2>4 DEF LoopAt, Outer!Exit, Outer!Finish, Outer!fileVars
  <1>7. QED
    BY <1>4, <1>5, <1>6 DEF HearSignal, HearStop, HearTick, LoadActive, ReadClock, Leave, RemoveState, Exit,
       LeaveLoop, Looping

\* Each step of the daemon is a step of the daemon in Discovery, or nothing.
LEMMA Step == LoopInv /\ LinkFollowsStage /\ [Next]_vars => [Dealings]_(Outer!vars)
  <1> SUFFICES ASSUME LoopInv, LinkFollowsStage, [Next]_vars PROVE Dealings \/ UNCHANGED Outer!vars
    OBVIOUS
  <1>1. CASE Loop
    <2>1. ASSUME NEW c \in Conns, Accept(c) PROVE Dealings
      BY <2>1, WithOne DEF Dealings
    <2>2. ASSUME HearSignal \/ HearStop \/ HearTick \/ LoadActive \/ ReadClock \/ Leave, loop' \notin Looping
          PROVE  Dealings
      BY <2>2, Leaves DEF Dealings
    <2>3. ASSUME HearSignal \/ HearStop \/ HearTick \/ LoadActive \/ ReadClock \/ Leave, loop' \in Looping
          PROVE  UNCHANGED Outer!vars
      <3>1. loop \in Looping /\ UNCHANGED <<kind, link, stage>>
        BY <2>3 DEF HearSignal, HearStop, HearTick, LoadActive, ReadClock, Leave, RemoveState, Exit, LeaveLoop,
           connVars, given, Looping
      <3>2. QED
        BY <2>3, <3>1, Inside
    <2>4. QED
      BY <1>1, <2>1, <2>2, <2>3 DEF Loop
  <1>2. ASSUME NEW c \in Conns, Task(c) \/ Client(c) PROVE Dealings \/ UNCHANGED Outer!vars
    <2>1. CASE HandlePreamble(c) \/ GiveUpPreamble(c)
      BY <2>1, WithOne DEF Dealings
    <2>2. CASE Arrive(c)
      BY <2>2, Dials DEF Dealings
    <2>3. CASE RequestStop(c) \/ Count(c) \/ TouchLast(c) \/ HandshakeDone(c) \/ CallTool(c)
               \/ ReturnResult(c) \/ Uncount(c)
      <3>1. UNCHANGED <<loop, kind, link>> /\ \E s \in Stages \ {"away"} : Move(c, s) /\ stage[c] # "away"
        BY <2>3 DEF RequestStop, Count, TouchLast, HandshakeDone, CallTool, ReturnResult, Uncount,
           Counted, Stages, loopVars, given
      <3>2. QED
        BY <3>1, Inside DEF Move, LoopInv, TypeOK
    <2>4. QED
      BY <1>2, <2>1, <2>2, <2>3 DEF Task, Client
  <1>3. CASE Signal \/ UpstreamDies \/ Second \/ UNCHANGED vars
    BY <1>3, Inside DEF Signal, UpstreamDies, Second, vars, loopVars, connVars, given
  <1>4. QED
    BY <1>1, <1>2, <1>3 DEF Next

\* Where the daemon begins to serve, nothing is amiss around it.
LEMMA OuterInit == Init => Outer!DiscoveryInv /\ LinkFollowsStage
  <1> USE WorldAssumption
  <1> SUFFICES ASSUME Init PROVE Outer!DiscoveryInv /\ LinkFollowsStage
    OBVIOUS
  <1>0. /\ Reported = [p \in World |-> "none"]
        /\ Listens = [q \in {Port} |-> This]
        /\ Held = This
    BY DEF Init, Reported, Listens, Held
  <1>1. ASSUME NEW c \in Conns
        PROVE  /\ Where[c] = "dial" /\ ClientEnd[c] = "none" /\ Peer[c] = "none"
               /\ Saw[c] \in {This, Earlier} /\ Asked[c] \in {"auto", "status", "stop"}
    BY DEF Init, Where, ClientEnd, Peer, Saw, Asked, World
  <1>2. /\ Where[This] = "serving" /\ Where[Earlier] = "crashed"
        /\ \A d \in {This, Earlier} : /\ ClientEnd[d] = "none" /\ Peer[d] = "none"
                                     /\ Saw[d] = "none" /\ Asked[d] = "serve"
    <2>1. Where[This] = "serving" /\ Where[Earlier] = "crashed"
      BY ThisOne DEF Init, LoopAt
    <2>2. ASSUME NEW d \in {This, Earlier}
          PROVE  ClientEnd[d] = "none" /\ Peer[d] = "none" /\ Saw[d] = "none" /\ Asked[d] = "serve"
      <3>1. d \in World /\ d \notin Conns
        BY ThisOne
      <3>2. ClientEnd[d] = "none"
        BY <3>1 DEF ClientEnd
      <3>3. Asked[d] = "serve"
        BY <3>1 DEF Asked
      <3>4. Saw[d] = "none"
        BY <3>1 DEF Saw
      <3>5. Peer[d] = "none"
        BY <3>1, <3>2 DEF Peer
      <3>6. QED
        BY <3>2, <3>3, <3>4, <3>5
    <2>3. QED
      BY <2>1, <2>2
  <1>3. LinkFollowsStage
    BY DEF Init, LinkFollowsStage
  <1>4. Outer!TypeOK
    <2>1. /\ Where \in [World -> Outer!Steps] /\ Asked \in [World -> {"auto", "status", "stop"} \cup {"serve"}]
          /\ Saw \in [World -> {This, Earlier} \cup {"none"}] /\ ClientEnd \in [World -> Outer!Links]
          /\ Peer \in [World -> {This, Earlier} \cup {"none", "foreign"}]
      BY <1>1, <1>2 DEF World, Where, Asked, Saw, ClientEnd, Peer, Outer!Steps, Outer!Bound, Outer!Published,
         Outer!Running, Outer!Gone, Outer!Links
    <2>2. QED
      BY <1>0, <2>1 DEF World, Outer!TypeOK, Outer!FileTypeOK, Outer!Procs, Outer!Results
  <1>5. QED
    BY <1>0, <1>1, <1>2, <1>3, <1>4 DEF Init, World, This, Outer!DiscoveryInv, Outer!RolesFixed, Outer!FileNamesPosted,
       Outer!SeenIsPosted, Outer!Posted, Outer!DialsWhatItSaw, Outer!HoldsItsPort, Outer!FreshLink, Outer!LostItsPort,
       Outer!AckIsKept, Outer!ReportsOnce, Outer!CleanExitLeavesNoState, Outer!Procs, Outer!Running, Outer!Gone,
       Outer!Bound, Outer!Published, Outer!Dead

\* ServesAsDiscoverySays: for any connections and limits, the daemon as it is
\* built is the daemon that Discovery reasons about.
THEOREM Composition == Spec => ServesAsDiscoverySays
  <1>1. LoopInv /\ LinkFollowsStage /\ [Next]_vars => LinkFollowsStage' /\ [Dealings]_(Outer!vars)
    BY LinkFollows, Step
  <1>2. QED
    BY LoopInvariance, OuterInit, <1>1, PTL DEF Spec, ServesAsDiscoverySays

-----------------------------------------------------------------------------
(* What DiscoveryProofs shows of any number of processes, of this world.   *)

Many == INSTANCE DiscoveryProofs WITH
    Daemons <- {This, Earlier}, Clients <- Conns, Ports <- {Port},
    Ops <- {"auto", "status", "stop"}, MaxPolls <- 1,
    pc <- Where, op <- Asked, seen <- Saw, link <- ClientEnd, peer <- Peer,
    port <- [d \in {This, Earlier} |-> Port], listener <- Listens,
    polls <- [p \in World |-> 0], result <- Reported,
    content <- Held, handles <- {}

\* Outer is Discovery; Many is Discovery with what is proved of it.
LEMMA SameInv == Outer!DiscoveryInv <=> Many!DiscoveryInv
  <1>1. Outer!TypeOK <=> Many!TypeOK
    BY DEF Outer!TypeOK, Outer!FileTypeOK, Outer!Procs, Outer!Results, Outer!Steps, Outer!Bound,
       Outer!Published, Outer!Running, Outer!Gone, Outer!Links, Outer!NoState, Many!TypeOK,
       Many!FileTypeOK, Many!Procs, Many!Results, Many!Steps, Many!Bound, Many!Published,
       Many!Running, Many!Gone, Many!Links, Many!NoState
  <1>2. Outer!RolesFixed <=> Many!RolesFixed
    BY DEF Outer!RolesFixed, Outer!Procs, Many!RolesFixed, Many!Procs
  <1>3. Outer!FileNamesPosted <=> Many!FileNamesPosted
    BY DEF Outer!FileNamesPosted, Outer!Posted, Outer!Running, Outer!Gone, Outer!Published,
       Many!FileNamesPosted, Many!Posted, Many!Running, Many!Gone, Many!Published
  <1>4. Outer!SeenIsPosted <=> Many!SeenIsPosted
    BY DEF Outer!SeenIsPosted, Outer!Posted, Outer!Running, Outer!Gone, Outer!Published,
       Outer!Procs, Many!SeenIsPosted, Many!Posted, Many!Running, Many!Gone, Many!Published,
       Many!Procs
  <1>5. Outer!DialsWhatItSaw <=> Many!DialsWhatItSaw
    BY DEF Outer!DialsWhatItSaw, Outer!Procs, Many!DialsWhatItSaw, Many!Procs
  <1>6. Outer!HoldsItsPort <=> Many!HoldsItsPort
    BY DEF Outer!HoldsItsPort, Outer!Bound, Outer!Published, Outer!Running, Many!HoldsItsPort,
       Many!Bound, Many!Published, Many!Running
  <1>7. Outer!FreshLink <=> Many!FreshLink
    BY DEF Outer!FreshLink, Outer!Procs, Many!FreshLink, Many!Procs
  <1>8. Outer!LostItsPort <=> Many!LostItsPort
    BY DEF Outer!LostItsPort, Outer!Procs, Outer!Dead, Outer!Gone, Many!LostItsPort, Many!Procs,
       Many!Dead, Many!Gone
  <1>9. Outer!AckIsKept <=> Many!AckIsKept
    BY DEF Outer!AckIsKept, Outer!Procs, Many!AckIsKept, Many!Procs
  <1>10. Outer!ReportsOnce <=> Many!ReportsOnce
    BY DEF Outer!ReportsOnce, Outer!Procs, Many!ReportsOnce, Many!Procs
  <1>11. Outer!CleanExitLeavesNoState <=> Many!CleanExitLeavesNoState
    BY DEF Outer!CleanExitLeavesNoState, Many!CleanExitLeavesNoState
  <1>12. QED
    BY <1>1, <1>2, <1>3, <1>4, <1>5, <1>6, <1>7, <1>8, <1>9, <1>10, <1>11
       DEF Outer!DiscoveryInv, Many!DiscoveryInv

LEMMA SameDealings ==
  ASSUME Dealings
  PROVE  Many!Next
  <1> USE DEF Outer!netVars, Many!netVars, Outer!procVars, Many!procVars, Outer!fileVars, Many!fileVars
  <1>1. ASSUME NEW c \in Conns, Outer!Attend(This, c) PROVE Many!Attend(This, c)
    BY <1>1 DEF Outer!Attend, Outer!Accept, Outer!Greet, Outer!HangUp, Outer!Running,
       Many!Attend, Many!Accept, Many!Greet, Many!HangUp, Many!Running
  <1>2. ASSUME NEW c \in Conns, Outer!Connect(c) PROVE Many!Seek(c)
    BY <1>2 DEF Outer!Connect, Outer!Goto, Many!Seek, Many!Connect, Many!Goto
  <1>3. ASSUME Outer!LeaveLoop(This) PROVE Many!Leave(This)
    BY <1>3 DEF Outer!LeaveLoop, Outer!Goto, Many!Leave, Many!LeaveLoop, Many!Goto
  <1>4. ASSUME Outer!RemoveOnExit(This) PROVE Many!Leave(This)
    BY <1>4 DEF Outer!RemoveOnExit, Outer!RemoveFile, Outer!Goto, Many!Leave, Many!RemoveOnExit, Many!RemoveFile,
       Many!Goto
  <1>5. ASSUME Outer!Exit(This) PROVE Many!Leave(This)
    BY <1>5 DEF Outer!Exit, Outer!Finish, Outer!Vacated, Many!Leave, Many!Exit, Many!Finish, Many!Vacated
  <1>6. \A c \in Conns : c \in Many!Procs
    BY DEF Many!Procs
  <1>7. QED
    BY <1>1, <1>2, <1>3, <1>4, <1>5, <1>6 DEF Dealings, Many!Next

LEMMA SameStep == [Dealings]_(Outer!vars) => [Many!Next]_(Many!vars)
  BY SameDealings DEF Outer!vars, Outer!procVars, Outer!netVars, Outer!fileVars,
     Many!vars, Many!procVars, Many!netVars, Many!fileVars

LEMMA SameService ==
  [Many!Service!Next]_(Many!Service!serviceVars) => [Outer!Service!Next]_(Outer!Service!serviceVars)
  <1>1. /\ Many!Life = Outer!Life /\ Many!Life' = Outer!Life'
        /\ Many!Answered = Outer!Answered /\ Many!Answered' = Outer!Answered'
        /\ Many!Procs = Outer!Procs
    BY DEF Outer!Life, Outer!Answered, Outer!Running, Outer!Dead, Outer!Gone, Outer!Procs,
       Many!Life, Many!Answered, Many!Running, Many!Dead, Many!Gone, Many!Procs
  <1>2. /\ Many!Service!serviceVars = Outer!Service!serviceVars
        /\ Many!Service!serviceVars' = Outer!Service!serviceVars'
    BY <1>1 DEF Many!Service!serviceVars, Outer!Service!serviceVars
  <1>3. ASSUME NEW d \in {This, Earlier}, Many!Service!Rise(d) \/ Many!Service!Fall(d)
        PROVE  Outer!Service!Rise(d) \/ Outer!Service!Fall(d)
    BY <1>1, <1>3 DEF Many!Service!Rise, Many!Service!Fall, Outer!Service!Rise, Outer!Service!Fall
  <1>4. ASSUME NEW d, NEW p, Many!Service!Answer(d, p)
        PROVE  Outer!Service!Answer(d, p)
    BY <1>1, <1>4 DEF Many!Service!Answer, Outer!Service!Answer
  <1>a. ASSUME NEW p, Many!Service!Impersonate(p)
        PROVE  Outer!Service!Impersonate(p)
    BY <1>1, <1>a DEF Many!Service!Impersonate, Outer!Service!Impersonate
  <1>5. ASSUME NEW p, NEW r, Many!Service!Supported(p, r)
        PROVE  Outer!Service!Supported(p, r)
    BY <1>1, <1>5 DEF Many!Service!Supported, Outer!Service!Supported
  <1>6. ASSUME NEW p, NEW r, Many!Service!Report(p, r)
        PROVE  Outer!Service!Report(p, r)
    BY <1>1, <1>5, <1>6 DEF Many!Service!Report, Outer!Service!Report
  <1>7. ASSUME NEW d, NEW r, Many!Service!Retire(d, r)
        PROVE  Outer!Service!Retire(d, r)
    BY <1>1, <1>5, <1>7 DEF Many!Service!Retire, Outer!Service!Retire
  <1>8. Many!Service!Next => Outer!Service!Next
    BY <1>1, <1>3, <1>4, <1>a, <1>6, <1>7 DEF Many!Service!Next, Outer!Service!Next, Many!Service!Outcomes,
       Outer!Service!Outcomes
  <1>9. QED
    BY <1>2, <1>8

\* The assumptions of Discovery hold of this world.
LEMMA ManyAssumptions ==
  /\ {This, Earlier} \cap Conns = {}
  /\ {This, Earlier} \cap (Many!NoState \cup {"none", "free", "foreign"}) = {}
  /\ {Port} \cap {"none"} = {}
  /\ {"auto", "status", "stop"} \subseteq {"auto", "daemon", "spawn", "status", "stop"}
  /\ 1 \in Nat
  BY WorldAssumption DEF This, Earlier, Port, Many!NoState

LEMMA ManyNext ==
  Many!DiscoveryInv /\ [Many!Next]_(Many!vars)
    => Many!DiscoveryInv' /\ [Many!Service!Next]_(Many!Service!serviceVars)
  BY ManyAssumptions, Many!NextInv, Many!ServiceNext

\* Whatever its connections do, and however it ends, the daemon as it is built
\* keeps all that makes the search for a daemon correct.
THEOREM DiscoveryIsKept == Spec => []Outer!DiscoveryInv
  <1>1. Spec => Outer!DiscoveryInv /\ [][Dealings]_(Outer!vars)
    BY Composition DEF ServesAsDiscoverySays
  <1>2. QED
    BY <1>1, SameInv, SameStep, ManyNext, PTL

\* And it answers as users are promised: each client at most once, while it is
\* up, and never after it is gone.
THEOREM ServiceIsKept == Spec => [][Outer!Service!Next]_(Outer!Service!serviceVars)
  <1>1. Spec => [][Dealings]_(Outer!vars)
    BY Composition DEF ServesAsDiscoverySays
  <1>2. QED
    BY <1>1, DiscoveryIsKept, SameInv, SameStep, ManyNext, SameService, PTL
=============================================================================
