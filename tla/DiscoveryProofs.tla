--------------------------- MODULE DiscoveryProofs ---------------------------
(***************************************************************************)
(* Proofs about Discovery, for any number of daemons, clients and ports:   *)
(* its inductive invariant, the safety properties that follow from it, and *)
(* that it implements DaemonService.                                       *)
(***************************************************************************)
EXTENDS Discovery, TLAPS

\* Nothing was read, written or dialled yet.
LEMMA InitInv == Init => DiscoveryInv
  <1> USE NamesAssumption, OpsAssumption, MaxPollsAssumption
  <1> SUFFICES ASSUME Init PROVE DiscoveryInv
    OBVIOUS
  <1>1. TypeOK
    BY DEF Init, FileInit, TypeOK, FileTypeOK, NoState, Steps, Bound, Published, Running, Gone, Links, Results, Procs
  <1>2. QED
    BY <1>1 DEF Init, FileInit, DiscoveryInv, RolesFixed, FileNamesPosted, SeenIsPosted, DialsWhatItSaw, HoldsItsPort,
       FreshLink, LostItsPort, AckIsKept, ReportsOnce, CleanExitLeavesNoState, Bound, Published, Running, Gone, NoState, Procs

\* No step takes a variable out of its domain: those that copy what a process
\* read rest on its being the state of a daemon that was posted.
LEMMA TypeNext == DiscoveryInv /\ [Next]_vars => TypeOK'
  <1> USE NamesAssumption, OpsAssumption, MaxPollsAssumption
  <1> SUFFICES ASSUME DiscoveryInv, [Next]_vars PROVE TypeOK'
    OBVIOUS
  <1> USE DEF DiscoveryInv, TypeOK, FileTypeOK, Steps, Bound, Published, Running, Gone,
              Links, Results, NoState, Procs, DialsWhatItSaw, SeenIsPosted, Posted,
              procVars, netVars, fileVars
  <1>1. ASSUME NEW p \in Procs, ReadFound(p) PROVE TypeOK'
    BY <1>1 DEF ReadFound, Goto, ReadState
  <1>2. ASSUME NEW p \in Procs, NothingFound(p) PROVE TypeOK'
    BY <1>2 DEF NothingFound, Goto, Finish, ReadState
  <1>3. ASSUME NEW p \in Procs, Connect(p) PROVE TypeOK'
    BY <1>3 DEF Connect, Goto
  <1>4. ASSUME NEW p \in Procs, TimeOut(p) PROVE TypeOK'
    BY <1>4 DEF TimeOut, Goto
  <1>5. ASSUME NEW p \in Procs, ReceiveAck(p) PROVE TypeOK'
    BY <1>5 DEF ReceiveAck, Goto
  <1>6. ASSUME NEW p \in Procs, ReceiveNoAck(p) PROVE TypeOK'
    BY <1>6 DEF ReceiveNoAck, Goto
  <1>7. ASSUME NEW p \in Procs, MistakenForRefused(p) PROVE TypeOK'
    BY <1>7 DEF MistakenForRefused, Goto
  <1>8. ASSUME NEW p \in Procs, Evict(p) PROVE TypeOK'
    BY <1>8 DEF Evict, Goto, Finish, RemoveFile, MayEvict
  <1>9. ASSUME NEW p \in Procs, GiveUp(p) PROVE TypeOK'
    BY <1>9 DEF GiveUp, Goto, Finish, MayEvict
  <1>10. ASSUME NEW p \in Procs, ReportRunning(p) PROVE TypeOK'
    BY <1>10 DEF ReportRunning, Finish
  <1>11. ASSUME NEW p \in Procs, Handshake(p) PROVE TypeOK'
    BY <1>11 DEF Handshake, Goto
  <1>12. ASSUME NEW p \in Procs, UseDaemon(p) PROVE TypeOK'
    BY <1>12 DEF UseDaemon, Finish
  <1>13. ASSUME NEW p \in Procs, UseOwnServer(p) PROVE TypeOK'
    BY <1>13 DEF UseOwnServer, Finish
  <1>14. ASSUME NEW p \in Procs, StartPolling(p) PROVE TypeOK'
    BY <1>14 DEF StartPolling, Goto
  <1>15. ASSUME NEW p \in Procs, PollAgain(p) PROVE TypeOK'
    BY <1>15 DEF PollAgain, ReadState
  <1>16. ASSUME NEW p \in Procs, PollEnds(p) PROVE TypeOK'
    BY <1>16 DEF PollEnds, Finish, ReadState
  <1>17. ASSUME NEW d \in Daemons, SpawnUpstream(d) PROVE TypeOK'
    BY <1>17 DEF SpawnUpstream, Goto, Finish
  <1>18. ASSUME NEW d \in Daemons, Bind(d) PROVE TypeOK'
    BY <1>18 DEF Bind, Goto, Finish
  <1>19. ASSUME NEW d \in Daemons, OpenState(d) PROVE TypeOK'
    BY <1>19 DEF OpenState, Goto, Finish, Vacated, OpenTruncated
  <1>20. ASSUME NEW d \in Daemons, WriteState(d) PROVE TypeOK'
    BY <1>20 DEF WriteState, Goto, Finish, Vacated, WriteThrough,
       WriteCutShort
  <1>21. ASSUME NEW d \in Daemons, LeaveLoop(d) PROVE TypeOK'
    BY <1>21 DEF LeaveLoop, Goto
  <1>22. ASSUME NEW d \in Daemons, RemoveOnExit(d) PROVE TypeOK'
    BY <1>22 DEF RemoveOnExit, Goto, RemoveFile
  <1>23. ASSUME NEW d \in Daemons, Exit(d) PROVE TypeOK'
    BY <1>23 DEF Exit, Finish, Vacated
  <1>24. ASSUME NEW d \in Daemons, Crash(d) PROVE TypeOK'
    BY <1>24 DEF Crash, Goto, Vacated, CloseHandle
  <1>25. ASSUME NEW d \in Daemons, NEW p \in Procs, Accept(d, p) PROVE TypeOK'
    BY <1>25 DEF Accept
  <1>26. ASSUME NEW d \in Daemons, NEW p \in Procs, Greet(d, p) PROVE TypeOK'
    BY <1>26 DEF Greet
  <1>27. ASSUME NEW d \in Daemons, NEW p \in Procs, HangUp(d, p) PROVE TypeOK'
    BY <1>27 DEF HangUp
  <1>28. ASSUME NEW q \in Ports, ForeignBinds(q) PROVE TypeOK'
    BY <1>28 DEF ForeignBinds
  <1>29. ASSUME NEW q \in Ports, ForeignLeaves(q) PROVE TypeOK'
    BY <1>29 DEF ForeignLeaves
  <1>30. CASE UNCHANGED vars
    BY <1>30 DEF vars
  <1> QED
    BY <1>1, <1>2, <1>3, <1>4, <1>5, <1>6, <1>7, <1>8, <1>9, <1>10, <1>11,
       <1>12, <1>13, <1>14, <1>15, <1>16, <1>17, <1>18, <1>19, <1>20, <1>21,
       <1>22, <1>23, <1>24, <1>25, <1>26, <1>27, <1>28, <1>29, <1>30 DEF Next,
       Seek, Start, Attend, Leave, Environment

\* Every step keeps every part of the invariant, given the types of its outcome.
LEMMA NextInv == DiscoveryInv /\ [Next]_vars => DiscoveryInv'
  <1> USE NamesAssumption, OpsAssumption, MaxPollsAssumption
  <1> SUFFICES ASSUME DiscoveryInv, [Next]_vars, TypeOK' PROVE DiscoveryInv'
    BY TypeNext
  <1> USE DEF DiscoveryInv, TypeOK, FileTypeOK, Steps, Bound, Published, Running, Gone,
              NoState, Procs, Dead, Posted, procVars, netVars, fileVars,
              RolesFixed, FileNamesPosted, SeenIsPosted, DialsWhatItSaw, HoldsItsPort,
              FreshLink, LostItsPort, AckIsKept, ReportsOnce, CleanExitLeavesNoState
  <1>1. ASSUME NEW p \in Procs, ReadFound(p) PROVE DiscoveryInv'
    BY <1>1 DEF ReadFound, Goto, ReadState
  <1>2. ASSUME NEW p \in Procs, NothingFound(p) PROVE DiscoveryInv'
    BY <1>2 DEF NothingFound, Goto, Finish, ReadState
  <1>3. ASSUME NEW p \in Procs, Connect(p) PROVE DiscoveryInv'
    BY <1>3 DEF Connect, Goto
  <1>4. ASSUME NEW p \in Procs, TimeOut(p) PROVE DiscoveryInv'
    BY <1>4 DEF TimeOut, Goto
  <1>5. ASSUME NEW p \in Procs, ReceiveAck(p) PROVE DiscoveryInv'
    BY <1>5 DEF ReceiveAck, Goto
  <1>6. ASSUME NEW p \in Procs, ReceiveNoAck(p) PROVE DiscoveryInv'
    BY <1>6 DEF ReceiveNoAck, Goto
  <1>7. ASSUME NEW p \in Procs, MistakenForRefused(p) PROVE DiscoveryInv'
    BY <1>7 DEF MistakenForRefused, Goto
  <1>8. ASSUME NEW p \in Procs, Evict(p) PROVE DiscoveryInv'
    BY <1>8 DEF Evict, Goto, Finish, RemoveFile, MayEvict
  <1>9. ASSUME NEW p \in Procs, GiveUp(p) PROVE DiscoveryInv'
    BY <1>9 DEF GiveUp, Goto, Finish, MayEvict
  <1>10. ASSUME NEW p \in Procs, ReportRunning(p) PROVE DiscoveryInv'
    BY <1>10 DEF ReportRunning, Finish
  <1>11. ASSUME NEW p \in Procs, Handshake(p) PROVE DiscoveryInv'
    BY <1>11 DEF Handshake, Goto
  <1>12. ASSUME NEW p \in Procs, UseDaemon(p) PROVE DiscoveryInv'
    BY <1>12 DEF UseDaemon, Finish
  <1>13. ASSUME NEW p \in Procs, UseOwnServer(p) PROVE DiscoveryInv'
    BY <1>13 DEF UseOwnServer, Finish
  <1>14. ASSUME NEW p \in Procs, StartPolling(p) PROVE DiscoveryInv'
    BY <1>14 DEF StartPolling, Goto
  <1>15. ASSUME NEW p \in Procs, PollAgain(p) PROVE DiscoveryInv'
    BY <1>15 DEF PollAgain, ReadState
  <1>16. ASSUME NEW p \in Procs, PollEnds(p) PROVE DiscoveryInv'
    BY <1>16 DEF PollEnds, Finish, ReadState
  <1>17. ASSUME NEW d \in Daemons, SpawnUpstream(d) PROVE DiscoveryInv'
    BY <1>17 DEF SpawnUpstream, Goto, Finish
  <1>18. ASSUME NEW d \in Daemons, Bind(d) PROVE DiscoveryInv'
    BY <1>18 DEF Bind, Goto, Finish
  <1>19. ASSUME NEW d \in Daemons, OpenState(d) PROVE DiscoveryInv'
    BY <1>19 DEF OpenState, Goto, Finish, Vacated, OpenTruncated
  <1>20. ASSUME NEW d \in Daemons, WriteState(d) PROVE DiscoveryInv'
    BY <1>20 DEF WriteState, Goto, Finish, Vacated, WriteThrough,
       WriteCutShort
  <1>21. ASSUME NEW d \in Daemons, LeaveLoop(d) PROVE DiscoveryInv'
    BY <1>21 DEF LeaveLoop, Goto
  <1>22. ASSUME NEW d \in Daemons, RemoveOnExit(d) PROVE DiscoveryInv'
    BY <1>22 DEF RemoveOnExit, Goto, RemoveFile
  <1>23. ASSUME NEW d \in Daemons, Exit(d) PROVE DiscoveryInv'
    BY <1>23 DEF Exit, Finish, Vacated
  <1>24. ASSUME NEW d \in Daemons, Crash(d) PROVE DiscoveryInv'
    BY <1>24 DEF Crash, Goto, Vacated, CloseHandle
  <1>25. ASSUME NEW d \in Daemons, NEW p \in Procs, Accept(d, p) PROVE DiscoveryInv'
    BY <1>25 DEF Accept
  <1>26. ASSUME NEW d \in Daemons, NEW p \in Procs, Greet(d, p) PROVE DiscoveryInv'
    BY <1>26 DEF Greet
  <1>27. ASSUME NEW d \in Daemons, NEW p \in Procs, HangUp(d, p) PROVE DiscoveryInv'
    BY <1>27 DEF HangUp
  <1>28. ASSUME NEW q \in Ports, ForeignBinds(q) PROVE DiscoveryInv'
    BY <1>28 DEF ForeignBinds
  <1>29. ASSUME NEW q \in Ports, ForeignLeaves(q) PROVE DiscoveryInv'
    BY <1>29 DEF ForeignLeaves
  <1>30. CASE UNCHANGED vars
    BY <1>30 DEF vars
  <1> QED
    BY <1>1, <1>2, <1>3, <1>4, <1>5, <1>6, <1>7, <1>8, <1>9, <1>10, <1>11,
       <1>12, <1>13, <1>14, <1>15, <1>16, <1>17, <1>18, <1>19, <1>20, <1>21,
       <1>22, <1>23, <1>24, <1>25, <1>26, <1>27, <1>28, <1>29, <1>30 DEF Next,
       Seek, Start, Attend, Leave, Environment

\* DiscoveryInv: what processes know of each other through a file anyone may
\* replace and ports anyone may take, whatever the order of their steps.
THEOREM Invariance == Spec => []DiscoveryInv
  BY InitInv, NextInv, PTL DEF Spec

\* TypeOK: the declared domain of every variable, the file's included.
THEOREM TypeCorrect == Spec => []TypeOK
  BY Invariance, PTL DEF DiscoveryInv

\* CleanExitLeavesNoState: a daemon that left by itself is named by no file.
THEOREM CleanExit == Spec => []CleanExitLeavesNoState
  BY Invariance, PTL DEF DiscoveryInv

\* NoOtherDaemonAcknowledges: whoever reuses a port, no daemon answers for
\* another one, and no foreign program for a daemon that lives.
THEOREM Acknowledgement == Spec => []NoOtherDaemonAcknowledges
  <1>1. DiscoveryInv => NoOtherDaemonAcknowledges
    BY DEF DiscoveryInv, AckIsKept, LostItsPort, NoOtherDaemonAcknowledges
  <1>2. QED
    BY Invariance, <1>1, PTL

\* AutoGivesUpOnTheDeadOnly: a tool command evicts no daemon that may live.
THEOREM AutoEviction == Spec => []AutoGivesUpOnTheDeadOnly
  <1>1. DiscoveryInv => AutoGivesUpOnTheDeadOnly
    BY DEF DiscoveryInv, LostItsPort, AutoGivesUpOnTheDeadOnly, MayEvict
  <1>2. QED
    BY Invariance, <1>1, PTL

-----------------------------------------------------------------------------
\* Nobody goes back to "idle", so a daemon that is undisputed has always been.
LEMMA UndisputedBefore ==
  ASSUME DiscoveryInv, [Next]_vars, NEW d \in Daemons, Undisputed(d)'
  PROVE  Undisputed(d)
  <1>1. \A p \in Procs : pc'[p] = "idle" => pc[p] = "idle"
    <2>1. pc \in [Procs -> Steps]
      BY DEF DiscoveryInv, TypeOK
    <2>2. ASSUME NEW p \in Procs, Seek(p) PROVE \A q \in Procs : pc'[q] = "idle" => pc[q] = "idle"
      BY <2>1, <2>2 DEF Goto, Finish, Seek, ReadFound, NothingFound, Connect, TimeOut, ReceiveAck,
         ReceiveNoAck, MistakenForRefused, Evict, GiveUp, ReportRunning, Handshake, UseDaemon,
         UseOwnServer, StartPolling, PollAgain, PollEnds
    <2>3. ASSUME NEW e \in Daemons, Start(e) \/ Leave(e)
          PROVE  \A q \in Procs : pc'[q] = "idle" => pc[q] = "idle"
      BY <2>1, <2>3 DEF Goto, Finish, Procs, Start, SpawnUpstream, Bind, OpenState, WriteState, Leave,
         LeaveLoop, RemoveOnExit, Exit, Crash
    <2>4. ASSUME NEW e \in Daemons, NEW p \in Procs, Attend(e, p)
          PROVE  \A q \in Procs : pc'[q] = "idle" => pc[q] = "idle"
      BY <2>4 DEF Attend, Accept, Greet, HangUp
    <2>5. ASSUME NEW q \in Ports, Environment(q) PROVE pc' = pc
      BY <2>5 DEF Environment, ForeignBinds, ForeignLeaves, procVars
    <2>6. CASE UNCHANGED vars
      BY <2>6 DEF vars, procVars
    <2>7. QED
      BY <2>2, <2>3, <2>4, <2>5, <2>6 DEF Next
  <1>2. op' = op
    BY DEF Next, vars, procVars,
       Seek, ReadFound, NothingFound, Connect, TimeOut, ReceiveAck, ReceiveNoAck, MistakenForRefused,
       Evict, GiveUp, ReportRunning, Handshake, UseDaemon, UseOwnServer, StartPolling, PollAgain, PollEnds,
       Start, SpawnUpstream, Bind, OpenState, WriteState, Leave, LeaveLoop, RemoveOnExit, Exit, Crash,
       Attend, Accept, Greet, HangUp, Environment, ForeignBinds, ForeignLeaves
  <1>3. QED
    BY <1>1, <1>2 DEF Undisputed, Procs

\* FileIsKept is inductive: whoever could remove or overwrite the file of an
\* undisputed daemon would have met that daemon dead.
LEMMA FileIsKeptNext == DiscoveryInv /\ FileIsKept /\ [Next]_vars => FileIsKept'
  <1> USE NamesAssumption
  <1> SUFFICES ASSUME DiscoveryInv, FileIsKept, [Next]_vars,
                      NEW e \in Daemons, Undisputed(e)'
               PROVE  /\ pc'[e] = "write" => e \in handles' /\ content' = "blank"
                      /\ pc'[e] \in {"serving", "closing"} => content' = e
    BY DEF FileIsKept
  <1> DEFINE Kept == /\ pc[e] = "write" => e \in handles /\ content = "blank"
                     /\ pc[e] \in {"serving", "closing"} => content = e
  <1>a. Undisputed(e) /\ Kept
    BY UndisputedBefore DEF FileIsKept
  <1>b. \A d \in Daemons \ {e} : pc[d] = "idle" /\ pc'[d] = "idle"
    BY <1>a DEF Undisputed
  <1>1. ASSUME NEW p \in Procs, Seek(p) PROVE Kept'
    <2>1. CASE Evict(p)
      BY <1>1, <1>a, <1>b, <2>1 DEF Evict, MayEvict, RemoveFile, Finish, Goto, DiscoveryInv, LostItsPort, RolesFixed,
         Undisputed, TypeOK, FileTypeOK, Procs, Dead, Gone, SeenIsPosted, Posted, Running
    <2>2. CASE ~Evict(p)
      BY <1>1, <1>a, <2>2 DEF Seek, ReadFound, NothingFound, Connect, TimeOut, ReceiveAck, ReceiveNoAck, MistakenForRefused,
         GiveUp, ReportRunning, Handshake, UseDaemon, UseOwnServer, StartPolling, PollAgain, PollEnds,
         Finish, Goto, DiscoveryInv, TypeOK, Procs, fileVars, netVars
    <2>3. QED
      BY <2>1, <2>2
  <1>2. ASSUME NEW d \in Daemons, Start(d) \/ Leave(d) PROVE Kept'
    <2>1. CASE d = e
      BY <1>2, <1>a, <2>1 DEF Start, SpawnUpstream, Bind, OpenState, WriteState, Leave, LeaveLoop, RemoveOnExit, Exit, Crash,
         Finish, Goto, OpenTruncated, WriteThrough, WriteCutShort, RemoveFile, CloseHandle, DiscoveryInv,
         TypeOK, Procs, fileVars, netVars, Dead, Gone
    <2>2. CASE d # e
      BY <1>2, <1>b, <2>2 DEF Start, SpawnUpstream, Bind, OpenState, WriteState, Leave, LeaveLoop, RemoveOnExit, Exit, Crash,
         Finish, Goto, DiscoveryInv, TypeOK, Procs
    <2>3. QED
      BY <2>1, <2>2
  <1>3. ASSUME NEW d \in Daemons, NEW p \in Procs, Attend(d, p) PROVE Kept'
    BY <1>3, <1>a DEF Attend, Accept, Greet, HangUp, fileVars
  <1>4. ASSUME NEW q \in Ports, Environment(q) PROVE Kept'
    BY <1>4, <1>a DEF Environment, ForeignBinds, ForeignLeaves, fileVars, procVars
  <1>5. CASE UNCHANGED vars
    BY <1>5, <1>a DEF vars, fileVars, procVars
  <1>6. QED
    BY <1>1, <1>2, <1>3, <1>4, <1>5 DEF Next

\* ServingIsDiscoverable: the file of an undisputed daemon stands while it
\* serves, for any number of daemons, clients and ports.
THEOREM Discoverability == Spec => []ServingIsDiscoverable
  <1>1. Init => FileIsKept
    BY ZenonT(60) DEF Init, FileIsKept, Procs
  <1>2. FileIsKept => ServingIsDiscoverable
    BY DEF FileIsKept, ServingIsDiscoverable
  <1>3. DiscoveryInv /\ FileIsKept /\ [Next]_vars => FileIsKept'
    BY FileIsKeptNext
  <1>4. QED
    BY Invariance, <1>1, <1>2, <1>3, PTL DEF Spec

-----------------------------------------------------------------------------
\* Initial states show nothing up, nothing answered and nothing reported.
LEMMA ServiceInit == Init => Service!Init
  BY NamesAssumption DEF Init, Service!Init, Life, Answered, Dead, Running, Gone, Procs

\* A step that moves no daemon between starting, up and gone, answers nobody
\* and reports nothing is not seen.
LEMMA Unseen ==
  ASSUME \A d \in Daemons : pc'[d] \in Running <=> pc[d] \in Running,
         \A d \in Daemons : Dead(d)' <=> Dead(d),
         \A p \in Procs : link[p] = "acked" \/ link'[p] = "acked" => link'[p] = link[p] /\ peer'[p] = peer[p],
         result' = result
  PROVE  UNCHANGED <<Life, Answered, result>>
  <1>1. Life' = Life
    BY DEF Life
  <1>2. Answered' = Answered
    BY DEF Answered
  <1>3. QED
    BY <1>1, <1>2

\* A process that seeks is no daemon yet; unless a foreign program answers it,
\* it either goes on in silence or ends with a report that its answer supports.
LEMMA SeekShape ==
  ASSUME DiscoveryInv, NEW p \in Procs, Seek(p), ~(ReceiveAck(p) /\ peer[p] = "foreign")
  PROVE  /\ pc[p] \notin Running \cup Gone \cup {"done"}
         /\ \A r \in Procs : link[r] = "acked" \/ link'[r] = "acked" => link'[r] = link[r] /\ peer'[r] = peer[r]
         /\ \/ /\ result' = result
               /\ \E s \in Steps \ (Running \cup Gone) : pc' = [pc EXCEPT ![p] = s]
            \/ \E r \in Service!Outcomes :
                  /\ Finish(p, r)
                  /\ Service!Supported(p, r)
                  /\ p \in Daemons => r \in {"error", "alreadyRunning"}
  <1> USE NamesAssumption
  <1> USE DEF DiscoveryInv, TypeOK, Procs, Gone, Running, Steps, Bound, Published
  <1>1. /\ pc[p] \notin Running \cup Gone \cup {"done"}
        /\ \A r \in Procs : link[r] = "acked" \/ link'[r] = "acked" => link'[r] = link[r] /\ peer'[r] = peer[r]
    BY DEF Seek, ReadFound, NothingFound, Connect, TimeOut, ReceiveAck, ReceiveNoAck, MistakenForRefused, Evict,
       MayEvict, GiveUp, ReportRunning, Handshake, UseDaemon, UseOwnServer, StartPolling, PollAgain, PollEnds, FreshLink
  <1>2. CASE ReadFound(p) \/ Connect(p) \/ TimeOut(p) \/ ReceiveAck(p) \/ ReceiveNoAck(p) \/ MistakenForRefused(p)
             \/ Handshake(p) \/ StartPolling(p) \/ PollAgain(p)
    BY <1>1, <1>2 DEF ReadFound, Connect, TimeOut, ReceiveAck, ReceiveNoAck, MistakenForRefused, Handshake,
       StartPolling, PollAgain, Goto
  <1>3. CASE NothingFound(p)
    BY <1>1, <1>3 DEF NothingFound, Goto, Service!Outcomes, Service!Supported, Answered, FreshLink, RolesFixed
  <1>4. CASE Evict(p) \/ GiveUp(p)
    BY <1>1, <1>4 DEF Evict, MayEvict, GiveUp, Goto, Service!Outcomes, Service!Supported, RolesFixed
  <1>5. CASE ReportRunning(p)
    BY <1>1, <1>5 DEF ReportRunning, Service!Outcomes, Service!Supported, Answered, AckIsKept, RolesFixed
  <1>6. CASE UseDaemon(p)
    BY <1>1, <1>6 DEF UseDaemon, PeerLives, Service!Outcomes, Service!Supported, Answered, AckIsKept, ReportsOnce, Life, Dead,
       SeenIsPosted, Posted
  <1>7. CASE UseOwnServer(p)
    BY <1>1, <1>7 DEF UseOwnServer, Service!Outcomes, Service!Supported
  <1>8. CASE PollEnds(p)
    BY <1>1, <1>8 DEF PollEnds, Service!Outcomes, Service!Supported, Answered, AckIsKept, ReportsOnce
  <1>9. QED
    BY <1>2, <1>3, <1>4, <1>5, <1>6, <1>7, <1>8 DEF Seek

\* Every step is a step of the service, or one nobody outside can see.
LEMMA ServiceNext ==
  DiscoveryInv /\ [Next]_vars => [Service!Next]_(Service!serviceVars)
  <1> USE NamesAssumption
  <1> SUFFICES ASSUME DiscoveryInv, [Next]_vars
               PROVE  Service!Next \/ UNCHANGED <<Life, Answered, result>>
    BY DEF Service!serviceVars
  <1> USE DEF DiscoveryInv, TypeOK, Procs, Dead, Gone, Running
  <1>1. ASSUME NEW p \in Procs, Seek(p)
        PROVE  Service!Next \/ UNCHANGED <<Life, Answered, result>>
    <2>a. CASE ReceiveAck(p) /\ peer[p] = "foreign"
      <3>1. Life' = Life /\ result' = result
        BY <2>a DEF ReceiveAck, Goto, Life
      <3>2. seen[p] \in Daemons /\ Life[seen[p]] = "gone"
        BY <2>a DEF LostItsPort, Life
      <3>3. CASE link[p] = "acked"
        <4>1. Answered' = Answered
          BY <2>a, <3>3 DEF ReceiveAck, Answered
        <4>2. QED
          BY <3>1, <4>1
      <3>4. CASE link[p] # "acked"
        <4>1. Answered[p] = "none" /\ Answered' = [Answered EXCEPT ![p] = "foreign"]
          BY <2>a, <3>4 DEF ReceiveAck, Answered
        <4>2. Service!Impersonate(p)
          BY <3>1, <3>2, <4>1 DEF Service!Impersonate
        <4>3. QED
          BY <4>2 DEF Service!Next
      <3>5. QED
        BY <3>3, <3>4
    <2> SUFFICES ASSUME ~(ReceiveAck(p) /\ peer[p] = "foreign")
                 PROVE  Service!Next \/ UNCHANGED <<Life, Answered, result>>
      BY <2>a
    <2>1. Answered' = Answered
      BY <1>1, SeekShape DEF Answered
    <2>2. CASE result' = result /\ \E s \in Steps \ (Running \cup Gone) : pc' = [pc EXCEPT ![p] = s]
      <3>1. PICK s \in Steps \ (Running \cup Gone) : pc' = [pc EXCEPT ![p] = s]
        BY <2>2
      <3>2. \A d \in Daemons : (pc'[d] \in Running <=> pc[d] \in Running) /\ (Dead(d)' <=> Dead(d))
        BY <1>1, <3>1, SeekShape
      <3>3. QED
        BY <1>1, <2>2, <3>2, SeekShape, Unseen
    <2>3. ASSUME NEW r \in Service!Outcomes, Finish(p, r), Service!Supported(p, r), p \in Clients
          PROVE  Service!Next
      <3>1. Life' = Life /\ result[p] = "none"
        BY <1>1, <2>3, SeekShape DEF Finish, Life, ReportsOnce
      <3>2. Service!Report(p, r)
        BY <2>1, <2>3, <3>1 DEF Service!Report, Finish
      <3>3. QED
        BY <2>3, <3>2 DEF Service!Next
    <2>4. ASSUME NEW r \in {"error", "alreadyRunning"}, Finish(p, r), Service!Supported(p, r), p \in Daemons
          PROVE  Service!Next
      <3>1. /\ result[p] = "none"
            /\ Life[p] # "gone"
            /\ Life' = [Life EXCEPT ![p] = "gone"]
        <4>1. result[p] = "none" /\ Life[p] # "gone"
          BY <1>1, <2>4, SeekShape DEF Life, ReportsOnce
        <4>2. Life' = [Life EXCEPT ![p] = "gone"]
          BY <2>4 DEF Finish, Life
        <4>3. QED
          BY <4>1, <4>2
      <3>2. Service!Retire(p, r)
        BY <2>1, <2>4, <3>1, ZenonT(60) DEF Service!Retire, Finish
      <3>3. QED
        BY <2>4, <3>2 DEF Service!Next, Service!Outcomes
    <2>5. QED
      BY <1>1, <2>2, <2>3, <2>4, SeekShape, ZenonT(60)
  <1>2. ASSUME NEW d \in Daemons, Start(d)
        PROVE  Service!Next \/ UNCHANGED <<Life, Answered, result>>
    <2>1. Answered' = Answered
      BY <1>2 DEF Start, SpawnUpstream, Bind, OpenState, WriteState, Answered
    <2>2. result[d] = "none" /\ Life[d] = "starting"
      BY <1>2 DEF Start, SpawnUpstream, Bind, OpenState, WriteState, Life, ReportsOnce
    <2>3. CASE Finish(d, "error")
      <3>1. Life' = [Life EXCEPT ![d] = "gone"]
        BY <2>3 DEF Finish, Life
      <3>2. Service!Retire(d, "error")
        BY <2>1, <2>2, <2>3, <3>1 DEF Service!Retire, Service!Supported, Finish
      <3>3. QED
        BY <3>2 DEF Service!Next, Service!Outcomes
    <2>4. CASE Goto(d, "serving") /\ result' = result
      <3>1. Life' = [Life EXCEPT ![d] = "up"]
        BY <2>4 DEF Goto, Life
      <3>2. Service!Rise(d)
        BY <2>1, <2>2, <2>4, <3>1 DEF Service!Rise
      <3>3. QED
        BY <3>2 DEF Service!Next
    <2>5. CASE result' = result /\ \E s \in {"bind", "open", "write"} : Goto(d, s)
      <3>1. Life' = Life
        BY <1>2, <2>2, <2>5 DEF Goto, Life
      <3>2. QED
        BY <2>1, <2>5, <3>1
    <2>6. QED
      BY <1>2, <2>3, <2>4, <2>5 DEF Start, SpawnUpstream, Bind, OpenState, WriteState
  <1>3. ASSUME NEW d \in Daemons, Leave(d)
        PROVE  Service!Next \/ UNCHANGED <<Life, Answered, result>>
    <2>1. Answered' = Answered
      BY <1>3 DEF Leave, LeaveLoop, RemoveOnExit, Exit, Crash, Answered
    <2>2. CASE LeaveLoop(d) \/ RemoveOnExit(d)
      <3>1. Life' = Life
        BY <2>2 DEF LeaveLoop, RemoveOnExit, Goto, Life
      <3>2. QED
        BY <2>1, <2>2, <3>1 DEF LeaveLoop, RemoveOnExit
    <2>3. CASE Exit(d)
      <3>1. /\ result[d] = "none"
            /\ Life[d] = "up"
            /\ Life' = [Life EXCEPT ![d] = "gone"]
        BY <2>3 DEF Exit, Finish, Life, ReportsOnce
      <3>2. Service!Retire(d, "served")
        BY <2>1, <2>3, <3>1 DEF Service!Retire, Service!Supported, Exit, Finish
      <3>3. QED
        BY <3>2 DEF Service!Next, Service!Outcomes
    <2>4. CASE Crash(d)
      <3>1. /\ Life[d] # "gone"
            /\ Life' = [Life EXCEPT ![d] = "gone"]
        BY <2>4 DEF Crash, Goto, Life
      <3>2. Service!Fall(d)
        BY <2>1, <2>4, <3>1 DEF Service!Fall, Crash
      <3>3. QED
        BY <3>2 DEF Service!Next
    <2>5. QED
      BY <1>3, <2>2, <2>3, <2>4 DEF Leave
  <1>4. ASSUME NEW d \in Daemons, NEW p \in Procs, Attend(d, p)
        PROVE  Service!Next \/ UNCHANGED <<Life, Answered, result>>
    <2>1. Life' = Life /\ result' = result
      BY <1>4 DEF Attend, Accept, Greet, HangUp, Life
    <2>2. CASE Greet(d, p) /\ seen[p] = d
      <3>1. /\ Life[d] = "up"
            /\ Answered[p] = "none"
            /\ Answered' = [Answered EXCEPT ![p] = d]
        BY <2>2, ZenonT(60) DEF Greet, Life, Answered
      <3>2. Service!Answer(d, p)
        BY <2>1, <3>1 DEF Service!Answer
      <3>3. QED
        BY <3>2 DEF Service!Next
    <2>3. CASE ~(Greet(d, p) /\ seen[p] = d)
      <3>1. Answered' = Answered
        BY <1>4, <2>3 DEF Attend, Accept, Greet, HangUp, Answered
      <3>2. QED
        BY <2>1, <3>1
    <2>4. QED
      BY <2>2, <2>3
  <1>5. ASSUME NEW q \in Ports, Environment(q)
        PROVE  UNCHANGED <<Life, Answered, result>>
    BY <1>5 DEF Environment, ForeignBinds, ForeignLeaves, procVars, Life, Answered
  <1>6. CASE UNCHANGED vars
    BY <1>6 DEF vars, procVars, Life, Answered
  <1>7. QED
    BY <1>1, <1>2, <1>3, <1>4, <1>5, <1>6 DEF Next

\* ImplementsService: what users are promised, for every number of processes.
THEOREM Refinement == Spec => ImplementsService
  BY Invariance, ServiceInit, ServiceNext, PTL DEF Spec, ImplementsService, Service!Spec
=============================================================================
