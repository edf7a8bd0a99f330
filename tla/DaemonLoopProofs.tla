-------------------------- MODULE DaemonLoopProofs --------------------------
(***************************************************************************)
(* Proofs about DaemonLoop, for any finite set of connections and any      *)
(* limits: the shared count of sessions is exact, so it never wraps below  *)
(* zero, and the idle limit strikes while no call is upstream.             *)
(***************************************************************************)
EXTENDS DaemonLoop, FiniteSetTheorems, TLAPS

\* A connection that enters or leaves the counted stages changes their number
\* by one; one that moves otherwise does not change it.
LEMMA CountOfMove ==
  ASSUME NEW c \in Conns, NEW s \in Stages, stage \in [Conns -> Stages], Move(c, s)
  PROVE  /\ AtStage(Counted)' =
              IF s \in Counted THEN AtStage(Counted) \cup {c} ELSE AtStage(Counted) \ {c}
         /\ Cardinality(AtStage(Counted)) \in Nat
         /\ stage[c] \notin Counted /\ s \in Counted
              => Cardinality(AtStage(Counted)') = Cardinality(AtStage(Counted)) + 1
         /\ stage[c] \in Counted /\ s \notin Counted
              => Cardinality(AtStage(Counted)') = Cardinality(AtStage(Counted)) - 1
         /\ (stage[c] \in Counted <=> s \in Counted)
              => AtStage(Counted)' = AtStage(Counted)
  <1>1. IsFiniteSet(AtStage(Counted))
    BY ConnsAssumption, FS_Subset DEF AtStage
  <1>2. AtStage(Counted)' = IF s \in Counted THEN AtStage(Counted) \cup {c} ELSE AtStage(Counted) \ {c}
    BY DEF AtStage, Move
  <1>3. c \in AtStage(Counted) <=> stage[c] \in Counted
    BY DEF AtStage
  <1>4. Cardinality(AtStage(Counted)) \in Nat
    BY <1>1, FS_CardinalityType
  <1>5. ASSUME stage[c] \notin Counted, s \in Counted
        PROVE  Cardinality(AtStage(Counted)') = Cardinality(AtStage(Counted)) + 1
    BY <1>1, <1>2, <1>3, <1>5, FS_AddElement
  <1>6. ASSUME stage[c] \in Counted, s \notin Counted
        PROVE  Cardinality(AtStage(Counted)') = Cardinality(AtStage(Counted)) - 1
    BY <1>1, <1>2, <1>3, <1>6, FS_RemoveElement
  <1>7. (stage[c] \in Counted <=> s \in Counted) => AtStage(Counted)' = AtStage(Counted)
    BY <1>2, <1>3
  <1>8. QED
    BY <1>2, <1>4, <1>5, <1>6, <1>7

\* A daemon starts without connections, and counts none.
LEMMA LoopInit == Init => LoopInv
  <1> SUFFICES ASSUME Init PROVE LoopInv
    OBVIOUS
  <1>1. AtStage(Counted) = {}
    BY DEF Init, AtStage, Counted
  <1>2. Cardinality(AtStage(Counted)) = 0
    BY <1>1, FS_EmptySet
  <1>3. TypeOK
    <2>1. waited \in [Conns -> 0 .. PreambleSecs] /\ link \in [Conns -> Links] /\ idle \in 0 .. limit
      BY SecsAssumption DEF Init, Links
    <2>2. QED
      BY <2>1 DEF Init, TypeOK, Stages, Looping, Reasons
  <1>4. QED
    BY <1>2, <1>3 DEF Init, LoopInv

\* A task that counts, or uncounts, does it in the same step as it enters or
\* leaves the counted stages; no other step moves a connection across.
LEMMA LoopNext == LoopInv /\ [Next]_vars => LoopInv'
  <1> SUFFICES ASSUME LoopInv, [Next]_vars PROVE LoopInv'
    OBVIOUS
  <1> USE SecsAssumption DEF LoopInv, TypeOK, Links, Tell, loopVars, connVars, given, sharedVars
  <1>1. CASE Loop
    <2>1. ASSUME NEW c \in Conns, Accept(c) PROVE LoopInv'
      <3>1. AtStage(Counted)' = AtStage(Counted)
        BY <2>1, CountOfMove DEF Accept, Counted, Stages
      <3>2. stage' \in [Conns -> Stages] /\ link' \in [Conns -> Links]
        BY <2>1 DEF Accept, Move, Stages
      <3>3. caught' \in BOOLEAN /\ loop' = "polling"
        BY <2>1 DEF Accept
      <3>4. QED
        BY <2>1, <3>1, <3>2, <3>3 DEF Accept
    <2>2. CASE HearSignal \/ HearStop \/ HearTick
      <3>1. limit \in Nat /\ due' \in BOOLEAN /\ caught' \in BOOLEAN
        BY <2>2 DEF HearSignal, HearStop, HearTick
      <3>2. /\ UNCHANGED <<limit, kind, stage, waited, link, stop, active, idle, upstream, signalled>>
            /\ loop' \in {"polling", "left", "counting"}
            /\ loop' = "counting" => limit # 0
            /\ reason' \in Reasons
            /\ loop # "exited"
        BY <2>2 DEF HearSignal, HearStop, HearTick, LeaveLoop, Reasons
      <3>3. AtStage(Counted)' = AtStage(Counted)
        BY <3>2 DEF AtStage
      <3>4. QED
        BY <3>1, <3>2, <3>3 DEF Looping
    <2>3. CASE LoadActive
      <3>1. active = 0 => AtStage({"calling"}) = {}
        <4>1. active = 0 => AtStage(Counted) = {}
          BY <2>3, ConnsAssumption, FS_Subset, FS_EmptySet DEF LoadActive, AtStage
        <4>2. AtStage({"calling"}) \subseteq AtStage(Counted)
          BY DEF AtStage, Counted
        <4>3. QED
          BY <4>1, <4>2
      <3>2. QED
        BY <2>3, <3>1 DEF LoadActive, Looping, AtStage
    <2>4. CASE ReadClock
      BY <2>4 DEF ReadClock, LeaveLoop, Looping, Reasons, AtStage
    <2>5. CASE RemoveState
      BY <2>5 DEF RemoveState, AtStage
    <2>6. CASE Exit
      BY <2>6 DEF Exit, AtStage, Stages
    <2>7. QED
      BY <1>1, <2>1, <2>2, <2>3, <2>4, <2>5, <2>6 DEF Loop, Leave
  <1>2. ASSUME NEW c \in Conns, Task(c) \/ Client(c) PROVE LoopInv'
    <2>1. loop # "exited"
      BY <1>2 DEF Task, HandlePreamble, GiveUpPreamble, RequestStop, Count, TouchLast,
         Client, Arrive, HandshakeDone, CallTool, ReturnResult, Uncount, AtStage, Counted
    <2>2. CASE Count(c)
      <3>1. Cardinality(AtStage(Counted)') = Cardinality(AtStage(Counted)) + 1
        BY <2>2, CountOfMove DEF Count, Counted, Stages
      <3>2. AtStage({"calling"})' \subseteq AtStage({"calling"})
        BY <2>2 DEF Count, AtStage, Move
      <3>3. QED
        BY <2>1, <2>2, <3>1, <3>2 DEF Count, Stages, Move
    <2>3. CASE Uncount(c)
      <3>1. Cardinality(AtStage(Counted)') = Cardinality(AtStage(Counted)) - 1
        BY <2>3, CountOfMove DEF Uncount, Counted, Stages
      <3>2. Cardinality(AtStage(Counted)') \in Nat
        BY ConnsAssumption, FS_Subset, FS_CardinalityType DEF AtStage
      <3>3. AtStage({"calling"})' \subseteq AtStage({"calling"})
        BY <2>3 DEF Uncount, AtStage, Move
      <3>4. QED
        BY <2>1, <2>3, <3>1, <3>2, <3>3 DEF Uncount, Stages, Move
    <2>4. CASE HandlePreamble(c) \/ GiveUpPreamble(c) \/ RequestStop(c) \/ TouchLast(c)
      <3>1. \E s \in Stages \ Counted : Move(c, s)
        BY <2>4 DEF HandlePreamble, GiveUpPreamble, RequestStop, TouchLast, Stages, Counted
      <3>2. stage[c] \notin Counted
        BY <2>4 DEF HandlePreamble, GiveUpPreamble, RequestStop, TouchLast, Counted
      <3>3. AtStage(Counted)' = AtStage(Counted)
        BY <3>1, <3>2, CountOfMove
      <3>4. stage' \in [Conns -> Stages]
        BY <3>1 DEF Move
      <3>5. /\ UNCHANGED <<loop, reason, due, caught, limit, kind, waited, active, upstream, signalled>>
            /\ stop' \in BOOLEAN /\ idle' \in {idle, 0}
            /\ link' \in [Conns -> Links]
        BY <2>4 DEF HandlePreamble, GiveUpPreamble, RequestStop, TouchLast, Touch
      <3>6. AtStage({"calling"})' \subseteq AtStage({"calling"})
        BY <3>1 DEF AtStage, Move, Counted
      <3>7. QED
        BY <2>1, <3>3, <3>4, <3>5, <3>6
    <2>5. CASE Arrive(c) \/ HandshakeDone(c) \/ CallTool(c) \/ ReturnResult(c)
      <3>1. \E s \in Stages : Move(c, s) /\ (stage[c] \in Counted <=> s \in Counted)
        BY <2>5 DEF Arrive, HandshakeDone, CallTool, ReturnResult, Stages, Counted
      <3>2. AtStage(Counted)' = AtStage(Counted)
        BY <3>1, CountOfMove
      <3>3. stage' \in [Conns -> Stages]
        BY <3>1 DEF Move
      <3>4. /\ UNCHANGED <<loop, reason, due, caught, limit, kind, waited, stop, active, upstream, signalled>>
            /\ idle' \in {idle, 0}
            /\ link' \in [Conns -> Links]
        BY <2>5 DEF Arrive, HandshakeDone, CallTool, ReturnResult, Touch
      <3>5. AtStage({"calling"})' \subseteq AtStage({"calling"}) \/ idle' = 0
        BY <2>5 DEF Arrive, HandshakeDone, CallTool, ReturnResult, Touch, AtStage, Move
      <3>6. QED
        BY <2>1, <3>2, <3>3, <3>4, <3>5
    <2>6. QED
      BY <1>2, <2>2, <2>3, <2>4, <2>5 DEF Task, Client
  <1>3. CASE Signal \/ UpstreamDies
    BY <1>3 DEF Signal, UpstreamDies, AtStage
  <1>4. CASE Second
    BY <1>4 DEF Second, AtMost, AtStage
  <1>5. CASE UNCHANGED vars
    BY <1>5 DEF vars, AtStage
  <1>6. QED
    BY <1>1, <1>2, <1>3, <1>4, <1>5 DEF Next

\* LoopInv: the shared count is what the tasks add up to while the daemon lives.
THEOREM LoopInvariance == Spec => []LoopInv
  BY LoopInit, LoopNext, PTL DEF Spec

\* TypeOK, and in it that the unsigned count of sessions never wraps.
THEOREM LoopTypeCorrect == Spec => []TypeOK
  BY LoopInvariance, PTL DEF LoopInv

\* ActiveIsExact: no order of connections, failures and timeouts leaks one.
THEOREM ActiveExactness == Spec => []ActiveIsExact
  <1>1. LoopInv => ActiveIsExact
    BY DEF LoopInv, ActiveIsExact
  <1>2. QED
    BY LoopInvariance, <1>1, PTL

\* NoCallIsPendingAtIdleTimeout: however the tick's two reads interleave with
\* the tasks, the limit never strikes under a call.
THEOREM IdlenessSparesCalls == Spec => NoCallIsPendingAtIdleTimeout
  <1>1. LoopInv /\ [Next]_vars
          => [reason' = "idleTimeout" /\ reason # reason' => AtStage({"calling"}) = {}]_vars
    <2> SUFFICES ASSUME LoopInv, Next, reason' = "idleTimeout", reason # reason'
                 PROVE  AtStage({"calling"}) = {}
      OBVIOUS
    <2>1. ReadClock /\ idle >= limit
      <3>1. CASE Loop
        BY <3>1 DEF Loop, Leave, Accept, HearSignal, HearStop, HearTick, LoadActive, ReadClock, RemoveState, Exit,
           LeaveLoop
      <3>2. CASE \E c \in Conns : Task(c) \/ Client(c)
        BY <3>2 DEF Task, HandlePreamble, GiveUpPreamble, RequestStop, Count, TouchLast, Client, Arrive,
           HandshakeDone, CallTool, ReturnResult, Uncount, loopVars
      <3>3. CASE Signal \/ UpstreamDies \/ Second
        BY <3>3 DEF Signal, UpstreamDies, Second, loopVars
      <3>4. QED
        BY <3>1, <3>2, <3>3 DEF Next
    <2>2. limit \in Nat /\ idle \in 0 .. limit
      BY SecsAssumption DEF LoopInv, TypeOK
    <2>3. limit > 0
      BY <2>1 DEF ReadClock, LoopInv
    <2>4. AtStage({"calling"}) = {} \/ idle = 0
      BY <2>1 DEF ReadClock, LoopInv
    <2>5. idle # 0
      BY <2>1, <2>2, <2>3
    <2>6. QED
      BY <2>4, <2>5
  <1>2. QED
    BY LoopInvariance, <1>1, PTL DEF Spec, NoCallIsPendingAtIdleTimeout
=============================================================================
