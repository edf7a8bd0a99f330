-------------------------- MODULE InvocationProofs --------------------------
(***************************************************************************)
(* Proofs about Invocation, for any command lines: a faulty command line   *)
(* reaches no server, the exit code and the report name what happened,     *)
(* findings are printed though the command fails, and no server is left.   *)
(***************************************************************************)
EXTENDS Invocation, SequenceTheorems, TLAPS

Early == {"start", "resolving", "checking"}
Working == {"probing", "asking", "dialling", "spawning", "shaking", "waiting"}
Closing == {"reporting", "finishing", "ended"}

\* A command that is not through its checks has asked nobody, and one with a
\* fault does not get through.
AskedNobody ==
    /\ stage \in Early \/ cmd.fault # "none" =>
         session = "none" /\ server = "none" /\ ~sought /\ spawned = 0 /\ replies = << >>
    /\ cmd.fault # "none" => stage \in Early \cup Closing

\* Until a reply is taken for the last one there is nothing to print, report or
\* write.
NothingToTell ==
    stage \in Early \cup Working =>
        error = "none" /\ output = "none" /\ tried = 0 /\ texts = {} /\ written = {}

AllWell == \A i \in DOMAIN replies : replies[i] = "ok"

\* Every request so far was answered well, and there is another one.
MoreToAsk ==
    /\ stage \in Working => AllWell /\ (Len(replies) < Len(Requests) \/ Requests = << >>)
    /\ stage \in {"dialling", "spawning", "shaking"} => session = "none"
    /\ stage = "waiting" => session # "none" /\ Requests # << >>
    /\ Len(replies) <= Len(Requests)

\* The output files are those whose text has come, up to the present one.
Written(n) == {cmd.writes[i] : i \in 1 .. n} \cap texts

SpillsTheResult ==
    stage = "spilling" =>
        /\ session # "none"
        /\ Len(replies) = Len(Requests)
        /\ error = "none" => AllWell
        /\ error \in {"none", "tool"}
        /\ cmd.raw => ~Heard({"failed"})
        /\ tried <= Wanted
        /\ written = Written(tried)

\* What a command without an error has done.
AllDone ==
    ~cmd.raw =>
        /\ Len(replies) = Len(Requests)
        /\ \A i \in DOMAIN replies : Requests[i] = "practices" \/ replies[i] = "ok"
        /\ cmd.only = "none" => written = texts \cap Range(cmd.writes)

FineIsDone ==
    stage \in Closing \cup {"printing"} /\ error = "none" /\ exit # "panicked" => cmd.fault = "none" /\ AllDone

\* What an error comes from.
ErrorHasCause ==
    /\ error = "tool" => Heard({"failed", "isError"})
    /\ error = "transport" => session = "none" \/ Heard({"serverError", "timeout", "closed"})
    /\ error = "usage" => cmd.fault # "none" \/ Heard({"invalid", "unknown", "empty"}) \/ tried < Wanted

\* The error is reported once, and the exit code is its; a panic has neither.
ReportedOnce ==
    /\ reports = IF stage \in {"finishing", "ended"} /\ error # "none" THEN 1 ELSE 0
    /\ stage = "panicking" => error = "none"
    /\ stage # "ended" => exit = "none"
    /\ stage = "ended" => exit \in {ExitCode, "panicked"}

\* What is found is in what is printed.
Shows(out) ==
    /\ Heard({"failed"}) => out = (IF cmd.raw THEN "raw" ELSE IF cmd.only \in texts THEN "text" ELSE "value")
    /\ cmd.name = "doctor" /\ session = "none" => out = "report"

Printed ==
    /\ stage = "printing" => Shows(output)
    /\ stage \in Closing /\ exit # "panicked" /\ error # "usage" /\ stdout # "lost" => Shows(stdout)

ServerIsClosed == stage = "ended" /\ session = "spawned" => server # "up"

InvocationInv ==
    /\ TypeOK
    /\ AskedNobody /\ NothingToTell /\ MoreToAsk /\ SpillsTheResult
    /\ FineIsDone /\ ErrorHasCause /\ ReportedOnce /\ Printed /\ ServerIsClosed

-----------------------------------------------------------------------------
(* What the definitions say of any command line.                           *)

Kinds == {"tools/list", "practices", "versions", "tool"}

LEMMA RequestsAre ==
  /\ Requests \in Seq(Kinds) /\ Len(Requests) \in Nat /\ Len(Requests) <= 2
  /\ cmd.name \in {"build", "buildParams", "formatCheck"} => Len(Requests) = 1 /\ Requests[1] = "tool"
  /\ \A i \in DOMAIN Requests : Requests[i] = "practices" => i = Len(Requests)
  /\ \A i \in DOMAIN Requests : Requests[i] = "tool" => i = Len(Requests)
  /\ cmd.name = "doctor" => Len(Requests) = 2 /\ Requests[2] = "practices"
  /\ cmd.name = "version" => Requests = << >>
  <1>1. \/ Requests = <<"tools/list">> /\ cmd.name = "tools"
        \/ Requests = <<"tools/list", "practices">> /\ cmd.name = "doctor"
        \/ Requests = <<"versions", "tool">> /\ cmd.name = "schemaLatest"
        \/ Requests = << >> /\ cmd.name \in {"version", "versionServer"}
        \/ Requests = <<"tool">> /\ cmd.name \notin {"doctor", "version"}
    BY DEF Requests
  <1>2. CASE Requests = <<"tools/list">> /\ cmd.name = "tools"
    BY <1>2 DEF Kinds
  <1>3. CASE Requests = <<"tools/list", "practices">> /\ cmd.name = "doctor"
    BY <1>3 DEF Kinds
  <1>4. CASE Requests = <<"versions", "tool">> /\ cmd.name = "schemaLatest"
    BY <1>4 DEF Kinds
  <1>5. CASE Requests = << >> /\ cmd.name \in {"version", "versionServer"}
    BY <1>5 DEF Kinds
  <1>6. CASE Requests = <<"tool">> /\ cmd.name \notin {"doctor", "version"}
    BY <1>6 DEF Kinds
  <1>7. QED
    BY <1>1, <1>2, <1>3, <1>4, <1>5, <1>6

LEMMA CommandStays ==
  ASSUME cmd' = cmd
  PROVE  Requests' = Requests /\ Wanted' = Wanted
  BY DEF Requests, Wanted

LEMMA CommandIs ==
  ASSUME cmd \in Invocations
  PROVE  /\ cmd.name \in Names /\ cmd.raw \in BOOLEAN
         /\ cmd.fault \in Faults
         /\ cmd.writes \in Seq({"source", "template", "parameters"})
         /\ Wanted \in 0 .. Len(cmd.writes)
         /\ cmd.only = "none" => Wanted = Len(cmd.writes)
  <1>1. cmd \in Invocation
    BY InvocationsAssumption
  <1>2. cmd.writes \in Seq({"source", "template", "parameters"})
    <2>1. cmd.writes \in Outputs
      BY <1>1 DEF Invocation
    <2>2. \/ cmd.writes = << >> \/ cmd.writes = <<"source">> \/ cmd.writes = <<"template">> \/ cmd.writes = <<"parameters">>
          \/ cmd.writes = <<"parameters", "template">>
      BY <2>1 DEF Outputs
    <2>3. /\ << >> \in Seq({"source", "template", "parameters"}) /\ <<"source">> \in Seq({"source", "template", "parameters"}) /\ <<"template">> \in Seq({"source", "template", "parameters"})
          /\ <<"parameters">> \in Seq({"source", "template", "parameters"})
          /\ <<"parameters", "template">> \in Seq({"source", "template", "parameters"})
      OBVIOUS
    <2>4. QED
      BY <2>2, <2>3
  <1>3. cmd.name \in Names /\ cmd.raw \in BOOLEAN /\ cmd.fault \in Faults
    BY <1>1 DEF Invocation
  <1>4. QED
    BY <1>2, <1>3 DEF Wanted

LEMMA InvInit == Init => InvocationInv
  <1> SUFFICES ASSUME Init PROVE InvocationInv
    OBVIOUS
  <1>1. cmd.writes \in Seq({"source", "template", "parameters"})
    BY CommandIs DEF Init
  <1>2. TypeOK
    <2>1. replies \in Seq(ReplyKinds) /\ Len(replies) <= 2 /\ tried \in 0 .. Len(cmd.writes)
      BY <1>1 DEF Init
    <2>2. written \subseteq texts /\ texts \subseteq Texts(cmd.name)
      BY DEF Init
    <2>3. spawned \in Nat /\ reports \in 0 .. 1
      BY DEF Init
    <2>4. sought \in BOOLEAN
      BY Zenon DEF Init
    <2>5. /\ cmd \in Invocations /\ stage = "start" /\ session = "none" /\ server = "none"
          /\ output = "none" /\ error \in Errors /\ stdout = "none" /\ exit = "none"
      BY DEF Init, Errors
    <2>6. QED
      BY <2>1, <2>2, <2>3, <2>4, <2>5 DEF TypeOK
  <1>3. AskedNobody /\ NothingToTell /\ SpillsTheResult /\ FineIsDone /\ ErrorHasCause /\ Printed /\ ServerIsClosed
    BY DEF Init, AskedNobody, NothingToTell, SpillsTheResult, FineIsDone, ErrorHasCause, Printed,
       ServerIsClosed, Early, Working, Closing
  <1>4. MoreToAsk
    BY RequestsAre DEF Init, MoreToAsk, Working
  <1>5. ReportedOnce
    BY DEF Init, ReportedOnce
  <1>6. QED
    BY <1>2, <1>3, <1>4, <1>5 DEF InvocationInv

-----------------------------------------------------------------------------
(* The steps before the first reply.                                       *)

\* A check fails, and nobody has been asked, or it lets the command go on.
LEMMA CheckSteps ==
  ASSUME InvocationInv, Parse \/ ResolveServer \/ CheckArguments
  PROVE  InvocationInv'
  <1>1. /\ stage \in Early /\ UNCHANGED <<cmd, sessionVars, replies, fileVars, endVars>>
        /\ \/ Fail("usage") /\ cmd.fault # "none"
           \/ Goto("resolving") \/ Goto("checking")
           \/ cmd.fault = "none" /\ cmd.name = "version" /\ Done("value", "none")
           \/ cmd.fault = "none" /\ (Goto("probing") \/ Goto("asking"))
    BY DEF Parse, ResolveServer, CheckArguments, Early
  <1> USE <1>1, CommandStays DEF Fail, Goto, Done, sessionVars, fileVars, endVars, outcomeVars, InvocationInv
  <1>2. TypeOK'
    BY DEF TypeOK, Errors
  <1>3. AskedNobody'
    BY DEF AskedNobody, Early, Closing, Working
  <1>4. NothingToTell'
    BY DEF NothingToTell, Early, Working
  <1>5. MoreToAsk'
    BY RequestsAre DEF MoreToAsk, AskedNobody, AllWell, Early, Working
  <1>6. SpillsTheResult'
    BY DEF SpillsTheResult
  <1>7. FineIsDone'
    BY RequestsAre DEF FineIsDone, AllDone, AskedNobody, NothingToTell, Closing
  <1>8. ErrorHasCause'
    BY DEF ErrorHasCause, NothingToTell, Heard
  <1>9. ReportedOnce'
    BY DEF ReportedOnce, Early
  <1>10. Printed' /\ ServerIsClosed'
    BY DEF Printed, Shows, ServerIsClosed, Closing, AskedNobody, NothingToTell, Heard, Early, Working
  <1>11. QED
    BY <1>2, <1>3, <1>4, <1>5, <1>6, <1>7, <1>8, <1>9, <1>10

\* The session is opened, or the command fails for want of one.
LEMMA SessionSteps ==
  ASSUME InvocationInv,
         Probe \/ Seek \/ UseDaemon \/ NoDaemon \/ SpawnServer \/ SpawnFails \/ ShakeHands \/ HandshakeFails
  PROVE  InvocationInv'
  <1>1. /\ stage \in Working \ {"waiting"} /\ UNCHANGED <<cmd, replies, fileVars, endVars>>
        /\ sought' \in BOOLEAN /\ spawned' \in Nat
        /\ server' \in {"none", "starting", "up", "down", "dropped", "closed"}
        /\ \/ Goto("asking") /\ session' \in {"none", "daemon", "spawned"}
           \/ (Goto("dialling") \/ Goto("spawning") \/ Goto("shaking")) /\ session = "none" /\ session' = session
           \/ NoSession /\ session = "none" /\ session' = session
    <2>1. sought \in BOOLEAN /\ spawned \in Nat /\ session \in {"none", "daemon", "spawned"}
          /\ server \in {"none", "starting", "up", "down", "dropped", "closed"}
      BY DEF InvocationInv, TypeOK
    <2>2. stage \in {"dialling", "spawning", "shaking"} => session = "none"
      BY DEF InvocationInv, MoreToAsk
    <2>3. CASE Probe \/ Seek
      BY <2>1, <2>3 DEF Probe, Seek, Working, Goto
    <2>4. CASE UseDaemon \/ ShakeHands
      BY <2>1, <2>4 DEF UseDaemon, ShakeHands, Working
    <2>5. CASE NoDaemon \/ SpawnFails
      BY <2>1, <2>2, <2>5 DEF NoDaemon, SpawnFails, sessionVars, Working, Goto
    <2>6. CASE SpawnServer \/ HandshakeFails
      BY <2>1, <2>2, <2>6 DEF SpawnServer, HandshakeFails, Working
    <2>7. QED
      BY <2>3, <2>4, <2>5, <2>6
  <1>2. cmd.fault = "none" /\ error = "none" /\ AllWell
    BY <1>1 DEF InvocationInv, AskedNobody, NothingToTell, MoreToAsk, Early, Closing, Working
  <1> USE <1>1, CommandStays DEF NoSession, Fail, Goto, Done, fileVars, endVars, outcomeVars, InvocationInv
  <1>3. TypeOK'
    BY DEF TypeOK, Errors
  <1>4. AskedNobody'
    BY <1>2 DEF AskedNobody, Early, Closing, Working
  <1>5. NothingToTell'
    BY DEF NothingToTell, Early, Working
  <1>6. MoreToAsk'
    BY DEF MoreToAsk, AllWell, Working
  <1>7. SpillsTheResult'
    BY DEF SpillsTheResult
  <1>8. FineIsDone'
    BY <1>2 DEF FineIsDone, Closing
  <1>9. ErrorHasCause'
    BY <1>2 DEF ErrorHasCause, Heard
  <1>10. ReportedOnce'
    BY DEF ReportedOnce, Working
  <1>11. Printed' /\ ServerIsClosed'
    BY <1>2 DEF Printed, Shows, ServerIsClosed, Closing, AllWell, Heard
  <1>12. QED
    BY <1>3, <1>4, <1>5, <1>6, <1>7, <1>8, <1>9, <1>10, <1>11

LEMMA AskStep ==
  ASSUME InvocationInv, Ask
  PROVE  InvocationInv'
  <1>1. /\ stage = "asking" /\ session # "none" /\ UNCHANGED <<cmd, sessionVars, replies, fileVars, endVars>>
        /\ \/ Requests = << >> /\ Done("value", "none")
           \/ Requests # << >> /\ Goto("waiting")
    BY DEF Ask
  <1>2. cmd.fault = "none" /\ error = "none" /\ AllWell /\ texts = {} /\ written = {}
    BY <1>1 DEF InvocationInv, AskedNobody, NothingToTell, MoreToAsk, Early, Closing, Working
  <1> USE <1>1, CommandStays DEF Goto, Done, sessionVars, fileVars, endVars, outcomeVars, InvocationInv
  <1>3. TypeOK'
    BY DEF TypeOK, Errors
  <1>4. AskedNobody'
    BY <1>2 DEF AskedNobody, Early
  <1>5. NothingToTell'
    BY DEF NothingToTell, Early, Working
  <1>6. MoreToAsk'
    BY DEF MoreToAsk, AllWell, Working
  <1>7. SpillsTheResult'
    BY DEF SpillsTheResult
  <1>8. FineIsDone'
    BY <1>2 DEF FineIsDone, AllDone, MoreToAsk, TypeOK, Closing, Working
  <1>9. ErrorHasCause'
    BY <1>2 DEF ErrorHasCause, Heard
  <1>10. ReportedOnce'
    BY DEF ReportedOnce
  <1>11. Printed' /\ ServerIsClosed'
    BY <1>2 DEF Printed, Shows, Heard, AllWell, ServerIsClosed, Closing
  <1>12. QED
    BY <1>3, <1>4, <1>5, <1>6, <1>7, <1>8, <1>9, <1>10, <1>11

-----------------------------------------------------------------------------
(* A reply is taken.                                                       *)

\* A reply is the last, is followed by another request, or ends the command with
\* its error; whichever it is, the invariant holds after it.
LEMMA RepliesStep ==
  ASSUME InvocationInv, NEW r \in ReplyKinds, Hear(r),
         r = "failed" => cmd.name \in {"build", "buildParams", "formatCheck"}
  PROVE  InvocationInv'
  <1>1. /\ stage = "waiting" /\ Take(r) /\ replies' = Append(replies, r)
        /\ UNCHANGED <<cmd, sessionVars, endVars>>
    BY DEF Hear
  <1>2. /\ cmd.fault = "none" /\ error = "none" /\ output = "none" /\ AllWell
        /\ texts = {} /\ written = {} /\ tried = 0
        /\ session # "none" /\ Len(replies) < Len(Requests) /\ replies \in Seq(ReplyKinds)
    BY <1>1, RequestsAre DEF InvocationInv, AskedNobody, NothingToTell, MoreToAsk, TypeOK, Early, Closing, Working
  <1>3. /\ replies' \in Seq(ReplyKinds) /\ Len(replies') = Len(replies) + 1 /\ Len(replies') <= Len(Requests)
        /\ \A i \in DOMAIN replies' :
             (i = Len(replies') /\ replies'[i] = r) \/ (i \in DOMAIN replies /\ replies'[i] = "ok")
        /\ replies'[Len(replies')] = r /\ Len(replies') \in DOMAIN replies'
    BY <1>1, <1>2, RequestsAre DEF AllWell
  <1>4. Request \in Kinds /\ Request = Requests[Len(replies')]
    BY <1>2, <1>3, RequestsAre DEF Request
  <1>5. \/ /\ Request = "practices" /\ Len(replies') = Len(Requests)
           /\ Done("report", "none") /\ UNCHANGED fileVars
        \/ /\ cmd.raw /\ Request = "tool" /\ Len(replies') = Len(Requests) /\ r \in {"ok", "failed", "isError"}
           /\ Done("raw", IF r = "isError" THEN "tool" ELSE "none") /\ UNCHANGED fileVars
        \/ /\ r \notin {"ok", "failed"} /\ Request # "practices"
           /\ Fail(ErrorOf(r)) /\ UNCHANGED fileVars
        \/ /\ r = "ok" /\ Request # "practices" /\ Len(replies') < Len(Requests)
           /\ Goto("asking") /\ UNCHANGED fileVars
        \/ /\ r \in {"ok", "failed"} /\ Request # "practices" /\ (Request = "tool" => ~cmd.raw)
           /\ Len(replies') = Len(Requests) /\ Spilling(IF r = "failed" THEN "tool" ELSE "none")
        \/ Goto("panicking") /\ UNCHANGED fileVars
    <2>1. Request \in {"practices", "tool"} => Len(replies') = Len(Requests)
      BY <1>3, <1>4, RequestsAre
    <2>2. r = "failed" => Len(Requests) = 1 /\ Len(replies') = Len(Requests) /\ Request = "tool"
      BY <1>3, <1>4, <1>2, RequestsAre
    <2>3. CASE IsForgotten /\ Done("report", "none") /\ UNCHANGED fileVars
      BY <2>1, <2>3 DEF IsForgotten
    <2>4. CASE IsRaw(r) /\ Done("raw", ErrorOf(r)) /\ UNCHANGED fileVars
      BY <2>1, <2>4 DEF IsRaw, ErrorOf
    <2>5. CASE ~IsForgotten /\ ~IsRaw(r) /\ ErrorOf(r) # "none" /\ Failing(ErrorOf(r))
      BY <2>5 DEF IsForgotten, ErrorOf, Failing
    <2>6. CASE /\ ~IsForgotten /\ ~IsRaw(r) /\ ErrorOf(r) = "none"
               /\ Proceed(IF r = "failed" THEN "tool" ELSE "none") \/ Panicking
      <3>1. r \in {"ok", "failed"}
        BY <2>6 DEF ErrorOf, ReplyKinds
      <3>2. Request # "practices" /\ (Request = "tool" => ~cmd.raw)
        BY <2>6, <3>1 DEF IsForgotten, IsRaw
      <3>3. CASE Len(replies) + 1 < Len(Requests) /\ Goto("asking") /\ UNCHANGED fileVars
        BY <1>3, <2>2, <3>1, <3>2, <3>3
      <3>4. CASE Len(replies) + 1 = Len(Requests) /\ Spilling(IF r = "failed" THEN "tool" ELSE "none")
        BY <1>3, <3>1, <3>2, <3>4
      <3>5. QED
        BY <2>6, <3>3, <3>4 DEF Proceed, Panicking
    <2>7. QED
      BY <1>1, <2>3, <2>4, <2>5, <2>6 DEF Take
  <1>6. /\ r \notin {"ok", "failed"} => ErrorOf(r) \in Errors \ {"none"}
        /\ ErrorOf(r) = "tool" => r \in {"isError"}
        /\ ErrorOf(r) = "transport" => r \in {"serverError", "timeout", "closed"}
        /\ ErrorOf(r) = "usage" => r \in {"invalid", "unknown", "empty"}
    BY DEF ErrorOf, ReplyKinds, Errors
  <1>7. Requests' = Requests /\ Wanted' = Wanted
    BY <1>1, CommandStays
  <1>8. TypeOK'
    <2>1. Len(replies') <= 2
      <3>1. Len(replies) \in Nat /\ Len(Requests) \in Nat /\ Len(Requests) <= 2
        BY <1>2, RequestsAre
      <3>2. Len(replies) + 1 <= 2
        BY <1>2, <3>1
      <3>3. QED
        BY <1>3, <3>2
    <2>2. /\ stage' \in {"printing", "reporting", "asking", "spilling", "panicking"}
          /\ output' \in {"none", "value", "text", "raw", "report"} /\ error' \in Errors
          /\ written' \subseteq texts' /\ texts' \subseteq Texts(cmd.name) /\ tried' = tried
      BY <1>2, <1>5, <1>6 DEF Done, Fail, Goto, Spilling, fileVars, outcomeVars, Errors
    <2>3. QED
      BY <1>1, <1>3, <2>1, <2>2 DEF InvocationInv, TypeOK, sessionVars, endVars
  <1>9. AskedNobody' /\ NothingToTell'
    BY <1>1, <1>2, <1>5 DEF Done, Fail, Goto, Spilling, fileVars, outcomeVars, AskedNobody, NothingToTell,
       Early, Working
  <1>10. MoreToAsk'
    BY <1>1, <1>3, <1>5, <1>7 DEF Done, Fail, Goto, Spilling, MoreToAsk, AllWell, Working
  <1>11. SpillsTheResult'
    <2>1. CASE stage' = "spilling"
      <3>1. /\ r \in {"ok", "failed"} /\ (Request = "tool" => ~cmd.raw)
            /\ Len(replies') = Len(Requests) /\ error' = (IF r = "failed" THEN "tool" ELSE "none")
            /\ written' = {} /\ tried' = 0
        BY <1>2, <1>5, <2>1 DEF Done, Fail, Goto, Spilling
      <3>2. r = "failed" => Request = "tool"
        BY <1>3, <1>4, RequestsAre
      <3>3. error' = "none" => AllWell'
        BY <1>3, <3>1 DEF AllWell
      <3>4. cmd'.raw => ~Heard({"failed"})'
        BY <1>1, <1>3, <3>1, <3>2 DEF Heard
      <3>5. tried' <= Wanted'
        BY <1>1, <1>7, <3>1, CommandIs DEF InvocationInv, TypeOK
      <3>6. written' = Written(tried)'
        BY <3>1 DEF Written
      <3>7. QED
        BY <1>1, <1>2, <1>7, <3>1, <3>3, <3>4, <3>5, <3>6 DEF SpillsTheResult, sessionVars
    <2>2. QED
      BY <2>1 DEF SpillsTheResult
  <1>12. FineIsDone'
    <2>1. CASE Request = "practices" /\ Len(replies') = Len(Requests) /\ UNCHANGED fileVars
      BY <1>1, <1>2, <1>3, <1>4, <1>7, <2>1 DEF FineIsDone, AllDone, fileVars
    <2>2. CASE cmd.raw \/ stage' \in {"asking", "spilling", "panicking"} \/ error' # "none"
      BY <1>1, <1>2, <2>2 DEF FineIsDone, AllDone, Closing
    <2>3. QED
      BY <1>5, <1>6, <2>1, <2>2 DEF Fail, Goto, Spilling
  <1>13. ErrorHasCause'
    <2>1. ASSUME NEW kinds, r \in kinds PROVE Heard(kinds)'
      BY <1>3, <2>1 DEF Heard
    <2>2. /\ error' = "tool" => r \in {"failed", "isError"}
          /\ error' = "transport" => r \in {"serverError", "timeout", "closed"}
          /\ error' = "usage" => r \in {"invalid", "unknown", "empty"}
      BY <1>2, <1>5, <1>6 DEF Done, Fail, Goto, Spilling, outcomeVars
    <2>3. QED
      BY <2>1, <2>2 DEF ErrorHasCause
  <1>14. ReportedOnce'
    BY <1>1, <1>2, <1>5 DEF InvocationInv, ReportedOnce, Done, Fail, Goto, Spilling, endVars, outcomeVars
  <1>15. Printed' /\ ServerIsClosed'
    <2>1. stage' \in Closing => ~Heard({"failed"})'
      BY <1>1, <1>2, <1>3, <1>5 DEF Done, Fail, Goto, Spilling, Closing, Heard
    <2>2. stage' # "ended" /\ session' # "none"
      BY <1>1, <1>2, <1>5 DEF Done, Fail, Goto, Spilling, sessionVars
    <2>3. stage' = "printing" /\ Heard({"failed"})' => cmd.raw /\ output' = "raw"
      <3>1. Heard({"failed"})' => r = "failed"
        BY <1>3 DEF Heard
      <3>2. r = "failed" => Request = "tool"
        BY <1>3, <1>4, RequestsAre
      <3>3. QED
        BY <1>5, <3>1, <3>2 DEF Done, Fail, Goto, Spilling
    <2>4. QED
      BY <1>1, <2>1, <2>2, <2>3 DEF Printed, Shows, ServerIsClosed, sessionVars
  <1>16. QED
    BY <1>8, <1>9, <1>10, <1>11, <1>12, <1>13, <1>14, <1>15 DEF InvocationInv

LEMMA ReplySteps ==
  ASSUME InvocationInv, TimeOut \/ LoseSession \/ (\E r \in ReplyKinds : Reply(r))
  PROVE  InvocationInv'
  <1>1. ASSUME NEW r \in ReplyKinds, Reply(r) PROVE InvocationInv'
    <2>1. r = "failed" => cmd.name \in {"build", "buildParams", "formatCheck"}
      BY <1>1 DEF Reply, Possible
    <2>2. QED
      BY <1>1, <2>1, RepliesStep DEF Reply
  <1>2. "timeout" \in ReplyKinds /\ "closed" \in ReplyKinds
    BY DEF ReplyKinds
  <1>3. QED
    BY <1>1, <1>2, RepliesStep DEF TimeOut, LoseSession

-----------------------------------------------------------------------------
(* Output files, standard output, the report and the end.                  *)

LEMMA SpillStep ==
  ASSUME InvocationInv, Spill
  PROVE  InvocationInv'
  <1>1. /\ stage = "spilling" /\ tried < Wanted /\ tried' = tried + 1
        /\ written' = written \cup ({cmd.writes[tried + 1]} \cap texts)
        /\ UNCHANGED <<cmd, stage, sessionVars, replies, texts, outcomeVars, endVars>>
    BY DEF Spill
  <1>2. /\ cmd.writes \in Seq({"source", "template", "parameters"}) /\ Wanted \in 0 .. Len(cmd.writes)
        /\ tried \in Nat /\ Requests' = Requests /\ Wanted' = Wanted
    BY <1>1, CommandIs, CommandStays DEF InvocationInv, TypeOK
  <1> USE DEF InvocationInv, sessionVars, outcomeVars, endVars
  <1>3. TypeOK'
    <2>1. tried' \in 0 .. Len(cmd'.writes) /\ written' \subseteq texts'
      BY <1>1, <1>2 DEF TypeOK
    <2>2. QED
      BY <1>1, <2>1 DEF TypeOK
  <1>4. AskedNobody' /\ NothingToTell' /\ MoreToAsk' /\ FineIsDone' /\ Printed' /\ ServerIsClosed'
    BY <1>1, <1>2 DEF AskedNobody, NothingToTell, MoreToAsk, FineIsDone, Printed, ServerIsClosed,
       AllWell, Early, Working, Closing
  <1>5. SpillsTheResult'
    <2>1. written' = Written(tried)'
      <3>1. written = {cmd.writes[i] : i \in 1 .. tried} \cap texts
        BY <1>1 DEF SpillsTheResult, Written
      <3>2. {cmd.writes[i] : i \in 1 .. tried + 1}
              = {cmd.writes[i] : i \in 1 .. tried} \cup {cmd.writes[tried + 1]}
        <4>1. 1 .. tried + 1 = (1 .. tried) \cup {tried + 1}
          BY <1>2
        <4>2. QED
          BY <4>1
      <3>3. QED
        BY <1>1, <3>1, <3>2 DEF Written
    <2>2. QED
      BY <1>1, <1>2, <2>1 DEF SpillsTheResult, AllWell, Heard
  <1>6. ErrorHasCause'
    BY <1>1 DEF ErrorHasCause, SpillsTheResult, Heard
  <1>7. ReportedOnce'
    BY <1>1 DEF ReportedOnce
  <1>8. QED
    BY <1>3, <1>4, <1>5, <1>6, <1>7

\* The writing of the files ends, well or not.
LEMMA RenderSteps ==
  ASSUME InvocationInv, SpillFails \/ Render
  PROVE  InvocationInv'
  <1>1. /\ stage = "spilling" /\ UNCHANGED <<cmd, sessionVars, replies, fileVars, endVars>>
        /\ \/ tried < Wanted /\ Fail("usage")
           \/ tried = Wanted /\ Done(IF cmd.only \in texts THEN "text" ELSE "value", error)
    BY DEF SpillFails, Render
  <1>2. /\ cmd.writes \in Seq({"source", "template", "parameters"}) /\ Wanted \in Nat /\ tried \in Nat
        /\ (cmd.only = "none" => Wanted = Len(cmd.writes))
        /\ Requests' = Requests /\ Wanted' = Wanted
    BY <1>1, CommandIs, CommandStays DEF InvocationInv, TypeOK
  <1>3. cmd.fault = "none"
    BY <1>1 DEF InvocationInv, AskedNobody, Early, Closing
  <1> USE DEF InvocationInv, sessionVars, fileVars, endVars, Fail, Done
  <1>4. TypeOK'
    BY <1>1 DEF TypeOK, Errors
  <1>5. AskedNobody' /\ NothingToTell' /\ MoreToAsk' /\ SpillsTheResult'
    BY <1>1, <1>2, <1>3 DEF AskedNobody, NothingToTell, MoreToAsk, SpillsTheResult, AllWell, Early, Working
  <1>6. FineIsDone'
    <2>1. CASE error' = "none"
      <3>1. tried = Wanted /\ AllWell /\ Len(replies) = Len(Requests) /\ written = Written(Wanted)
        BY <1>1, <2>1 DEF SpillsTheResult
      <3>2. cmd.only = "none" => written = texts \cap Range(cmd.writes)
        BY <1>2, <3>1 DEF Written, Range
      <3>3. QED
        BY <1>1, <1>2, <1>3, <3>1, <3>2 DEF FineIsDone, AllDone, AllWell
    <2>2. QED
      BY <2>1 DEF FineIsDone
  <1>7. ErrorHasCause'
    BY <1>1, <1>2 DEF ErrorHasCause, Heard
  <1>8. ReportedOnce'
    BY <1>1 DEF ReportedOnce
  <1>9. Printed' /\ ServerIsClosed'
    <2>1. /\ session # "none" /\ stage' \in {"printing", "reporting"}
          /\ stage' = "reporting" => error' = "usage"
          /\ stage' = "printing" => output' = (IF cmd.only \in texts THEN "text" ELSE "value")
          /\ cmd.raw => ~Heard({"failed"})
      BY <1>1 DEF SpillsTheResult
    <2>2. UNCHANGED <<cmd, texts, replies, session>> /\ Heard({"failed"})' = Heard({"failed"})
      BY <1>1 DEF Heard
    <2>3. Shows(output)' \/ stage' # "printing"
      BY <2>1, <2>2, Zenon DEF Shows
    <2>4. QED
      BY <2>1, <2>3 DEF Printed, ServerIsClosed, Closing
  <1>10. QED
    BY <1>4, <1>5, <1>6, <1>7, <1>8, <1>9

LEMMA PrintSteps ==
  ASSUME InvocationInv, PrintOutput \/ PrintFails
  PROVE  InvocationInv'
  <1>1. /\ stage = "printing" /\ stage' = "reporting" /\ stdout' \in {output, "lost"}
        /\ UNCHANGED <<cmd, sessionVars, replies, fileVars, outcomeVars, reports, exit>>
    BY DEF PrintOutput, PrintFails, Goto
  <1> USE <1>1, CommandStays DEF InvocationInv, sessionVars, fileVars, outcomeVars
  <1>2. TypeOK'
    BY DEF TypeOK
  <1>3. AskedNobody' /\ NothingToTell' /\ MoreToAsk' /\ SpillsTheResult' /\ ServerIsClosed'
    BY DEF AskedNobody, NothingToTell, MoreToAsk, SpillsTheResult, ServerIsClosed, Early, Working, Closing
  <1>4. FineIsDone' /\ ErrorHasCause'
    BY DEF FineIsDone, AllDone, ErrorHasCause, Heard, Closing
  <1>5. ReportedOnce' /\ Printed'
    BY DEF ReportedOnce, Printed, Shows, Heard, Closing
  <1>6. QED
    BY <1>2, <1>3, <1>4, <1>5

\* The error is reported, the session closed, and the exit code the error's.
LEMMA EndSteps ==
  ASSUME InvocationInv, Report \/ Finish
  PROVE  InvocationInv'
  <1>1. /\ UNCHANGED <<cmd, session, sought, spawned, replies, fileVars, outcomeVars, stdout>>
        /\ \/ /\ stage = "reporting" /\ stage' = "finishing" /\ UNCHANGED <<server, exit>>
              /\ reports' = IF error = "none" THEN reports ELSE reports + 1
           \/ /\ stage = "finishing" /\ stage' = "ended" /\ UNCHANGED reports /\ exit' = ExitCode
              /\ server' = IF session = "spawned" /\ server = "up" THEN "closed" ELSE server
    BY DEF Report, Finish, Goto, sessionVars
  <1> USE <1>1, CommandStays DEF InvocationInv, fileVars, outcomeVars
  <1>2. TypeOK'
    <2>1. reports' \in 0 .. 1
      BY DEF ReportedOnce
    <2>2. ExitCode \in {"success", "usageError", "toolError", "transportError"}
      BY DEF TypeOK, Errors, ExitCode
    <2>3. exit' \in {"none", "success", "usageError", "toolError", "transportError", "panicked"}
      BY <2>2 DEF TypeOK
    <2>4. server' \in {"none", "starting", "up", "down", "dropped", "closed"}
      BY DEF TypeOK
    <2>5. QED
      BY <2>1, <2>3, <2>4 DEF TypeOK
  <1>3. AskedNobody'
    BY DEF AskedNobody, Early, Closing
  <1>4. NothingToTell' /\ MoreToAsk' /\ SpillsTheResult'
    BY DEF NothingToTell, MoreToAsk, SpillsTheResult, Early, Working
  <1>5. FineIsDone' /\ ErrorHasCause'
    BY DEF FineIsDone, AllDone, ErrorHasCause, ReportedOnce, Heard, Closing
  <1>6. ReportedOnce'
    <2>1. ExitCode' = ExitCode
      BY DEF ExitCode
    <2>2. reports' = (IF stage' \in {"finishing", "ended"} /\ error' # "none" THEN 1 ELSE 0)
      BY DEF ReportedOnce
    <2>3. /\ stage' # "panicking" /\ (stage' # "ended" => exit' = "none")
          /\ stage' = "ended" => exit' = ExitCode'
      BY <2>1 DEF ReportedOnce
    <2>4. QED
      BY <2>2, <2>3 DEF ReportedOnce
  <1>7. Printed' /\ ServerIsClosed'
    BY DEF Printed, Shows, ServerIsClosed, ReportedOnce, Heard, Closing
  <1>8. QED
    BY <1>2, <1>3, <1>4, <1>5, <1>6, <1>7

\* A command that panics ends with its own code and without its server.
LEMMA UnwindStep ==
  ASSUME InvocationInv, Unwind
  PROVE  InvocationInv'
  <1>1. /\ UNCHANGED <<cmd, session, sought, spawned, replies, fileVars, outcomeVars, stdout, reports>>
        /\ stage = "panicking" /\ stage' = "ended" /\ exit' = "panicked"
        /\ server' = IF session = "spawned" /\ server = "up" THEN "dropped" ELSE server
    BY DEF Unwind, Goto
  <1> USE <1>1, CommandStays DEF InvocationInv, fileVars, outcomeVars
  <1>2. TypeOK'
    BY DEF TypeOK
  <1>3. AskedNobody'
    BY DEF AskedNobody, Early, Closing
  <1>4. NothingToTell' /\ MoreToAsk' /\ SpillsTheResult'
    BY DEF NothingToTell, MoreToAsk, SpillsTheResult, Early, Working
  <1>5. FineIsDone' /\ ErrorHasCause' /\ Printed' /\ ServerIsClosed'
    BY DEF FineIsDone, ErrorHasCause, Heard, Printed, ServerIsClosed
  <1>6. ReportedOnce'
    BY DEF ReportedOnce
  <1>7. QED
    BY <1>2, <1>3, <1>4, <1>5, <1>6

\* A server that dies is none that is left.
LEMMA ServerStep ==
  ASSUME InvocationInv, ServerDies \/ UNCHANGED vars
  PROVE  InvocationInv'
  <1>1. /\ server' = server \/ (server = "up" /\ server' = "down")
        /\ UNCHANGED <<cmd, stage, session, sought, spawned, replies, fileVars, outcomeVars, endVars>>
    BY DEF ServerDies, vars, sessionVars
  <1> USE <1>1, CommandStays DEF InvocationInv, fileVars, outcomeVars, endVars
  <1>2. TypeOK'
    BY DEF TypeOK
  <1>3. AskedNobody' /\ NothingToTell' /\ MoreToAsk' /\ SpillsTheResult' /\ ServerIsClosed'
    BY DEF AskedNobody, NothingToTell, MoreToAsk, SpillsTheResult, ServerIsClosed, AllWell, Written, Heard
  <1>4. FineIsDone' /\ ErrorHasCause' /\ Printed'
    BY DEF FineIsDone, AllDone, ErrorHasCause, Printed, Shows, Heard
  <1>5. ReportedOnce'
    BY DEF ReportedOnce, ExitCode
  <1>6. QED
    BY <1>2, <1>3, <1>4, <1>5

-----------------------------------------------------------------------------
THEOREM InvocationInvariance == Spec => []InvocationInv
  <1>1. InvocationInv /\ [Next]_vars => InvocationInv'
    BY CheckSteps, SessionSteps, AskStep, ReplySteps, SpillStep, RenderSteps, PrintSteps, EndSteps,
       UnwindStep, ServerStep DEF Next, Command, Server
  <1>2. QED
    BY <1>1, InvInit, PTL DEF Spec

\* Every variable of a command keeps its type; the requests are at most two.
THEOREM TypesAreKept == Spec => []TypeOK
  BY InvocationInvariance, PTL DEF InvocationInv

\* However the checks are ordered, a command line with a fault looks for no
\* daemon, starts no server and sends no request.
THEOREM FaultsAskNobody == Spec => []UsageErrorsAskNobody
  <1>1. InvocationInv => UsageErrorsAskNobody
    BY DEF InvocationInv, AskedNobody, UsageErrorsAskNobody
  <1>2. QED
    BY <1>1, InvocationInvariance, PTL

\* The process has ended where it has an exit code.
LEMMA EndedIsEnded ==
  ASSUME InvocationInv
  PROVE  /\ Ended <=> stage = "ended"
         /\ Ended => exit \in {ExitCode, "panicked"} /\ stage \in Closing
  <1>1. ExitCode # "none" /\ ExitCode # "panicked"
    BY DEF ExitCode, InvocationInv, TypeOK, Errors
  <1>2. QED
    BY <1>1 DEF InvocationInv, ReportedOnce, Ended, Closing

\* Each exit code names what has occurred, across both requests and both files:
\* 0 that all was answered well and written where files were to be written, the
\* others their cause, with one report, also where the command prints a result.
THEOREM ExitIsExplained == Spec => []ExitNamesTheCause
  <1>1. InvocationInv => ExitNamesTheCause
    <2> SUFFICES ASSUME InvocationInv PROVE ExitNamesTheCause
      OBVIOUS
    <2>1. CASE exit \in {"none", "panicked"}
      BY <2>1 DEF ExitNamesTheCause
    <2>2. CASE exit \notin {"none", "panicked"}
      <3>1. exit = ExitCode /\ stage = "ended" /\ error \in Errors
        BY <2>2, EndedIsEnded DEF InvocationInv, TypeOK, Ended
      <3>2. /\ exit = "success" <=> error = "none"
            /\ exit = "toolError" => error = "tool"
            /\ exit = "transportError" => error = "transport"
            /\ exit = "usageError" => error = "usage"
        BY <3>1 DEF ExitCode, Errors
      <3>3. reports = (IF exit = "success" THEN 0 ELSE 1)
        BY <3>1, <3>2 DEF InvocationInv, ReportedOnce
      <3>4. exit = "success" => cmd.fault = "none" /\ AllDone
        BY <2>2, <3>1, <3>2 DEF InvocationInv, FineIsDone, Closing
      <3>5. QED
        BY <3>2, <3>3, <3>4 DEF InvocationInv, ErrorHasCause, ExitNamesTheCause, AllDone
    <2>3. QED
      BY <2>1, <2>2
  <1>2. QED
    BY <1>1, InvocationInvariance, PTL

\* What is found reaches standard output beside the error, but for the ways that
\* FindingsArePrinted names.
THEOREM FindingsReachTheUser == Spec => []FindingsArePrinted
  <1>1. InvocationInv => FindingsArePrinted
    <2> SUFFICES ASSUME InvocationInv, exit \notin {"none", "usageError", "panicked"}, stdout # "lost"
                 PROVE  Shows(stdout)
      BY DEF FindingsArePrinted, Shows
    <2>1. exit = ExitCode /\ stage \in Closing
      BY EndedIsEnded DEF Ended
    <2>2. error # "usage"
      BY <2>1 DEF ExitCode
    <2>3. QED
      BY <2>1, <2>2 DEF InvocationInv, Printed
  <1>2. QED
    BY <1>1, InvocationInvariance, PTL

\* A server that the command started and used is closed on every path to its end.
THEOREM ServersAreClosed == Spec => []NoServerIsLeft
  <1>1. InvocationInv => NoServerIsLeft
    BY EndedIsEnded DEF InvocationInv, ServerIsClosed, NoServerIsLeft
  <1>2. QED
    BY <1>1, InvocationInvariance, PTL
=============================================================================
