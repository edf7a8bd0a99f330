---------------------------- MODULE CallsProofs ----------------------------
(***************************************************************************)
(* Proofs about Calls, for any finite set of clients and any number of     *)
(* lines: what a line of output says, how the exit code follows from the   *)
(* lines, and what the daemon's count of calls means.                      *)
(***************************************************************************)
EXTENDS Calls, FiniteSetTheorems, TLAPS

CallsOf(set) == {a.call : a \in set}

\* A client waits at a line with a call; it ends with a code that its count
\* of failures gives, or aborts.
InPlace(c) ==
    /\ phase[c] = "waiting" => next[c] \in Index /\ input[c][next[c]] = "call"
    /\ exit[c] # "none" => phase[c] = "ended"
    /\ exit[c] = "success" => next[c] = Lines + 1 /\ failures[c] = 0
    /\ exit[c] = "toolError" => failures[c] > 0

\* The count of failures against the lines printed.
FailuresShow(c) ==
    /\ failures[c] < next[c]
    /\ failures[c] = 0 <=> \A k \in 1 .. Len(out[c]) : out[c][k].verdict = "ok"

LinesInv ==
    /\ TypeOK
    /\ OneResultEach
    /\ \A c \in Clients : InPlace(c) /\ FailuresShow(c)

\* A call is at one place at a time.
OnePlace ==
    /\ requests \cap (pending \cup CallsOf(answers) \cup AnsweredCalls) = {}
    /\ pending \cap (CallsOf(answers) \cup AnsweredCalls) = {}

\* All that was ever forwarded and not lost.
Forwarded == pending \cup CallsOf(answers) \cup AnsweredCalls

CountInv ==
    /\ requests \cup Forwarded \subseteq SentCalls
    /\ OnePlace
    /\ Cardinality(Forwarded) <= calls
    /\ calls + Cardinality(requests) <= Cardinality(SentCalls)

\* The sequence of lines after one more, at the index of its end and before.
LEMMA OneMore ==
  ASSUME NEW s \in Seq(Line), NEW e \in Line
  PROVE  /\ Append(s, e) \in Seq(Line)
         /\ Len(s) \in Nat /\ Len(Append(s, e)) = Len(s) + 1
         /\ Append(s, e)[Len(s) + 1] = e
         /\ \A k \in 1 .. Len(s) : Append(s, e)[k] = s[k] /\ s[k] \in Line
  OBVIOUS

\* A printed line keeps what holds of the lines: it is about the line the
\* client is at, and is counted if it is a failure.
LEMMA Printed ==
  ASSUME LinesInv, NEW c \in Clients, NEW v \in Verdicts,
         PrintLine(c, v), UNCHANGED <<input, exit>>,
         next[c] \in Index, input[c][next[c]] # "blank", phase[c] # "ended"
  PROVE  /\ next' \in [Clients -> 1 .. Lines + 1] /\ phase' \in [Clients -> {"ready", "waiting", "ended"}]
         /\ out' \in [Clients -> Seq(Line)] /\ failures' \in [Clients -> 0 .. Lines]
         /\ OneResultEach'
         /\ \A b \in Clients : InPlace(b)' /\ FailuresShow(b)'
  <1> USE LinesAssumption DEF LinesInv, TypeOK
  <1> DEFINE line == [index |-> next[c], verdict |-> v]
  <1>1. /\ out' = [out EXCEPT ![c] = Append(@, line)]
        /\ failures' = [failures EXCEPT ![c] = IF v = "ok" THEN @ ELSE @ + 1]
        /\ next' = [next EXCEPT ![c] = @ + 1]
        /\ phase' = [phase EXCEPT ![c] = "ready"]
    BY DEF PrintLine
  <1>2. line \in Line
    BY DEF Line
  <1>3. /\ out[c] \in Seq(Line)
        /\ out'[c] = Append(out[c], line) /\ out'[c] \in Seq(Line)
        /\ Len(out[c]) \in Nat /\ Len(out'[c]) = Len(out[c]) + 1
        /\ out'[c][Len(out[c]) + 1] = line
        /\ \A k \in 1 .. Len(out[c]) : out'[c][k] = out[c][k] /\ out[c][k] \in Line
    BY <1>1, <1>2, OneMore
  <1>4. /\ next[c] \in 1 .. Lines /\ next'[c] = next[c] + 1
        /\ failures[c] \in 0 .. Lines /\ failures'[c] = IF v = "ok" THEN failures[c] ELSE failures[c] + 1
        /\ phase'[c] = "ready" /\ exit'[c] = "none"
    BY <1>1 DEF Index, InPlace
  <1>5. /\ next' \in [Clients -> 1 .. Lines + 1] /\ phase' \in [Clients -> {"ready", "waiting", "ended"}]
        /\ out' \in [Clients -> Seq(Line)]
    <2>1. next[c] + 1 \in 1 .. Lines + 1
      BY <1>4
    <2>2. QED
      BY <2>1, <1>1, <1>3
  <1>6. failures' \in [Clients -> 0 .. Lines]
    <2>1. failures'[c] \in 0 .. Lines
      BY <1>4 DEF FailuresShow
    <2>2. QED
      BY <2>1, <1>1
  <1>8. OneResultEach'
    <2> SUFFICES ASSUME NEW b \in Clients
                 PROVE  /\ {out'[b][k].index : k \in 1 .. Len(out'[b])}
                             = {i \in 1 .. next'[b] - 1 : input[b][i] # "blank"}
                        /\ \A j, k \in 1 .. Len(out'[b]) : j < k => out'[b][j].index < out'[b][k].index
      BY DEF OneResultEach
    <2>1. CASE b # c
      BY <1>1, <2>1 DEF OneResultEach
    <2>2. CASE b = c
      <3>1. {out'[c][k].index : k \in 1 .. Len(out'[c])} = {out[c][k].index : k \in 1 .. Len(out[c])} \cup {next[c]}
        <4>1. {out'[c][k].index : k \in 1 .. Len(out'[c])} \subseteq {out[c][k].index : k \in 1 .. Len(out[c])} \cup {next[c]}
          BY <1>3
        <4>2. {out[c][k].index : k \in 1 .. Len(out[c])} \subseteq {out'[c][k].index : k \in 1 .. Len(out'[c])}
          <5> SUFFICES ASSUME NEW k \in 1 .. Len(out[c])
                       PROVE  out[c][k].index \in {out'[c][j].index : j \in 1 .. Len(out'[c])}
            OBVIOUS
          <5>1. k \in 1 .. Len(out'[c]) /\ out'[c][k] = out[c][k]
            BY <1>3
          <5>2. QED
            BY <5>1
        <4>3. next[c] \in {out'[c][k].index : k \in 1 .. Len(out'[c])}
          <5>1. Len(out[c]) + 1 \in 1 .. Len(out'[c]) /\ out'[c][Len(out[c]) + 1].index = next[c]
            BY <1>3
          <5>2. QED
            BY <5>1
        <4>4. QED
          BY <4>1, <4>2, <4>3
      <3>2. {i \in 1 .. next'[c] - 1 : input[c][i] # "blank"} = {i \in 1 .. next[c] - 1 : input[c][i] # "blank"} \cup {next[c]}
        BY <1>4
      <3>3. {out[c][k].index : k \in 1 .. Len(out[c])} = {i \in 1 .. next[c] - 1 : input[c][i] # "blank"}
        BY DEF OneResultEach
      <3>4. \A j, k \in 1 .. Len(out'[c]) : j < k => out'[c][j].index < out'[c][k].index
        <4> SUFFICES ASSUME NEW j \in 1 .. Len(out'[c]), NEW k \in 1 .. Len(out'[c]), j < k
                     PROVE  out'[c][j].index < out'[c][k].index
          OBVIOUS
        <4>1. j \in 1 .. Len(out[c]) /\ out'[c][j] = out[c][j]
          BY <1>3
        <4>2. CASE k \in 1 .. Len(out[c])
          BY <1>3, <4>1, <4>2 DEF OneResultEach
        <4>3. CASE k = Len(out[c]) + 1
          <5>1. out[c][j].index \in {i \in 1 .. next[c] - 1 : input[c][i] # "blank"}
            BY <3>3, <4>1
          <5>2. out'[c][k].index = next[c]
            BY <1>3, <4>3
          <5> HIDE DEF LinesInv, TypeOK
          <5>3. out[c][j].index < next[c]
            <6>1. out[c][j].index \in 1 .. next[c] - 1 /\ next[c] \in Nat
              BY <1>4, <5>1
            <6>2. QED
              BY <6>1
          <5>4. QED
            BY <4>1, <5>2, <5>3
        <4>4. QED
          BY <1>3, <4>2, <4>3
      <3>5. {out'[c][k].index : k \in 1 .. Len(out'[c])} = {i \in 1 .. next'[c] - 1 : input[c][i] # "blank"}
        BY <3>1, <3>2, <3>3, Zenon
      <3> HIDE DEF LinesInv, TypeOK
      <3>6. QED
        BY <2>2, <3>4, <3>5, Zenon
    <2>3. QED
      BY <2>1, <2>2
  <1>9. ASSUME NEW b \in Clients PROVE InPlace(b)'
    <2>1. CASE b # c
      BY <1>1, <2>1 DEF InPlace
    <2>2. CASE b = c
      BY <1>4, <2>2 DEF InPlace
    <2>3. QED
      BY <2>1, <2>2
  <1>10. ASSUME NEW b \in Clients PROVE FailuresShow(b)'
    <2>1. CASE b # c
      BY <1>1, <2>1 DEF FailuresShow
    <2>2. CASE b = c
      <3>1. (\A k \in 1 .. Len(out'[c]) : out'[c][k].verdict = "ok")
              <=> (\A k \in 1 .. Len(out[c]) : out[c][k].verdict = "ok") /\ v = "ok"
        <4>1. \A k \in 1 .. Len(out'[c]) : k \in 1 .. Len(out[c]) \/ k = Len(out[c]) + 1
          BY <1>3
        <4>2. Len(out[c]) + 1 \in 1 .. Len(out'[c]) /\ \A k \in 1 .. Len(out[c]) : k \in 1 .. Len(out'[c])
          BY <1>3
        <4>3. QED
          BY <1>3, <4>1, <4>2
      <3>2. failures'[c] = 0 <=> failures[c] = 0 /\ v = "ok"
        BY <1>4
      <3>3. failures'[c] < next'[c]
        BY <1>4 DEF FailuresShow
      <3>4. QED
        BY <2>2, <3>1, <3>2, <3>3 DEF FailuresShow
    <2>3. QED
      BY <2>1, <2>2
  <1>11. QED
    BY <1>5, <1>6, <1>8, <1>9, <1>10

\* A step that prints nothing leaves what holds of the lines.
LEMMA Quiet ==
  ASSUME LinesInv, UNCHANGED <<input, next, out, failures>>,
         TypeOK', \A c \in Clients : InPlace(c)'
  PROVE  LinesInv'
  <1>1. OneResultEach' /\ \A c \in Clients : FailuresShow(c)'
    BY DEF LinesInv, OneResultEach, FailuresShow
  <1>2. QED
    BY <1>1 DEF LinesInv

\* The daemon and the server change nothing of a client, and make no answer
\* but to the call it is for.
LEMMA ProxyLines ==
  ASSUME LinesInv, UNCHANGED clientVars,
         requests' \subseteq requests, pending' \subseteq pending \cup requests, calls' \in Nat,
         daemon' \in {"up", "down"}, upstream' \in {"up", "down"},
         answers' \subseteq answers \cup {Respond(r, v) : r \in pending \cup requests, v \in Verdicts}
  PROVE  LinesInv'
  <1>1. \A r \in Call, v \in Verdicts : Respond(r, v) \in Answer
    BY DEF Respond, Answer
  <1>2. pending \subseteq Call /\ requests \subseteq Call /\ answers \subseteq Answer
    BY DEF LinesInv, TypeOK
  <1>3. answers' \subseteq Answer
    BY <1>1, <1>2
  <1>4. TypeOK'
    BY <1>2, <1>3 DEF LinesInv, TypeOK, clientVars
  <1>5. \A c \in Clients : InPlace(c)'
    BY DEF LinesInv, InPlace, clientVars
  <1>6. QED
    BY <1>4, <1>5, Quiet DEF clientVars

LEMMA ForwardLines == ASSUME LinesInv, NEW r \in requests, Forward(r) PROVE LinesInv'
  <1>1. calls' \in Nat
    BY DEF LinesInv, TypeOK, Forward
  <1>2. pending' \subseteq pending \cup requests
    BY DEF Forward
  <1>3. answers' \subseteq answers \cup {Respond(q, v) : q \in pending \cup requests, v \in Verdicts}
    BY DEF Forward, Verdicts
  <1>4. /\ UNCHANGED <<clientVars, daemon, upstream>> /\ requests' \subseteq requests
        /\ daemon' \in {"up", "down"} /\ upstream' \in {"up", "down"}
    BY DEF Forward, LinesInv, TypeOK
  <1>5. QED
    BY <1>1, <1>2, <1>3, <1>4, ProxyLines

LEMMA AnswerLines == ASSUME LinesInv, NEW r \in pending, AnswerCall(r) PROVE LinesInv'
  <1>1. answers' \subseteq answers \cup {Respond(q, v) : q \in pending \cup requests, v \in Verdicts}
    BY DEF AnswerCall, Verdicts
  <1>2. QED
    BY <1>1, ProxyLines DEF AnswerCall, LinesInv, TypeOK

LEMMA LossLines == ASSUME LinesInv, UpstreamDies \/ DaemonDies PROVE LinesInv'
  <1>1. answers' \subseteq answers \cup {Respond(q, v) : q \in pending \cup requests, v \in Verdicts}
    BY DEF UpstreamDies, DaemonDies, Verdicts
  <1>2. /\ UNCHANGED <<clientVars, calls>> /\ requests' \subseteq requests /\ pending' \subseteq pending
        /\ daemon' \in {"up", "down"} /\ upstream' \in {"up", "down"} /\ calls' \in Nat
    BY DEF UpstreamDies, DaemonDies, LinesInv, TypeOK
  <1>3. QED
    BY <1>1, <1>2, ProxyLines

LEMMA DropLines == ASSUME LinesInv, NEW a \in answers, DropLate(a) PROVE LinesInv'
  BY ProxyLines DEF DropLate, LinesInv, TypeOK

\* The steps of a client that print a line.
LEMMA PrintLines ==
  ASSUME LinesInv, NEW c \in Clients,
         \/ RefuseLine(c) \/ TimeOut(c) \/ LoseSession(c)
         \/ \E a \in answers : Receive(c, a)
  PROVE  LinesInv'
  <1>1. ASSUME NEW v \in Verdicts, PrintLine(c, v),
               UNCHANGED <<input, exit, requests, pending, calls, daemon, upstream>>,
               answers' \subseteq answers,
               phase[c] = "waiting" \/ AtLine(c, "bad") \/ AtLine(c, "call")
        PROVE  LinesInv'
    <2>1. next[c] \in Index /\ input[c][next[c]] # "blank" /\ phase[c] # "ended"
      BY <1>1 DEF LinesInv, InPlace, AtLine
    <2>2. /\ next' \in [Clients -> 1 .. Lines + 1] /\ phase' \in [Clients -> {"ready", "waiting", "ended"}]
          /\ out' \in [Clients -> Seq(Line)] /\ failures' \in [Clients -> 0 .. Lines]
          /\ OneResultEach'
          /\ \A b \in Clients : InPlace(b)' /\ FailuresShow(b)'
      BY <1>1, <2>1, Printed
    <2>4. TypeOK'
      BY <1>1, <2>2 DEF LinesInv, TypeOK
    <2>5. QED
      BY <2>2, <2>4 DEF LinesInv
  <1>2. CASE RefuseLine(c)
    BY <1>1, <1>2 DEF RefuseLine, daemonVars, Verdicts
  <1>3. CASE TimeOut(c)
    BY <1>1, <1>3 DEF TimeOut, daemonVars, Verdicts
  <1>4. CASE LoseSession(c)
    BY <1>1, <1>4 DEF LoseSession, daemonVars, Verdicts
  <1>5. ASSUME NEW a \in answers, Receive(c, a) PROVE LinesInv'
    <2>1. a.verdict \in Verdicts
      BY <1>5 DEF LinesInv, TypeOK, Answer
    <2>2. QED
      BY <1>1, <1>5, <2>1 DEF Receive
  <1>6. QED
    BY <1>2, <1>3, <1>4, <1>5

\* The steps of a client that print none.
LEMMA SilentLines ==
  ASSUME LinesInv, NEW c \in Clients, SkipBlank(c) \/ SendCall(c) \/ End(c) \/ Abort(c)
  PROVE  LinesInv'
  <1> USE DEF LinesInv
  <1>1. CASE SkipBlank(c)
    <2>1. /\ next[c] \in 1 .. Lines /\ next' = [next EXCEPT ![c] = @ + 1] /\ input[c][next[c]] = "blank"
          /\ phase[c] = "ready" /\ UNCHANGED <<input, phase, out, failures, exit, daemonVars>>
      BY <1>1 DEF SkipBlank, AtLine, Index
    <2>2. next[c] + 1 \in 1 .. Lines + 1 /\ next'[c] = next[c] + 1
      BY <2>1, LinesAssumption DEF TypeOK
    <2>3. TypeOK'
      BY <2>1, <2>2 DEF TypeOK, daemonVars
    <2>4. OneResultEach'
      <3>1. \A b \in Clients : {i \in 1 .. next'[b] - 1 : input[b][i] # "blank"}
                                 = {i \in 1 .. next[b] - 1 : input[b][i] # "blank"}
        BY <2>1, <2>2 DEF TypeOK
      <3>2. QED
        BY <2>1, <3>1 DEF OneResultEach
    <2>5. ASSUME NEW b \in Clients PROVE InPlace(b)' /\ FailuresShow(b)'
      <3>1. /\ InPlace(b) /\ FailuresShow(b) /\ UNCHANGED <<input, phase, out, failures, exit>>
            /\ next[b] \in Nat /\ failures[b] \in Nat
            /\ b # c => next'[b] = next[b]
        BY <2>1, LinesAssumption DEF TypeOK
      <3>2. CASE b # c
        BY <3>1, <3>2 DEF InPlace, FailuresShow
      <3>3. CASE b = c
        <4>1. exit[c] \notin {"success", "toolError"} /\ phase'[c] = "ready"
          BY <2>1, <3>1, <3>3 DEF InPlace
        <4>2. exit[c] = "none"
          BY <2>1, <3>1, <3>3 DEF InPlace
        <4>3. QED
          BY <2>2, <3>1, <3>3, <4>1, <4>2 DEF InPlace, FailuresShow
      <3>4. QED
        BY <3>2, <3>3
    <2>6. QED
      BY <2>3, <2>4, <2>5
  <1>2. CASE SendCall(c)
    <2>1. TypeOK'
      BY <1>2 DEF SendCall, AtLine, TypeOK, Call, Current
    <2>2. \A b \in Clients : InPlace(b)'
      BY <1>2 DEF SendCall, AtLine, TypeOK, InPlace
    <2>3. QED
      BY <1>2, <2>1, <2>2, Quiet DEF SendCall
  <1>3. CASE End(c)
    <2>1. TypeOK'
      BY <1>3 DEF End, TypeOK, daemonVars
    <2>2. \A b \in Clients : InPlace(b)'
      BY <1>3, LinesAssumption DEF End, TypeOK, InPlace
    <2>3. QED
      BY <1>3, <2>1, <2>2, Quiet DEF End
  <1>4. CASE Abort(c)
    <2>1. TypeOK'
      BY <1>4 DEF Abort, TypeOK, daemonVars
    <2>2. \A b \in Clients : InPlace(b)'
      BY <1>4 DEF Abort, TypeOK, InPlace
    <2>3. QED
      BY <1>4, <2>1, <2>2, Quiet DEF Abort
  <1>5. QED
    BY <1>1, <1>2, <1>3, <1>4

LEMMA LinesInit == Init => LinesInv
  <1> SUFFICES ASSUME Init PROVE LinesInv
    OBVIOUS
  <1>1. TypeOK
    BY LinesAssumption DEF Init, TypeOK
  <1>3. OneResultEach
    BY DEF Init, OneResultEach
  <1>4. \A c \in Clients : InPlace(c) /\ FailuresShow(c)
    BY DEF Init, InPlace, FailuresShow
  <1>5. QED
    BY <1>1, <1>3, <1>4 DEF LinesInv

LEMMA LinesNext == LinesInv /\ [Next]_vars => LinesInv'
  <1> SUFFICES ASSUME LinesInv, [Next]_vars PROVE LinesInv'
    OBVIOUS
  <1>1. ASSUME NEW c \in Clients, Client(c) \/ Abort(c) PROVE LinesInv'
    BY <1>1, PrintLines, SilentLines DEF Client
  <1>2. CASE Proxy
    BY <1>2, ForwardLines, AnswerLines, DropLines DEF Proxy
  <1>3. CASE UpstreamDies \/ DaemonDies
    BY <1>3, LossLines
  <1>4. CASE UNCHANGED vars
    BY <1>4, ProxyLines DEF vars, clientVars, daemonVars, LinesInv, TypeOK
  <1>5. QED
    BY <1>1, <1>2, <1>3, <1>4 DEF Next

THEOREM LinesInvariance == Spec => []LinesInv
  BY LinesInit, LinesNext, PTL DEF Spec

(* Every variable keeps its type; in particular no batch counts more       *)
(* failures than it has lines (batch).                                     *)
THEOREM CallsTypeCorrect == Spec => []TypeOK
  BY LinesInvariance, PTL DEF LinesInv

(* One result line for each line of input that is not blank, in order      *)
(* (batch).                                                                *)
THEOREM ResultsInOrder == Spec => []OneResultEach
  BY LinesInvariance, PTL DEF LinesInv

(* The exit code of a batch agrees with the lines it has printed (batch).  *)
THEOREM ExitIsTold == Spec => []ExitTellsFailure
  <1>1. LinesInv => ExitTellsFailure
    <2> SUFFICES ASSUME LinesInv, NEW c \in Clients
                 PROVE  LET ok == {out[c][k].index : k \in {j \in 1 .. Len(out[c]) : out[c][j].verdict = "ok"}}
                        IN  /\ exit[c] = "success" => \A i \in Index : input[c][i] = "blank" \/ i \in ok
                            /\ exit[c] = "toolError" => \E k \in 1 .. Len(out[c]) : out[c][k].index \notin ok
      BY DEF ExitTellsFailure
    <2> DEFINE ok == {out[c][k].index : k \in {j \in 1 .. Len(out[c]) : out[c][j].verdict = "ok"}}
    <2>1. /\ InPlace(c) /\ FailuresShow(c) /\ TypeOK
          /\ {out[c][k].index : k \in 1 .. Len(out[c])} = {i \in 1 .. next[c] - 1 : input[c][i] # "blank"}
          /\ \A j, k \in 1 .. Len(out[c]) : j < k => out[c][j].index < out[c][k].index
      BY DEF LinesInv, OneResultEach
    <2>2. ASSUME exit[c] = "success", NEW i \in Index, input[c][i] # "blank" PROVE i \in ok
      <3>1. i \in {out[c][k].index : k \in 1 .. Len(out[c])}
        BY <2>1, <2>2, LinesAssumption DEF InPlace, Index
      <3>2. \A k \in 1 .. Len(out[c]) : out[c][k].verdict = "ok"
        BY <2>1, <2>2 DEF InPlace, FailuresShow
      <3>3. QED
        BY <3>1, <3>2
    <2>3. ASSUME exit[c] = "toolError" PROVE \E k \in 1 .. Len(out[c]) : out[c][k].index \notin ok
      <3>1. PICK k \in 1 .. Len(out[c]) : out[c][k].verdict # "ok"
        BY <2>1, <2>3 DEF InPlace, FailuresShow, TypeOK
      <3>2. ASSUME NEW j \in 1 .. Len(out[c]), out[c][j].verdict = "ok" PROVE out[c][j].index # out[c][k].index
        <4>1. out[c] \in Seq(Line) /\ j # k /\ j \in Nat /\ k \in Nat
          BY <2>1, <3>1, <3>2 DEF TypeOK
        <4>2. out[c][j].index \in Nat /\ out[c][k].index \in Nat
          <5>1. out[c][j] \in Line /\ out[c][k] \in Line
            BY <4>1
          <5>2. QED
            BY <5>1, LinesAssumption DEF Line, Index
        <4>3. j < k \/ k < j
          BY <4>1
        <4>4. QED
          BY <2>1, <4>2, <4>3
      <3>3. QED
        BY <3>2
    <2>4. QED
      BY <2>2, <2>3
  <1>2. QED
    BY <1>1, LinesInvariance, PTL

-----------------------------------------------------------------------------
(* The count of calls.                                                     *)

\* The sets in the count are of calls, and finite.
LEMMA FiniteCalls ==
  ASSUME NEW S \in SUBSET Call
  PROVE  /\ IsFiniteSet(S) /\ Cardinality(S) \in Nat
         /\ \A T \in SUBSET S : Cardinality(T) \in Nat /\ Cardinality(T) <= Cardinality(S)
         /\ \A r : Cardinality(S \cup {r}) = IF r \in S THEN Cardinality(S) ELSE Cardinality(S) + 1
         /\ \A r : Cardinality(S \ {r}) = IF r \in S THEN Cardinality(S) - 1 ELSE Cardinality(S)
  <1>1. IsFiniteSet(1 .. Lines)
    BY LinesAssumption, FS_Interval
  <1>2. IsFiniteSet(Call)
    BY <1>1, LinesAssumption, FS_Product DEF Call, Index
  <1>3. IsFiniteSet(S)
    BY <1>2, FS_Subset
  <1>4. \A T \in SUBSET S : IsFiniteSet(T) /\ Cardinality(T) <= Cardinality(S)
    BY <1>3, FS_Subset
  <1>5. QED
    BY <1>3, <1>4, FS_CardinalityType, FS_AddElement, FS_RemoveElement

\* No line that a client has come to is ever one it has not.
LEMMA SentGrows ==
  ASSUME LinesInv, LinesInv', UNCHANGED input,
         \A b \in Clients : \/ next'[b] > next[b]
                            \/ next'[b] = next[b] /\ (phase[b] # "ready" => phase'[b] # "ready")
  PROVE  SentCalls \subseteq SentCalls'
  <1>1. \A b \in Clients : next[b] \in Nat /\ next'[b] \in Nat
    BY LinesAssumption DEF LinesInv, TypeOK
  <1>2. SUFFICES ASSUME NEW r \in SentCalls PROVE r \in SentCalls'
    OBVIOUS
  <1>3. r \in Call /\ r[1] \in Clients /\ r[2] \in Nat
    BY <1>2, LinesAssumption DEF SentCalls, Call, Index
  <1>4. input[r[1]][r[2]] = "call" /\ (r[2] < next[r[1]] \/ (r[2] = next[r[1]] /\ phase[r[1]] # "ready"))
    BY <1>2 DEF SentCalls
  <1>5. r[2] < next'[r[1]] \/ (r[2] = next'[r[1]] /\ phase'[r[1]] # "ready")
    BY <1>1, <1>3, <1>4
  <1>6. QED
    BY <1>3, <1>4, <1>5 DEF SentCalls

\* Calls that go on, or are lost, without a new one are not counted anew.
LEMMA Moves ==
  ASSUME CountInv, calls \in Nat, calls' = calls, SentCalls \subseteq SentCalls',
         requests' \subseteq requests, pending' \subseteq pending,
         CallsOf(answers)' \subseteq CallsOf(answers) \cup (pending \ pending'),
         AnsweredCalls' \subseteq AnsweredCalls \cup CallsOf(answers),
         AnsweredCalls' \cap pending' = {}
  PROVE  CountInv'
  <1>1. Forwarded' \subseteq Forwarded
    BY DEF Forwarded
  <1>2. requests \subseteq SentCalls /\ Forwarded \subseteq SentCalls /\ OnePlace
        /\ Cardinality(Forwarded) <= calls /\ calls + Cardinality(requests) <= Cardinality(SentCalls)
    BY DEF CountInv
  <1>3. SentCalls \subseteq Call /\ SentCalls' \subseteq Call
    BY DEF SentCalls
  <1>4. (requests' \cup Forwarded') \subseteq SentCalls'
    BY <1>1, <1>2
  <1>5. OnePlace'
    BY <1>2 DEF OnePlace
  <1>6. /\ Cardinality(Forwarded') \in Nat /\ Cardinality(Forwarded) \in Nat
        /\ Cardinality(Forwarded') <= Cardinality(Forwarded)
    BY <1>1, <1>2, <1>3, FiniteCalls
  <1>7. /\ Cardinality(requests') \in Nat /\ Cardinality(requests) \in Nat
        /\ Cardinality(requests') <= Cardinality(requests)
    BY <1>2, <1>3, FiniteCalls
  <1>8. /\ Cardinality(SentCalls') \in Nat /\ Cardinality(SentCalls) \in Nat
        /\ Cardinality(SentCalls) <= Cardinality(SentCalls')
    BY <1>3, FiniteCalls
  <1>9. Cardinality(Forwarded') <= calls'
    BY <1>2, <1>6
  <1>10. calls' + Cardinality(requests') <= Cardinality(SentCalls')
    BY <1>2, <1>7, <1>8
  <1>11. QED
    BY <1>4, <1>5, <1>9, <1>10 DEF CountInv

\* A client that prints a line has, at most, its present call answered.
LEMMA AnsweredByPrint ==
  ASSUME LinesInv, LinesInv', NEW c \in Clients, NEW v, PrintLine(c, v), next[c] \in Index
  PROVE  AnsweredCalls' \subseteq AnsweredCalls \cup (IF v \in {"ok", "tool"} THEN {Current(c)} ELSE {})
  <1>1. SUFFICES ASSUME NEW r \in Call, NEW k \in 1 .. Len(out'[r[1]]),
                        out'[r[1]][k].index = r[2], out'[r[1]][k].verdict \in {"ok", "tool"}
                 PROVE  r \in AnsweredCalls \/ (v \in {"ok", "tool"} /\ r = Current(c))
    <2>1. \A r \in AnsweredCalls' : r \in Call /\ \E k \in 1 .. Len(out'[r[1]]) :
             out'[r[1]][k].index = r[2] /\ out'[r[1]][k].verdict \in {"ok", "tool"}
      BY DEF AnsweredCalls
    <2>2. QED
      BY <1>1, <2>1
  <1>2. r[1] \in Clients /\ r = <<r[1], r[2]>>
    BY DEF Call
  <1>3. CASE r[1] # c
    <2>1. out'[r[1]] = out[r[1]]
      BY <1>2, <1>3 DEF PrintLine, LinesInv, TypeOK
    <2>2. QED
      BY <1>1, <2>1 DEF AnsweredCalls
  <1>4. CASE r[1] = c
    <2> DEFINE line == [index |-> next[c], verdict |-> v]
    <2>1. out[c] \in Seq(Line) /\ out'[c] = Append(out[c], line)
      BY DEF PrintLine, LinesInv, TypeOK
    <2>2. CASE k \in 1 .. Len(out[c])
      <3>1. out'[c][k] = out[c][k]
        BY <2>1, <2>2
      <3>2. QED
        BY <1>1, <1>4, <2>2, <3>1 DEF AnsweredCalls
    <2>3. CASE k = Len(out[c]) + 1
      <3>1. out'[c][k] = line
        BY <2>1, <2>3
      <3>2. QED
        BY <1>1, <1>2, <1>4, <3>1 DEF Current
    <2>4. QED
      BY <1>4, <2>1, <2>2, <2>3
  <1>5. QED
    BY <1>3, <1>4

LEMMA PrintCount ==
  ASSUME LinesInv, LinesInv', CountInv, NEW c \in Clients,
         \/ RefuseLine(c) \/ TimeOut(c) \/ LoseSession(c)
         \/ \E a \in answers : Receive(c, a)
  PROVE  CountInv'
  <1>1. calls \in Nat /\ calls' = calls /\ requests' = requests /\ pending' = pending
        /\ answers' \subseteq answers /\ UNCHANGED input /\ next' = [next EXCEPT ![c] = @ + 1]
        /\ phase' = [phase EXCEPT ![c] = "ready"]
    BY DEF RefuseLine, TimeOut, LoseSession, Receive, PrintLine, daemonVars, LinesInv, TypeOK
  <1>2. next[c] \in Index
    BY DEF RefuseLine, TimeOut, LoseSession, Receive, AtLine, LinesInv, InPlace
  <1>3. SentCalls \subseteq SentCalls'
    <2>1. \A b \in Clients : next[b] \in Nat
      BY LinesAssumption DEF LinesInv, TypeOK
    <2>2. \A b \in Clients : next'[b] > next[b] \/ (next'[b] = next[b] /\ phase'[b] = phase[b])
      BY <1>1, <2>1 DEF LinesInv, TypeOK
    <2>3. QED
      BY <1>1, <2>2, SentGrows
  <1>4. CASE RefuseLine(c) \/ TimeOut(c) \/ LoseSession(c)
    <2>1. PrintLine(c, "error")
      BY <1>4 DEF RefuseLine, TimeOut, LoseSession
    <2>2. AnsweredCalls' \subseteq AnsweredCalls
      BY <1>2, <2>1, AnsweredByPrint
    <2>3. QED
      BY <1>1, <1>3, <2>2, Moves DEF CallsOf, CountInv, OnePlace
  <1>5. ASSUME NEW a \in answers, Receive(c, a) PROVE CountInv'
    <2>1. AnsweredCalls' \subseteq AnsweredCalls \cup {a.call}
      BY <1>2, <1>5, AnsweredByPrint DEF Receive
    <2>2. a.call \in CallsOf(answers)
      BY DEF CallsOf
    <2>3. QED
      BY <1>1, <1>3, <2>1, <2>2, Moves DEF CallsOf, CountInv, OnePlace
  <1>6. QED
    BY <1>4, <1>5

LEMMA SilentCount ==
  ASSUME LinesInv, LinesInv', CountInv, NEW c \in Clients, SkipBlank(c) \/ End(c) \/ Abort(c)
  PROVE  CountInv'
  <1>1. calls \in Nat /\ UNCHANGED <<input, out, daemonVars>>
    BY DEF SkipBlank, End, Abort, LinesInv, TypeOK
  <1>2. \A b \in Clients : next[b] \in Nat
    BY LinesAssumption DEF LinesInv, TypeOK
  <1>3. \A b \in Clients : \/ next'[b] > next[b]
                           \/ next'[b] = next[b] /\ (phase[b] # "ready" => phase'[b] # "ready")
    BY <1>2 DEF SkipBlank, End, Abort, LinesInv, TypeOK
  <1>4. SentCalls \subseteq SentCalls'
    BY <1>1, <1>3, SentGrows
  <1>5. AnsweredCalls' = AnsweredCalls
    BY <1>1 DEF AnsweredCalls
  <1>6. QED
    BY <1>1, <1>4, <1>5, Moves DEF daemonVars, CallsOf, CountInv, OnePlace

\* A call that sets out is new.
LEMMA SendCount ==
  ASSUME LinesInv, LinesInv', CountInv, NEW c \in Clients, SendCall(c)
  PROVE  CountInv'
  <1>1. /\ requests' = requests \cup {Current(c)} /\ calls \in Nat
        /\ UNCHANGED <<input, next, out, pending, answers, calls>>
        /\ phase' = [phase EXCEPT ![c] = "waiting"] /\ phase[c] = "ready"
        /\ next[c] \in Index /\ input[c][next[c]] = "call" /\ phase'[c] = "waiting"
    BY DEF SendCall, AtLine, LinesInv, TypeOK
  <1>2. Current(c) \in Call /\ Current(c)[1] = c /\ Current(c)[2] = next[c] /\ next[c] \in Nat
    BY <1>1, LinesAssumption DEF Current, Call, Index
  <1>3. Current(c) \notin SentCalls /\ Current(c) \in SentCalls'
    BY <1>1, <1>2 DEF SentCalls
  <1>4. SentCalls \subseteq SentCalls'
    <2>1. \A b \in Clients : next'[b] = next[b] /\ (phase[b] # "ready" => phase'[b] # "ready")
      BY <1>1 DEF LinesInv, TypeOK
    <2>2. QED
      BY <1>1, <2>1, SentGrows
  <1>5. AnsweredCalls' = AnsweredCalls /\ Forwarded' = Forwarded /\ CallsOf(answers)' = CallsOf(answers)
    BY <1>1 DEF AnsweredCalls, Forwarded, CallsOf
  <1>6. requests \subseteq SentCalls /\ Forwarded \subseteq SentCalls /\ OnePlace
        /\ Cardinality(Forwarded) <= calls /\ calls + Cardinality(requests) <= Cardinality(SentCalls)
    BY DEF CountInv
  <1>7. SentCalls \subseteq Call /\ SentCalls' \subseteq Call
    BY DEF SentCalls
  <1>8. (requests' \cup Forwarded') \subseteq SentCalls'
    BY <1>1, <1>3, <1>4, <1>5, <1>6
  <1>9. OnePlace'
    BY <1>1, <1>3, <1>5, <1>6 DEF OnePlace, Forwarded
  <1>10. Cardinality(requests') = Cardinality(requests) + 1 /\ Cardinality(requests) \in Nat
    <2>1. requests \subseteq Call /\ Current(c) \notin requests
      BY <1>3, <1>6, <1>7
    <2>2. QED
      BY <1>1, <2>1, FiniteCalls
  <1>11. /\ Cardinality(SentCalls) \in Nat /\ Cardinality(SentCalls') \in Nat
         /\ Cardinality(SentCalls) + 1 <= Cardinality(SentCalls')
    <2>1. (SentCalls \cup {Current(c)}) \subseteq SentCalls'
      BY <1>3, <1>4
    <2>2. Cardinality(SentCalls \cup {Current(c)}) = Cardinality(SentCalls) + 1
      BY <1>3, <1>7, FiniteCalls
    <2>3. QED
      BY <1>7, <2>1, <2>2, FiniteCalls
  <1>12. Cardinality(Forwarded') <= calls' /\ calls' + Cardinality(requests') <= Cardinality(SentCalls')
    BY <1>1, <1>5, <1>6, <1>10, <1>11
  <1>13. QED
    BY <1>8, <1>9, <1>12 DEF CountInv

\* A call that is forwarded is counted, and was not forwarded before.
LEMMA ForwardCount ==
  ASSUME LinesInv, CountInv, NEW r \in requests, Forward(r)
  PROVE  CountInv'
  <1>1. /\ requests' = requests \ {r} /\ calls' = calls + 1 /\ calls \in Nat
        /\ UNCHANGED clientVars
    BY DEF Forward, LinesInv, TypeOK
  <1>2. \/ pending' = pending \cup {r} /\ CallsOf(answers)' = CallsOf(answers)
        \/ pending' = pending /\ CallsOf(answers)' = CallsOf(answers) \cup {r}
    <2>1. CASE pending' = pending \cup {r} /\ UNCHANGED answers
      BY <2>1 DEF CallsOf
    <2>2. CASE answers' = answers \cup {Respond(r, "error")} /\ UNCHANGED pending
      <3>1. Respond(r, "error").call = r
        BY DEF Respond
      <3>2. QED
        BY <2>2, <3>1 DEF CallsOf
    <2>3. QED
      BY <2>1, <2>2 DEF Forward
  <1>3. AnsweredCalls' = AnsweredCalls /\ SentCalls' = SentCalls
    BY <1>1 DEF AnsweredCalls, SentCalls, clientVars
  <1>4. Forwarded' = Forwarded \cup {r}
    BY <1>2, <1>3 DEF Forwarded
  <1>5. requests \subseteq SentCalls /\ Forwarded \subseteq SentCalls /\ OnePlace
        /\ Cardinality(Forwarded) <= calls /\ calls + Cardinality(requests) <= Cardinality(SentCalls)
    BY DEF CountInv
  <1>6. SentCalls \subseteq Call
    BY DEF SentCalls
  <1>7. (requests' \cup Forwarded') \subseteq SentCalls'
    BY <1>1, <1>3, <1>4, <1>5
  <1>8. OnePlace'
    BY <1>1, <1>2, <1>3, <1>5 DEF OnePlace
  <1>9. /\ Cardinality(Forwarded) \in Nat /\ Cardinality(Forwarded') \in Nat
        /\ Cardinality(Forwarded') <= Cardinality(Forwarded) + 1
    <2>1. Forwarded \subseteq Call
      BY <1>5, <1>6
    <2>2. Cardinality(Forwarded) \in Nat
          /\ Cardinality(Forwarded \cup {r}) = IF r \in Forwarded THEN Cardinality(Forwarded) ELSE Cardinality(Forwarded) + 1
      BY <2>1, FiniteCalls
    <2>3. QED
      BY <1>4, <2>2
  <1>10. Cardinality(requests) \in Nat /\ Cardinality(requests') = Cardinality(requests) - 1
    BY <1>1, <1>5, <1>6, FiniteCalls
  <1>11. Cardinality(SentCalls) \in Nat
    BY <1>6, FiniteCalls
  <1>12. Cardinality(Forwarded') <= calls' /\ calls' + Cardinality(requests') <= Cardinality(SentCalls')
    BY <1>1, <1>3, <1>5, <1>9, <1>10, <1>11
  <1>13. QED
    BY <1>7, <1>8, <1>12 DEF CountInv

LEMMA OtherCount ==
  ASSUME LinesInv, CountInv,
         \/ \E r \in pending : AnswerCall(r)
         \/ \E a \in answers : DropLate(a)
         \/ UpstreamDies \/ DaemonDies \/ UNCHANGED vars
  PROVE  CountInv'
  <1>1. UNCHANGED clientVars /\ calls' = calls /\ calls \in Nat /\ requests' \subseteq requests
        /\ pending' \subseteq pending
    BY DEF AnswerCall, DropLate, UpstreamDies, DaemonDies, LinesInv, TypeOK, vars, daemonVars
  <1>2. AnsweredCalls' = AnsweredCalls /\ SentCalls' = SentCalls
    BY <1>1 DEF AnsweredCalls, SentCalls, clientVars
  <1>3. CallsOf(answers)' \subseteq CallsOf(answers) \cup (pending \ pending')
    <2>1. CASE \E r \in pending : AnswerCall(r)
      BY <2>1 DEF AnswerCall, CallsOf, Respond
    <2>2. CASE UpstreamDies
      BY <2>2 DEF UpstreamDies, CallsOf, Respond
    <2>3. CASE (\E a \in answers : DropLate(a)) \/ DaemonDies \/ UNCHANGED vars
      BY <2>3 DEF DropLate, DaemonDies, CallsOf, vars, daemonVars
    <2>4. QED
      BY <2>1, <2>2, <2>3
  <1>4. AnsweredCalls' \cap pending' = {}
    BY <1>1, <1>2 DEF CountInv, OnePlace
  <1>5. QED
    BY <1>1, <1>2, <1>3, <1>4, Moves

LEMMA CountInit == Init => CountInv
  <1> SUFFICES ASSUME Init PROVE CountInv
    OBVIOUS
  <1>1. AnsweredCalls = {}
    BY DEF Init, AnsweredCalls, Call
  <1>2. Forwarded = {} /\ requests = {} /\ pending = {} /\ calls = 0
    BY <1>1 DEF Init, Forwarded, CallsOf
  <1>3. Cardinality(SentCalls) \in Nat
    BY FiniteCalls DEF SentCalls
  <1>4. Cardinality({}) = 0
    BY FS_EmptySet
  <1>5. OnePlace
    BY <1>2 DEF OnePlace, Forwarded
  <1>6. QED
    BY <1>2, <1>3, <1>4, <1>5 DEF CountInv

LEMMA CountNext == LinesInv /\ LinesInv' /\ CountInv /\ [Next]_vars => CountInv'
  <1> SUFFICES ASSUME LinesInv, LinesInv', CountInv, [Next]_vars PROVE CountInv'
    OBVIOUS
  <1>1. ASSUME NEW c \in Clients, Client(c) \/ Abort(c) PROVE CountInv'
    BY <1>1, PrintCount, SilentCount, SendCount DEF Client
  <1>2. CASE Proxy
    BY <1>2, ForwardCount, OtherCount DEF Proxy
  <1>3. CASE UpstreamDies \/ DaemonDies \/ UNCHANGED vars
    BY <1>3, OtherCount
  <1>4. QED
    BY <1>1, <1>2, <1>3 DEF Next

(* The daemon counts each call that was answered, or is upstream, and none *)
(* that was not sent; none is made twice, whatever times out or is lost    *)
(* (Proxy::call_tool).                                                     *)
THEOREM CallsAreMadeOnce == Spec => []EachCallIsMadeOnce
  <1>1. CountInv /\ LinesInv => EachCallIsMadeOnce
    <2> SUFFICES ASSUME CountInv, LinesInv PROVE EachCallIsMadeOnce
      OBVIOUS
    <2>1. AnsweredCalls \cup pending \subseteq Forwarded /\ Forwarded \subseteq SentCalls /\ SentCalls \subseteq Call
          /\ AnsweredCalls \cap pending = {} /\ requests \subseteq Call /\ calls \in Nat
          /\ Cardinality(Forwarded) <= calls /\ calls + Cardinality(requests) <= Cardinality(SentCalls)
      BY DEF CountInv, OnePlace, Forwarded, SentCalls, LinesInv, TypeOK
    <2>2. IsFiniteSet(AnsweredCalls) /\ IsFiniteSet(pending)
      BY <2>1, FiniteCalls
    <2>3. Cardinality(AnsweredCalls \cup pending) = Cardinality(AnsweredCalls) + Cardinality(pending)
      <3>1. Cardinality(AnsweredCalls \cap pending) = 0
        <4>1. AnsweredCalls \cap pending = {}
          BY <2>1
        <4>2. QED
          BY <4>1, FS_EmptySet
      <3>2. Cardinality(AnsweredCalls) \in Nat /\ Cardinality(pending) \in Nat
        BY <2>2, FS_CardinalityType
      <3>3. Cardinality(AnsweredCalls \cup pending)
              = Cardinality(AnsweredCalls) + Cardinality(pending) - Cardinality(AnsweredCalls \cap pending)
        BY <2>2, FS_Union
      <3>4. QED
        BY <3>1, <3>2, <3>3
    <2>4. Cardinality(AnsweredCalls \cup pending) <= Cardinality(Forwarded)
      BY <2>1, FiniteCalls
    <2>5. /\ Cardinality(AnsweredCalls) \in Nat /\ Cardinality(pending) \in Nat
          /\ Cardinality(Forwarded) \in Nat /\ Cardinality(requests) \in Nat /\ Cardinality(SentCalls) \in Nat
      BY <2>1, FiniteCalls
    <2>6. QED
      BY <2>1, <2>3, <2>4, <2>5 DEF EachCallIsMadeOnce
  <1>2. QED
    BY <1>1, LinesInvariance, CountInit, CountNext, PTL DEF Spec
=============================================================================
