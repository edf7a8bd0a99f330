------------------------- MODULE FileCommandsProofs -------------------------
(***************************************************************************)
(* Proofs about FileCommands, for any processes, commands, files and       *)
(* edits: a refusal comes before the first write, without --force no       *)
(* readable file is lost, what a check says is true, and the files that a  *)
(* command announces are there, whatever runs at the same time and is      *)
(* killed.                                                                 *)
(***************************************************************************)
EXTENDS FileCommands, SequenceTheorems, TLAPS

Early == {"start", "reading", "calling", "looking", "checking", "refused"}

\* A command does not write before its checks are over, nor before it opens.
NothingYet ==
    \A p \in Procs :
        /\ pc[p] \in Early => wrote[p] = {}
        /\ pc[p] = "filling" => Current(p).path \in wrote[p]

\* `skill paths` only looks.
LooksOnly ==
    \A p \in Procs : Is(p, "paths") => pc[p] \in {"start", "looking", "ended", "killed"}

\* build and format write the files their command line names.
PlanIsNamed ==
    \A p \in Procs : \A i \in DOMAIN plan[p] :
        /\ Is(p, "build") => plan[p][i].path \in Outputs(p)
        /\ Is(p, "format") => plan[p][i].path = cmd[p].source

\* What the check of a file of the plan has established, and lasts.
Cleared(p, i) ==
    before[plan[p][i].path] \in Texts =>
        \/ Excused(plan[p][i].path)
        \/ Is(p, "install") /\ before[plan[p][i].path] = plan[p][i].text

\* The file that an unforced command is about to overwrite may be overwritten.
MayWrite(p) ==
    before[Current(p).path] \in Texts => Excused(Current(p).path)

CheckedSoFar(p) ==
    Is(p, "decompile") \/ Is(p, "install") => Has(p, "force") \/
        /\ pc[p] = "checking" => \A i \in 1 .. k[p] - 1 : Cleared(p, i)
        /\ pc[p] \in {"comparing", "opening", "filling"} => \A i \in DOMAIN plan[p] : Cleared(p, i)
        /\ pc[p] \in {"opening", "filling"} => MayWrite(p)

FilesInv ==
    /\ TypeOK /\ NothingYet /\ LooksOnly /\ PlanIsNamed
    /\ \A p \in Procs : CheckedSoFar(p)
    /\ ReadableFilesNeedForce

\* Nothing has happened yet.
LEMMA FilesInit == Init => FilesInv
  <1> SUFFICES ASSUME Init PROVE FilesInv
    OBVIOUS
  <1>1. TypeOK
    BY FilesAssumption DEF Init, TypeOK, Stages, Codes, Contents, InPlace
  <1>2. NothingYet /\ LooksOnly /\ PlanIsNamed
    BY DEF Init, NothingYet, LooksOnly, PlanIsNamed
  <1>3. \A p \in Procs : CheckedSoFar(p)
    BY DEF Init, CheckedSoFar
  <1>4. ReadableFilesNeedForce
    BY DEF Init, ReadableFilesNeedForce
  <1>5. QED
    BY <1>1, <1>2, <1>3, <1>4 DEF FilesInv

\* --out-dir makes files of files.
LEMMA TargetTypes ==
  ASSUME TypeOK, NEW p \in Procs, NEW files \in Decompilations
  PROVE  [i \in DOMAIN files |-> Target(p, files[i])] \in Seq(File)
  <1>1. files \in Seq(File) /\ cmd[p] \in Commands
    BY FilesAssumption DEF TypeOK
  <1>2. ASSUME NEW i \in DOMAIN files PROVE Target(p, files[i]) \in File
    <2>1. files[i] \in File
      BY <1>1
    <2>2. CASE cmd[p].outDir = "none"
      BY <2>1, <2>2 DEF Target
    <2>3. CASE cmd[p].outDir # "none"
      <3>1. <<cmd[p].outDir, files[i].path[2]>> \in Paths
        BY <1>1, <1>2, <2>3, FilesAssumption
      <3>2. QED
        BY <2>1, <2>3, <3>1 DEF Target, File
    <2>4. QED
      BY <2>2, <2>3
  <1>3. QED
    BY <1>1, <1>2

\* The types hold after a step of one process if it is in place itself.
LEMMA OneMoves ==
  ASSUME TypeOK, NEW p \in Procs,
         UNCHANGED <<cmd, before>>,
         disk' \in [Paths -> Contents], pc' \in [Procs -> Stages], original' \in [Procs -> Contents],
         plan' \in [Procs -> Seq(File)], k' \in [Procs -> Nat], exit' \in [Procs -> Codes],
         wrote' \in [Procs -> SUBSET Paths], edited' \subseteq Paths,
         \A q \in Procs \ {p} : UNCHANGED <<pc[q], plan[q], k[q], exit[q]>>,
         InPlace(p)'
  PROVE  TypeOK'
  <1>1. ASSUME NEW q \in Procs, q # p PROVE InPlace(q)'
    BY <1>1 DEF TypeOK, InPlace
  <1>2. QED
    BY <1>1 DEF TypeOK

\* The steps before the plan is known keep the types.
LEMMA TypeBefore ==
  ASSUME TypeOK, NEW p \in Procs,
         \/ Resolve(p) \/ CallFails(p) \/ PrintRaw(p) \/ Read(p)
         \/ StartInstall(p) \/ StartPaths(p)
  PROVE  TypeOK'
  <1>0. /\ disk \in [Paths -> Contents] /\ original \in [Procs -> Contents]
        /\ plan \in [Procs -> Seq(File)] /\ k \in [Procs -> Nat]
        /\ wrote \in [Procs -> SUBSET Paths] /\ edited \subseteq Paths
    BY DEF TypeOK
  <1> USE DEF history, Result, Stages, Codes
  <1>1. CASE Resolve(p) \/ CallFails(p) \/ PrintRaw(p)
    <2>1. PICK stage \in Stages, code \in Codes :
            /\ pc' = [pc EXCEPT ![p] = stage] /\ exit' = [exit EXCEPT ![p] = code]
            /\ stage \in {"reading", "calling", "ended"} /\ (code # "none" <=> stage = "ended")
      <3>1. pc[p] \in {"start", "calling"} /\ exit[p] = "none" /\ exit = [exit EXCEPT ![p] = exit[p]]
        BY <1>1 DEF Resolve, CallFails, PrintRaw, TypeOK, InPlace
      <3>2. QED
        BY <1>1, <3>1 DEF Resolve, CallFails, PrintRaw, Go, End
    <2>2. UNCHANGED <<disk, cmd, original, plan, k, before, wrote, edited>>
          /\ pc[p] \in {"start", "calling"}
      BY <1>1 DEF Resolve, CallFails, PrintRaw
    <2>3. InPlace(p)'
      BY <2>1, <2>2 DEF TypeOK, InPlace
    <2>4. /\ pc' \in [Procs -> Stages] /\ exit' \in [Procs -> Codes]
          /\ \A q \in Procs \ {p} : UNCHANGED <<pc[q], exit[q]>>
      BY <2>1 DEF TypeOK
    <2>5. QED
      BY <1>0, <2>2, <2>3, <2>4, OneMoves, ZenonT(60)
  <1>2. CASE Read(p)
    <2>1. /\ pc[p] = "reading" /\ exit[p] = "none"
          /\ UNCHANGED <<disk, cmd, plan, k, before, wrote, edited>>
      BY <1>2 DEF Read, TypeOK, InPlace
    <2>2. Source(p) \in Contents
      <3>1. cmd[p] \in Command
        BY FilesAssumption DEF TypeOK
      <3>2. QED
        BY <3>1 DEF Source, TypeOK, Command
    <2>3. CASE Go(p, "calling") /\ original' = [original EXCEPT ![p] = Source(p)]
      <3>1. /\ pc' \in [Procs -> Stages] /\ exit' \in [Procs -> Codes]
            /\ original' \in [Procs -> Contents]
            /\ \A q \in Procs \ {p} : UNCHANGED <<pc[q], exit[q]>>
        BY <2>2, <2>3 DEF TypeOK, Go
      <3>2. InPlace(p)'
        BY <2>1, <2>3 DEF Go, TypeOK, InPlace
      <3>3. QED
        BY <1>0, <2>1, <3>1, <3>2, OneMoves, ZenonT(60)
    <2>4. CASE End(p, "usageError") /\ original' = original
      <3>1. /\ pc' \in [Procs -> Stages] /\ exit' \in [Procs -> Codes]
            /\ original' \in [Procs -> Contents]
            /\ \A q \in Procs \ {p} : UNCHANGED <<pc[q], exit[q]>>
        BY <1>0, <2>4 DEF TypeOK, End
      <3>2. InPlace(p)'
        BY <2>1, <2>4 DEF End, TypeOK, InPlace
      <3>3. QED
        BY <1>0, <2>1, <3>1, <3>2, OneMoves, ZenonT(60)
    <2>5. QED
      BY <1>2, <2>3, <2>4 DEF Read
  <1>3. CASE StartInstall(p) \/ StartPaths(p)
    <2>1. SkillFiles \in Seq(File) /\ SkillFiles # << >>
      BY FilesAssumption
    <2>2. Len(SkillFiles) \in Nat /\ 1 \in 1 .. Len(SkillFiles)
      BY <2>1
    <2>3. InPlace(p)'
      <3>1. pc'[p] \in {"looking", "comparing", "checking"} /\ plan'[p] = SkillFiles
            /\ k'[p] = 1 /\ exit'[p] = "none"
        BY <1>3 DEF StartInstall, StartPaths, Go, TypeOK, InPlace
      <3>2. QED
        BY <2>1, <2>2, <3>1 DEF InPlace
    <2>4. PICK stage \in {"looking", "comparing", "checking"} :
            /\ pc' = [pc EXCEPT ![p] = stage] /\ plan' = [plan EXCEPT ![p] = SkillFiles]
            /\ UNCHANGED <<exit, disk, cmd, original, k, before, wrote, edited>>
      BY <1>3 DEF StartInstall, StartPaths, Go
    <2>5. QED
      BY <2>1, <2>3, <2>4, OneMoves DEF TypeOK
  <1>4. QED
    BY <1>1, <1>2, <1>3

\* What a step leaves alone it could as well have assigned.
LEMMA Same ==
  ASSUME TypeOK, NEW p \in Procs
  PROVE  /\ pc = [pc EXCEPT ![p] = pc[p]] /\ plan = [plan EXCEPT ![p] = plan[p]]
         /\ k = [k EXCEPT ![p] = k[p]] /\ exit = [exit EXCEPT ![p] = exit[p]]
         /\ pc[p] \in Stages /\ plan[p] \in Seq(File) /\ k[p] \in Nat /\ exit[p] \in Codes
         /\ Len(plan[p]) \in Nat /\ (plan[p] # << >> => 1 \in 1 .. Len(plan[p]))
  BY DEF TypeOK

\* The types hold after a step that takes a process to a place it may be in.
LEMMA OneMovesTo ==
  ASSUME TypeOK, NEW p \in Procs, NEW stage \in Stages, NEW files \in Seq(File), NEW n \in Nat,
         NEW code \in Codes,
         pc' = [pc EXCEPT ![p] = stage], plan' = [plan EXCEPT ![p] = files],
         k' = [k EXCEPT ![p] = n], exit' = [exit EXCEPT ![p] = code],
         UNCHANGED <<cmd, original, before, edited>>,
         disk' \in [Paths -> Contents], wrote' \in [Procs -> SUBSET Paths],
         stage \notin {"start", "reading", "calling"},
         stage = "checking" => n \in 1 .. Len(files) + 1 /\ files # << >>,
         stage \in {"looking", "comparing", "opening", "filling"} => n \in 1 .. Len(files),
         code # "none" <=> stage \in {"ended", "refused"}
  PROVE  TypeOK'
  <1>1. pc'[p] = stage /\ plan'[p] = files /\ k'[p] = n /\ exit'[p] = code
    BY DEF TypeOK
  <1>2. InPlace(p)'
    BY <1>1 DEF InPlace
  <1>3. QED
    BY <1>2, OneMoves DEF TypeOK

\* A conclusion is an exit code.
LEMMA Concluding ==
  ASSUME NEW p \in Procs, Conclude(p)
  PROVE  \E code \in Codes \ {"none"} : End(p, code)
  <1>1. PICK code \in {"success", "toolError"} : End(p, code)
    BY DEF Conclude
  <1>2. QED
    BY <1>1 DEF Codes

\* The outputs that a build writes are among those its command line names.
LEMMA OutputsWritten ==
  ASSUME TypeOK, NEW p \in Procs, NEW first \in 1 .. Len(cmd[p].outputs) + 1,
         NEW last \in 0 .. Len(cmd[p].outputs)
  PROVE  /\ SubSeq(cmd[p].outputs, first, last) \in Seq(File)
         /\ \A i \in DOMAIN SubSeq(cmd[p].outputs, first, last) :
                SubSeq(cmd[p].outputs, first, last)[i].path \in Outputs(p)
  <1> DEFINE all == cmd[p].outputs
  <1>1. all \in Seq(File)
    BY FilesAssumption DEF TypeOK, Command
  <1>2. first \in Nat /\ last \in Int /\ first >= 1 /\ last <= Len(all)
    BY <1>1
  <1>3. ASSUME NEW i \in 1 .. last - first + 1
        PROVE  /\ i + first - 1 \in 1 .. Len(all)
               /\ all[i + first - 1] \in File /\ all[i + first - 1].path \in Outputs(p)
    BY <1>1, <1>2 DEF Outputs
  <1> DEFINE some == SubSeq(all, first, last)
  <1>4. \A i \in first .. last : all[i] \in File
    BY <1>1, <1>2
  <1> HIDE DEF all
  <1>5. /\ some \in Seq(File) /\ Len(some) = (IF first <= last THEN last - first + 1 ELSE 0)
        /\ \A i \in 1 .. last - first + 1 : some[i] = all[first + i - 1]
    BY <1>2, <1>4, SubSeqProperties
  <1>6. ASSUME NEW i \in DOMAIN some PROVE some[i].path \in Outputs(p)
    <2>1. i \in 1 .. last - first + 1 /\ first + i - 1 = i + first - 1
      BY <1>2, <1>5, <1>6
    <2>2. QED
      BY <1>3, <1>5, <2>1
  <1>7. QED
    BY <1>5, <1>6 DEF all

\* So do the steps that make a plan of a result, or end.
LEMMA TypeResult ==
  ASSUME TypeOK, NEW p \in Procs, pc[p] = "calling",
         UNCHANGED <<disk, cmd, original, k, history>>,
         \/ \E files \in Seq(File), stage \in {"checking", "opening"} : WriteAll(p, files, stage)
         \/ \E code \in Codes \ {"none"} : End(p, code) /\ UNCHANGED plan
  PROVE  TypeOK'
  <1>0. /\ k[p] = 1 /\ exit[p] = "none"
        /\ UNCHANGED <<before, wrote, edited>> /\ disk' \in [Paths -> Contents]
        /\ wrote' \in [Procs -> SUBSET Paths]
    BY DEF TypeOK, InPlace, history
  <1>1. ASSUME NEW files \in Seq(File), NEW stage \in {"checking", "opening"},
               WriteAll(p, files, stage)
        PROVE  TypeOK'
    <2>1. CASE files = << >>
      <3>1. PICK code \in Codes \ {"none"} :
              /\ pc' = [pc EXCEPT ![p] = "ended"] /\ exit' = [exit EXCEPT ![p] = code]
              /\ plan' = [plan EXCEPT ![p] = files] /\ k' = [k EXCEPT ![p] = 1]
        BY <1>0, <1>1, <2>1, Same, Concluding DEF WriteAll, End
      <3>2. "ended" \in Stages /\ 1 \in Nat
        BY DEF Stages
      <3>3. QED
        BY <1>0, <1>1, <3>1, <3>2, OneMovesTo
    <2>2. CASE files # << >>
      <3>1. /\ pc' = [pc EXCEPT ![p] = stage] /\ exit' = [exit EXCEPT ![p] = "none"]
            /\ plan' = [plan EXCEPT ![p] = files] /\ k' = [k EXCEPT ![p] = 1]
        BY <1>0, <1>1, <2>2, Same DEF WriteAll, Go
      <3>2. 1 \in 1 .. Len(files) /\ 1 \in 1 .. Len(files) + 1
        BY <2>2
      <3>3. /\ stage \in Stages /\ "none" \in Codes /\ 1 \in Nat
            /\ stage \notin {"start", "reading", "calling", "ended", "refused"}
        BY DEF Stages, Codes
      <3>4. QED
        BY <1>0, <2>2, <3>1, <3>2, <3>3, OneMovesTo, ZenonT(60)
    <2>3. QED
      BY <2>1, <2>2
  <1>2. ASSUME NEW code \in Codes \ {"none"}, End(p, code), UNCHANGED plan
        PROVE  TypeOK'
    <2>1. /\ pc' = [pc EXCEPT ![p] = "ended"] /\ exit' = [exit EXCEPT ![p] = code]
          /\ plan' = [plan EXCEPT ![p] = plan[p]] /\ k' = [k EXCEPT ![p] = k[p]]
      BY <1>2, Same DEF End
    <2>2. /\ "ended" \in Stages /\ code \in Codes /\ code # "none"
          /\ "ended" \notin {"start", "reading", "calling", "checking", "looking", "comparing",
                              "opening", "filling"}
      BY DEF Stages
    <2>3. plan[p] \in Seq(File) /\ k[p] \in Nat
      BY Same
    <2>4. QED
      BY <1>0, <2>1, <2>2, <2>3, OneMovesTo, ZenonT(120)
  <1>3. QED
    BY <1>1, <1>2

\* What the server makes of a file that it can read is formatted, and so is the
\* empty text in place of a result without content.
LEMMA FormattedIsFormatted ==
  ASSUME TypeOK, NEW p \in Procs, Result(p), NEW content \in Formatted(p)
  PROVE  content \in Texts /\ Fmt[content] = content
  <1>1. Source(p) \in Contents
    BY FilesAssumption DEF Source, TypeOK, Command
  <1>2. Source(p) \in Texts \cup {"torn"}
    BY <1>1 DEF Result, Readable, Contents
  <1>3. PICK t \in Texts : content = Fmt[t]
    <2>1. Empty \in Texts /\ Empty = Fmt[Empty]
      BY FilesAssumption
    <2>2. QED
      BY <1>2, <2>1 DEF Formatted
  <1>4. Fmt \in [Texts -> Texts] /\ \A u \in Texts : Fmt[Fmt[u]] = Fmt[u]
    BY FilesAssumption
  <1>5. QED
    BY <1>3, <1>4

\* Every result is one of these.
LEMMA ResultSteps ==
  ASSUME TypeOK, NEW p \in Procs, Build(p) \/ Format(p) \/ Decompile(p)
  PROVE  /\ pc[p] = "calling" /\ UNCHANGED <<disk, cmd, original, k, history>>
         /\ \/ /\ Is(p, "build")
               /\ \E files \in Seq(File) :
                    /\ WriteAll(p, files, "opening")
                    /\ \A i \in DOMAIN files : files[i].path \in Outputs(p)
            \/ /\ Is(p, "format")
               /\ \E text \in Texts :
                    /\ WriteAll(p, <<[path |-> cmd[p].source, text |-> text]>>, "opening")
                    /\ <<[path |-> cmd[p].source, text |-> text]>> \in Seq(File)
            \/ /\ Is(p, "decompile")
               /\ \E files \in Seq(File) :
                    WriteAll(p, files, IF Has(p, "force") THEN "opening" ELSE "checking")
            \/ \E code \in Codes \ {"none"} : End(p, code) /\ UNCHANGED plan
  <1>0. cmd[p] \in Command
    BY FilesAssumption DEF TypeOK
  <1>1. CASE Build(p)
    <2>1. pc[p] = "calling" /\ UNCHANGED <<disk, cmd, original, k, history>> /\ Is(p, "build")
      BY <1>1 DEF Build, Result
    <2>2. CASE Has(p, "only")
      BY <1>1, <2>1, <2>2, Concluding DEF Build
    <2>3. CASE ~Has(p, "only")
      <3>1. PICK first \in 1 .. Len(cmd[p].outputs) + 1, last \in 0 .. Len(cmd[p].outputs) :
              WriteAll(p, SubSeq(cmd[p].outputs, first, last), "opening")
        BY <1>1, <2>3 DEF Build
      <3>2. QED
        BY <2>1, <3>1, OutputsWritten
    <2>4. QED
      BY <2>2, <2>3
  <1>2. CASE Format(p)
    <2>1. Formatted(p) \subseteq Texts
      BY <1>2, FormattedIsFormatted DEF Format
    <2>2. \A text \in Texts : [path |-> cmd[p].source, text |-> text] \in File
      BY <1>0 DEF Command, File
    <2>3. pc[p] = "calling" /\ UNCHANGED <<disk, cmd, original, k, history>> /\ Is(p, "format")
      BY <1>2 DEF Format, Result
    <2>4. PICK text \in Texts :
            IF Has(p, "write") /\ text # original[p]
            THEN WriteAll(p, <<[path |-> cmd[p].source, text |-> text]>>, "opening")
            ELSE /\ End(p, IF Has(p, "check") /\ text # original[p] THEN "toolError" ELSE "success")
                 /\ UNCHANGED plan
      BY <1>2, <2>1 DEF Format
    <2>5. CASE Has(p, "write") /\ text # original[p]
      BY <2>2, <2>3, <2>4, <2>5
    <2>6. CASE ~(Has(p, "write") /\ text # original[p])
      BY <2>3, <2>4, <2>6 DEF Codes
    <2>7. QED
      BY <2>5, <2>6
  <1>3. CASE Decompile(p)
    BY <1>3, TargetTypes DEF Decompile, Result, Codes
  <1>4. QED
    BY <1>1, <1>2, <1>3

\* While files are checked and written the types hold.
LEMMA TypeWrite ==
  ASSUME TypeOK, NEW p \in Procs,
         \/ Look(p) \/ Refuse(p) \/ Pass(p) \/ AllPassed(p) \/ Compare(p)
         \/ Open(p) \/ WriteFails(p) \/ CutShort(p) \/ Fill(p) \/ Kill(p)
  PROVE  TypeOK'
  <1>0. /\ UNCHANGED <<cmd, original, before, edited>> /\ plan' = [plan EXCEPT ![p] = plan[p]]
        /\ disk \in [Paths -> Contents] /\ wrote \in [Procs -> SUBSET Paths] /\ InPlace(p)
        /\ Len(plan[p]) \in Nat /\ k[p] \in Nat /\ k[p] + 1 \in Nat /\ plan[p] \in Seq(File)
    <2>1. UNCHANGED <<cmd, original, before, edited>> /\ plan' = plan
      BY DEF Look, Refuse, Pass, AllPassed, Compare, Open, WriteFails, CutShort, Fill, Kill, history
    <2>2. QED
      BY <2>1, Same DEF TypeOK
  <1>1. k[p] \in 1 .. Len(plan[p]) => Current(p).path \in Paths /\ Current(p).text \in Texts
    <2>1. k[p] \in 1 .. Len(plan[p]) => plan[p][k[p]] \in File
      BY Same
    <2>2. QED
      BY <2>1 DEF Current, File
  <1>2. CASE Refuse(p) \/ WriteFails(p) \/ Kill(p)
    <2>1. PICK stage \in {"ended", "refused", "killed"}, code \in Codes :
            /\ pc' = [pc EXCEPT ![p] = stage] /\ exit' = [exit EXCEPT ![p] = code]
            /\ k' = [k EXCEPT ![p] = k[p]] /\ UNCHANGED <<disk, wrote>>
            /\ (code # "none" <=> stage # "killed")
      BY <1>0, <1>2, Same DEF Refuse, WriteFails, Kill, End, InPlace, Codes, history
    <2>2. QED
      BY <1>0, <2>1, Same, OneMovesTo DEF Stages
  <1>3. CASE Pass(p)
    <2>1. /\ pc' = [pc EXCEPT ![p] = "checking"] /\ exit' = [exit EXCEPT ![p] = "none"]
          /\ k' = [k EXCEPT ![p] = k[p] + 1] /\ UNCHANGED <<disk, wrote>>
          /\ k[p] + 1 \in 1 .. Len(plan[p]) + 1 /\ plan[p] # << >>
      BY <1>0, <1>3, Same DEF Pass, InPlace, history
    <2>2. QED
      BY <1>0, <2>1, OneMovesTo DEF Stages, Codes
  <1>4. CASE AllPassed(p)
    <2>1. PICK stage \in {"comparing", "opening"} :
          /\ pc' = [pc EXCEPT ![p] = stage] /\ exit' = [exit EXCEPT ![p] = "none"]
          /\ k' = [k EXCEPT ![p] = 1] /\ UNCHANGED <<disk, wrote>>
          /\ 1 \in 1 .. Len(plan[p])
      BY <1>0, <1>4, Same DEF AllPassed, Go, InPlace, history, FirstStage
    <2>2. QED
      BY <1>0, <2>1, OneMovesTo DEF Stages, Codes
  <1>5. ASSUME NextFile(p), UNCHANGED wrote, disk' \in [Paths -> Contents],
               pc[p] \in {"comparing", "filling"}
        PROVE  TypeOK'
    <2>1. k[p] \in 1 .. Len(plan[p]) /\ exit[p] = "none"
      BY <1>0, <1>5 DEF InPlace
    <2>2. CASE k[p] = Len(plan[p])
      <3>1. PICK code \in Codes \ {"none"} :
              /\ pc' = [pc EXCEPT ![p] = "ended"] /\ exit' = [exit EXCEPT ![p] = code]
              /\ k' = [k EXCEPT ![p] = k[p] + 1]
        BY <1>5, <2>2, Concluding DEF NextFile, End
      <3>2. QED
        BY <1>0, <1>5, <3>1, OneMovesTo DEF Stages, Codes
    <2>3. CASE k[p] # Len(plan[p])
      <3>1. PICK stage \in {"comparing", "opening"} :
            /\ pc' = [pc EXCEPT ![p] = stage] /\ exit' = [exit EXCEPT ![p] = "none"]
            /\ k' = [k EXCEPT ![p] = k[p] + 1] /\ k[p] + 1 \in 1 .. Len(plan[p])
        BY <1>0, <1>5, <2>1, <2>3, Same DEF NextFile, Go, FirstStage
      <3>2. QED
        BY <1>0, <1>5, <3>1, OneMovesTo DEF Stages, Codes
    <2>4. QED
      BY <2>2, <2>3
  <1>6. ASSUME NEW stage \in {"opening", "filling"}, Go(p, stage), UNCHANGED k,
               disk' \in [Paths -> Contents], wrote' \in [Procs -> SUBSET Paths],
               pc[p] \in {"comparing", "opening"}
        PROVE  TypeOK'
    <2>1. /\ pc' = [pc EXCEPT ![p] = stage] /\ exit' = [exit EXCEPT ![p] = "none"]
          /\ k' = [k EXCEPT ![p] = k[p]] /\ k[p] \in 1 .. Len(plan[p])
      BY <1>0, <1>6, Same DEF Go, InPlace
    <2>2. QED
      BY <1>0, <1>6, <2>1, OneMovesTo DEF Stages, Codes
  <1>7. CASE Compare(p)
    BY <1>0, <1>5, <1>6, <1>7 DEF Compare, history
  <1>8. CASE Open(p)
    <2>1. Current(p).path \in Paths /\ Empty \in Contents
      BY <1>0, <1>1, <1>8, FilesAssumption DEF Open, InPlace, Contents
    <2>2. disk' \in [Paths -> Contents] /\ wrote' \in [Procs -> SUBSET Paths]
      BY <1>0, <1>8, <2>1 DEF Open
    <2>3. QED
      BY <1>6, <1>8, <2>2 DEF Open
  <1>9. CASE Fill(p)
    <2>1. Filled(p) \subseteq Contents
      BY <1>0, <1>1, <1>9 DEF Fill, InPlace, Filled, Contents
    <2>2. disk' \in [Paths -> Contents]
      BY <1>0, <1>9, <2>1 DEF Fill
    <2>3. QED
      BY <1>5, <1>9, <2>2 DEF Fill, history
  <1>10. CASE CutShort(p)
    <2>1. Current(p).path \in Paths /\ "torn" \in Contents
      BY <1>0, <1>1, <1>10 DEF CutShort, InPlace, Contents
    <2>2. disk' \in [Paths -> Contents] /\ wrote' \in [Procs -> SUBSET Paths]
      BY <1>0, <1>10, <2>1 DEF CutShort, history
    <2>3. PICK stage \in {"ended", "killed"}, code \in Codes :
            /\ pc' = [pc EXCEPT ![p] = stage] /\ exit' = [exit EXCEPT ![p] = code]
            /\ k' = [k EXCEPT ![p] = k[p]] /\ (code # "none" <=> stage # "killed")
      BY <1>0, <1>10, Same DEF CutShort, End, Go, InPlace, Codes
    <2>4. QED
      BY <1>0, <2>2, <2>3, Same, OneMovesTo DEF Stages
  <1>11. CASE Look(p)
    <2>1. k[p] \in 1 .. Len(plan[p]) /\ exit[p] = "none" /\ UNCHANGED <<disk, wrote>>
      BY <1>0, <1>11 DEF Look, InPlace, history
    <2>2. PICK stage \in {"looking", "ended"}, code \in Codes, n \in {k[p], k[p] + 1} :
            /\ pc' = [pc EXCEPT ![p] = stage] /\ exit' = [exit EXCEPT ![p] = code]
            /\ k' = [k EXCEPT ![p] = n] /\ (code # "none" <=> stage = "ended")
            /\ (stage = "looking" => n \in 1 .. Len(plan[p]))
      <3>1. CASE Found(p) # Current(p).text
        BY <1>11, <3>1, Same DEF Look, End, Codes
      <3>2. CASE Found(p) = Current(p).text /\ k[p] = Len(plan[p])
        BY <1>11, <3>2 DEF Look, End, Codes
      <3>3. CASE Found(p) = Current(p).text /\ k[p] # Len(plan[p])
        <4>1. /\ pc' = [pc EXCEPT ![p] = "looking"] /\ exit' = [exit EXCEPT ![p] = "none"]
              /\ k' = [k EXCEPT ![p] = k[p] + 1] /\ k[p] + 1 \in 1 .. Len(plan[p])
          BY <1>0, <1>11, <2>1, <3>3, Same DEF Look, Go
        <4>2. QED
          BY <4>1 DEF Codes
      <3>4. QED
        BY <3>1, <3>2, <3>3
    <2>3. n \in Nat /\ stage \in Stages
          /\ stage \notin {"start", "reading", "calling", "checking", "refused", "comparing",
                          "opening", "filling"}
      BY <1>0, <2>2 DEF Stages
    <2>4. QED
      BY <1>0, <2>1, <2>2, <2>3, OneMovesTo
  <1>12. QED
    BY <1>2, <1>3, <1>4, <1>7, <1>8, <1>9, <1>10, <1>11

\* Every step keeps the types.
LEMMA FilesTypeNext ==
  ASSUME TypeOK, [Next]_vars
  PROVE  TypeOK'
  <1>1. ASSUME NEW p \in Procs, Step(p) PROVE TypeOK'
    <2>1. CASE Build(p) \/ Format(p) \/ Decompile(p)
      BY <2>1, ResultSteps, TypeResult
    <2>2. QED
      BY <1>1, <2>1, TypeBefore, TypeWrite DEF Step
  <1>2. ASSUME NEW path \in Paths, NEW text \in UserTexts, Edit(path, text) PROVE TypeOK'
    BY <1>2, FilesAssumption DEF Edit, TypeOK, Contents, procVars, InPlace
  <1>3. CASE UNCHANGED vars
    BY <1>3 DEF vars, procVars, history, TypeOK, InPlace
  <1>4. QED
    BY <1>1, <1>2, <1>3 DEF Next

\* An excuse lasts, and so does what other processes have checked.
LEMMA Lasting ==
  ASSUME UNCHANGED <<cmd, before>>, edited \subseteq edited',
         \A q \in Procs : wrote[q] \subseteq wrote'[q]
  PROVE  /\ \A path : Excused(path) => Excused(path)'
         /\ \A q \in Procs : CheckedSoFar(q) /\ UNCHANGED <<pc[q], plan[q], k[q]>> => CheckedSoFar(q)'
  <1>1. \A path : Excused(path) => Excused(path)'
    BY DEF Excused, Licensed, Has, Is, Outputs
  <1>2. ASSUME NEW q \in Procs, CheckedSoFar(q), UNCHANGED <<pc[q], plan[q], k[q]>>
        PROVE  CheckedSoFar(q)'
    <2>1. \A i : Cleared(q, i) => Cleared(q, i)'
      BY <1>1, <1>2 DEF Cleared, Is
    <2>2. MayWrite(q) => MayWrite(q)'
      BY <1>1, <1>2 DEF MayWrite, Current
    <2>3. QED
      BY <1>2, <2>1, <2>2 DEF CheckedSoFar, Is, Has
  <1>3. QED
    BY <1>1, <1>2

\* A step that opens and fills nothing keeps what it does not touch.
LEMMA QuietStep ==
  ASSUME FilesInv, NEW p \in Procs, UNCHANGED <<disk, cmd, before, wrote, edited>>,
         \A q \in Procs \ {p} : UNCHANGED <<pc[q], plan[q], k[q]>>,
         pc'[p] \in Early => pc[p] \in Early, pc'[p] # "filling",
         \A i \in DOMAIN plan'[p] :
             /\ Is(p, "build") => plan'[p][i].path \in Outputs(p)
             /\ Is(p, "format") => plan'[p][i].path = cmd[p].source,
         CheckedSoFar(p)'
  PROVE  NothingYet' /\ PlanIsNamed' /\ (\A q \in Procs : CheckedSoFar(q)') /\ ReadableFilesNeedForce'
  <1>1. \A q \in Procs : CheckedSoFar(q)'
    BY Lasting DEF FilesInv
  <1>2. NothingYet'
    BY DEF FilesInv, NothingYet, Current
  <1>3. PlanIsNamed'
    BY DEF FilesInv, PlanIsNamed, Is, Outputs
  <1>4. ReadableFilesNeedForce'
    BY DEF FilesInv, ReadableFilesNeedForce, Excused, Licensed, Is, Has, Outputs
  <1>5. QED
    BY <1>1, <1>2, <1>3, <1>4

\* The steps around the checks.
LEMMA CheckSteps ==
  ASSUME FilesInv, NEW p \in Procs,
         \/ Resolve(p) \/ Read(p) \/ CallFails(p) \/ PrintRaw(p)
         \/ StartInstall(p) \/ StartPaths(p) \/ Look(p) \/ Refuse(p)
         \/ Pass(p) \/ AllPassed(p) \/ Compare(p) \/ WriteFails(p) \/ Kill(p)
  PROVE  NothingYet' /\ PlanIsNamed' /\ (\A q \in Procs : CheckedSoFar(q)') /\ ReadableFilesNeedForce'
  <1>0. /\ TypeOK /\ UNCHANGED <<disk, cmd, before, wrote, edited>>
        /\ plan[p] \in Seq(File) /\ InPlace(p) /\ CheckedSoFar(p)
        /\ Len(plan[p]) \in Nat /\ k[p] \in Nat /\ pc[p] \in Stages
    BY Same DEF FilesInv, TypeOK, history, Resolve, Read, CallFails, PrintRaw, Result, StartInstall,
       StartPaths, Look, Refuse, Pass, AllPassed, Compare, WriteFails, Kill
  <1>1. \A path : \A i : Excused(path)' = Excused(path) /\ (plan'[p] = plan[p] => Cleared(p, i)' = Cleared(p, i))
    BY <1>0 DEF Excused, Licensed, Has, Is, Cleared, Outputs
  <1>2. ASSUME NEW i \in 1 .. Len(plan[p]), disk[plan[p][i].path] # before[plan[p][i].path]
        PROVE  before[plan[p][i].path] \in Texts => Excused(plan[p][i].path)
    <2>1. plan[p][i] \in File
      BY <1>0
    <2>2. plan[p][i].path \in Paths
      BY <2>1 DEF File
    <2>3. QED
      BY <1>2, <2>2 DEF FilesInv, ReadableFilesNeedForce
  <1>3. CASE Resolve(p) \/ Read(p) \/ CallFails(p) \/ PrintRaw(p) \/ Refuse(p) \/ WriteFails(p) \/ Kill(p)
    <2>1. /\ pc'[p] \in {"reading", "calling", "ended", "refused", "killed"} /\ plan' = plan /\ k' = k
          /\ \A q \in Procs \ {p} : UNCHANGED pc[q]
          /\ pc'[p] \in Early => pc[p] \in Early
      BY <1>0, <1>3 DEF TypeOK, Resolve, Read, CallFails, PrintRaw, Result, Refuse, WriteFails, Kill, Go, End, Early
    <2>2. CheckedSoFar(p)'
      BY <2>1 DEF CheckedSoFar
    <2>3. QED
      BY <1>0, <2>1, <2>2, QuietStep DEF FilesInv, PlanIsNamed
  <1>4. CASE StartInstall(p)
    <2>1. /\ pc'[p] = (IF Has(p, "force") THEN "comparing" ELSE "checking") /\ pc[p] = "start"
          /\ k' = k /\ k[p] = 1 /\ \A q \in Procs \ {p} : UNCHANGED <<pc[q], plan[q]>>
      BY <1>0, <1>4 DEF TypeOK, StartInstall, Go, InPlace
    <2>2. Is(p, "install") /\ ~Is(p, "build") /\ ~Is(p, "format")
      BY <1>4 DEF StartInstall, Is
    <2>3. 1 .. k'[p] - 1 = {}
      BY <2>1
    <2>4. CheckedSoFar(p)'
      BY <1>0, <2>1, <2>3 DEF CheckedSoFar, Has
    <2>5. QED
      BY <1>0, <2>1, <2>2, <2>4, QuietStep DEF Early
  <1>5. CASE Pass(p)
    <2>1. /\ pc[p] = "checking" /\ k[p] \in 1 .. Len(plan[p]) /\ ~InTheWay(p)
          /\ pc' = pc /\ plan' = plan /\ k'[p] = k[p] + 1
          /\ \A q \in Procs \ {p} : UNCHANGED k[q]
      BY <1>0, <1>5 DEF TypeOK, Pass, InPlace
    <2>2. CASE (Is(p, "decompile") \/ Is(p, "install")) /\ ~Has(p, "force")
      <3>1. before[Current(p).path] \in Texts =>
               before[Current(p).path] \notin {"absent", "unreadable", "torn"}
        BY FilesAssumption
      <3>2. Cleared(p, k[p])
        BY <1>2, <2>1, <2>2, <3>1 DEF Cleared, InTheWay, Found, Current, Readable, Is
      <3>3. \A i \in 1 .. k[p] - 1 : Cleared(p, i)
        BY <1>0, <2>1, <2>2 DEF CheckedSoFar
      <3>4. \A i \in 1 .. k'[p] - 1 : i = k[p] \/ i \in 1 .. k[p] - 1
        BY <1>0, <2>1
      <3>5. CheckedSoFar(p)'
        BY <1>1, <2>1, <3>2, <3>3, <3>4 DEF CheckedSoFar
      <3>6. QED
        BY <1>0, <2>1, <3>5, QuietStep DEF FilesInv, PlanIsNamed
    <2>3. CASE ~((Is(p, "decompile") \/ Is(p, "install")) /\ ~Has(p, "force"))
      <3>1. CheckedSoFar(p)'
        BY <1>0, <2>3 DEF CheckedSoFar, Is, Has
      <3>2. QED
        BY <1>0, <2>1, <3>1, QuietStep DEF FilesInv, PlanIsNamed
    <2>4. QED
      BY <2>2, <2>3
  <1>6. CASE AllPassed(p)
    <2>1. /\ pc[p] = "checking" /\ k[p] = Len(plan[p]) + 1 /\ pc'[p] = FirstStage(p)
          /\ plan' = plan /\ k'[p] = 1 /\ 1 \in DOMAIN plan[p]
          /\ \A q \in Procs \ {p} : UNCHANGED <<pc[q], k[q]>>
      BY <1>0, <1>6, Same DEF TypeOK, AllPassed, Go, InPlace
    <2>2. CASE (Is(p, "decompile") \/ Is(p, "install")) /\ ~Has(p, "force")
      <3>1. \A i \in DOMAIN plan[p] : Cleared(p, i)
        BY <1>0, <2>1, <2>2 DEF CheckedSoFar
      <3>2. Is(p, "decompile") => MayWrite(p)'
        BY <1>0, <1>1, <2>1, <3>1 DEF MayWrite, Cleared, Current, Is
      <3>3. Is(p, "install") => pc'[p] = "comparing"
        BY <2>1 DEF FirstStage
      <3>4. pc'[p] \in {"comparing", "opening"}
        BY <2>1 DEF FirstStage
      <3>5. CheckedSoFar(p)'
        BY <1>1, <2>1, <2>2, <3>1, <3>2, <3>3, <3>4 DEF CheckedSoFar
      <3>6. QED
        BY <1>0, <2>1, <3>4, <3>5, QuietStep DEF FilesInv, PlanIsNamed, Early
    <2>3. CASE ~((Is(p, "decompile") \/ Is(p, "install")) /\ ~Has(p, "force"))
      <3>1. CheckedSoFar(p)'
        BY <1>0, <2>3 DEF CheckedSoFar, Is, Has
      <3>2. QED
        BY <1>0, <2>1, <3>1, QuietStep DEF FilesInv, PlanIsNamed, FirstStage, Early
    <2>4. QED
      BY <2>2, <2>3
  <1>7. CASE Compare(p)
    <2>1. /\ pc[p] = "comparing" /\ k[p] \in 1 .. Len(plan[p]) /\ plan' = plan
          /\ \A q \in Procs \ {p} : UNCHANGED <<pc[q], k[q]>>
          /\ IF Found(p) = Current(p).text THEN TRUE ELSE pc'[p] = "opening" /\ k'[p] = k[p]
          /\ Found(p) = Current(p).text =>
                \/ pc'[p] = "ended"
                \/ pc'[p] = FirstStage(p) /\ k'[p] = k[p] + 1 /\ k'[p] \in 1 .. Len(plan[p])
      BY <1>0, <1>7, Concluding DEF TypeOK, Compare, NextFile, Go, End, InPlace
    <2>2. pc'[p] \in {"comparing", "opening", "ended"}
      BY <2>1 DEF FirstStage
    <2>3. CASE (Is(p, "decompile") \/ Is(p, "install")) /\ ~Has(p, "force")
      <3>1. \A i \in DOMAIN plan[p] : Cleared(p, i)
        BY <1>0, <2>1, <2>3 DEF CheckedSoFar
      <3>2. CASE Found(p) # Current(p).text
        <4>1. Cleared(p, k[p])
          BY <1>0, <2>1, <3>1
        <4>2. MayWrite(p)
          BY <1>2, <2>1, <3>2, <4>1 DEF MayWrite, Cleared, Found, Current
        <4>3. MayWrite(p)'
          BY <1>0, <1>1, <2>1, <3>2, <4>2 DEF MayWrite, Current
        <4>4. CheckedSoFar(p)'
          BY <1>1, <2>1, <2>2, <2>3, <3>1, <3>2, <4>3 DEF CheckedSoFar
        <4>5. QED
          BY <1>0, <2>1, <2>2, <4>4, QuietStep DEF FilesInv, PlanIsNamed, Early
      <3>3. CASE Found(p) = Current(p).text /\ pc'[p] # "ended"
        <4>1. Cleared(p, k'[p]) /\ pc'[p] = FirstStage(p)
          BY <1>0, <2>1, <3>1, <3>3
        <4>2. pc'[p] = "opening" => MayWrite(p)'
          BY <1>0, <1>1, <2>1, <2>3, <4>1 DEF MayWrite, Cleared, Current, Is, FirstStage
        <4>3. CheckedSoFar(p)'
          BY <1>1, <2>1, <2>2, <2>3, <3>1, <4>2 DEF CheckedSoFar
        <4>4. QED
          BY <1>0, <2>1, <2>2, <4>3, QuietStep DEF FilesInv, PlanIsNamed, Early
      <3>4. CASE pc'[p] = "ended"
        <4>1. CheckedSoFar(p)'
          BY <3>4 DEF CheckedSoFar
        <4>2. QED
          BY <1>0, <2>1, <2>2, <4>1, QuietStep DEF FilesInv, PlanIsNamed, Early
      <3>5. QED
        BY <3>2, <3>3, <3>4
    <2>4. CASE ~((Is(p, "decompile") \/ Is(p, "install")) /\ ~Has(p, "force"))
      <3>1. CheckedSoFar(p)'
        BY <1>0, <2>4 DEF CheckedSoFar, Is, Has
      <3>2. QED
        BY <1>0, <2>1, <2>2, <3>1, QuietStep DEF FilesInv, PlanIsNamed, Early
    <2>5. QED
      BY <2>3, <2>4
  <1>8. CASE StartPaths(p) \/ Look(p)
    <2>1. /\ pc[p] \in {"start", "looking"} /\ pc'[p] \in {"looking", "ended"}
          /\ \A q \in Procs \ {p} : UNCHANGED <<pc[q], plan[q], k[q]>>
      BY <1>0, <1>8 DEF TypeOK, StartPaths, Look, Go, End
    <2>2. (~Is(p, "build") /\ ~Is(p, "format")) \/ plan' = plan
      BY <1>8 DEF StartPaths, Look, Is
    <2>3. CheckedSoFar(p)'
      BY <2>1 DEF CheckedSoFar
    <2>4. QED
      BY <1>0, <2>1, <2>2, <2>3, QuietStep DEF FilesInv, PlanIsNamed, Early
  <1>9. QED
    BY <1>3, <1>4, <1>5, <1>6, <1>7, <1>8

\* A plan is made before anything is written, and names what the command names.
LEMMA PlanSteps ==
  ASSUME FilesInv, NEW p \in Procs, Build(p) \/ Format(p) \/ Decompile(p)
  PROVE  NothingYet' /\ PlanIsNamed' /\ (\A q \in Procs : CheckedSoFar(q)') /\ ReadableFilesNeedForce'
  <1>0. /\ TypeOK /\ pc[p] = "calling" /\ UNCHANGED <<disk, cmd, k, before, wrote, edited>>
        /\ k[p] = 1 /\ plan[p] = << >>
    BY ResultSteps DEF FilesInv, TypeOK, InPlace, history
  <1>1. ASSUME NEW files \in Seq(File), NEW stage \in {"checking", "opening"}, WriteAll(p, files, stage),
               \A i \in DOMAIN files :
                   /\ Is(p, "build") => files[i].path \in Outputs(p)
                   /\ Is(p, "format") => files[i].path = cmd[p].source,
               stage = "checking" \/ ~(Is(p, "decompile") \/ Is(p, "install")) \/ Has(p, "force")
        PROVE  NothingYet' /\ PlanIsNamed' /\ (\A q \in Procs : CheckedSoFar(q)') /\ ReadableFilesNeedForce'
    <2>1. /\ pc'[p] \in {stage, "ended"} /\ plan'[p] = files /\ k'[p] = 1
          /\ \A q \in Procs \ {p} : UNCHANGED <<pc[q], plan[q], k[q]>>
      BY <1>0, <1>1, Concluding DEF TypeOK, WriteAll, Go, End
    <2>2. 1 .. k'[p] - 1 = {}
      BY <2>1
    <2>3. CheckedSoFar(p)'
      BY <1>0, <1>1, <2>1, <2>2 DEF CheckedSoFar, Is, Has
    <2>4. QED
      BY <1>0, <1>1, <2>1, <2>3, QuietStep DEF Early
  <1>2. ASSUME NEW code \in Codes, End(p, code), UNCHANGED plan
        PROVE  NothingYet' /\ PlanIsNamed' /\ (\A q \in Procs : CheckedSoFar(q)') /\ ReadableFilesNeedForce'
    <2>1. pc'[p] = "ended" /\ \A q \in Procs \ {p} : UNCHANGED <<pc[q], plan[q], k[q]>>
      BY <1>0, <1>2 DEF TypeOK, End
    <2>2. CheckedSoFar(p)'
      BY <2>1 DEF CheckedSoFar
    <2>3. QED
      BY <1>0, <1>2, <2>1, <2>2, QuietStep DEF Early
  <1>3. QED
    <2>1. ASSUME NEW files \in Seq(File), Is(p, "build"), WriteAll(p, files, "opening"),
                 \A i \in DOMAIN files : files[i].path \in Outputs(p)
          PROVE  NothingYet' /\ PlanIsNamed' /\ (\A q \in Procs : CheckedSoFar(q)') /\ ReadableFilesNeedForce'
      BY <1>1, <2>1 DEF Is
    <2>2. ASSUME NEW text \in Texts, Is(p, "format"),
                 WriteAll(p, <<[path |-> cmd[p].source, text |-> text]>>, "opening"),
                 <<[path |-> cmd[p].source, text |-> text]>> \in Seq(File)
          PROVE  NothingYet' /\ PlanIsNamed' /\ (\A q \in Procs : CheckedSoFar(q)') /\ ReadableFilesNeedForce'
      <3> DEFINE files == <<[path |-> cmd[p].source, text |-> text]>>
      <3>1. \A i \in DOMAIN files : files[i].path = cmd[p].source
        OBVIOUS
      <3>2. ~Is(p, "build") /\ ~(Is(p, "decompile") \/ Is(p, "install"))
        BY <2>2 DEF Is
      <3> HIDE DEF files
      <3>3. files \in Seq(File) /\ WriteAll(p, files, "opening")
        BY <2>2 DEF files
      <3>4. QED
        BY <1>1, <3>1, <3>2, <3>3
    <2>3. ASSUME NEW files \in Seq(File), Is(p, "decompile"),
                 WriteAll(p, files, IF Has(p, "force") THEN "opening" ELSE "checking")
          PROVE  NothingYet' /\ PlanIsNamed' /\ (\A q \in Procs : CheckedSoFar(q)') /\ ReadableFilesNeedForce'
      BY <1>1, <2>3 DEF Is
    <2>4. QED
      BY <1>0, <1>2, <2>1, <2>2, <2>3, ResultSteps

\* A file is opened, and filled, by a command that may, or where nothing of its
\* owner is left to lose.
LEMMA WriteSteps ==
  ASSUME FilesInv, NEW p \in Procs, Open(p) \/ Fill(p) \/ CutShort(p)
  PROVE  NothingYet' /\ PlanIsNamed' /\ (\A q \in Procs : CheckedSoFar(q)') /\ ReadableFilesNeedForce'
  <1> PICK here : here = Current(p).path
    OBVIOUS
  <1>0. /\ TypeOK /\ UNCHANGED <<cmd, plan, before, edited>>
        /\ plan[p] \in Seq(File) /\ k[p] \in 1 .. Len(plan[p]) /\ Len(plan[p]) \in Nat
        /\ pc[p] \in {"opening", "filling"} /\ cmd[p] \in Command
        /\ \A q \in Procs \ {p} : UNCHANGED <<pc[q], k[q], wrote[q]>>
        /\ \A q \in Procs : wrote[q] \subseteq wrote'[q]
    <2>1. TypeOK /\ plan[p] \in Seq(File) /\ Len(plan[p]) \in Nat /\ cmd[p] \in Command
      BY FilesAssumption, Same DEF FilesInv, TypeOK
    <2>2. pc[p] \in {"opening", "filling"} /\ UNCHANGED <<cmd, plan, before, edited>>
      BY DEF Open, Fill, CutShort, history
    <2>3. k[p] \in 1 .. Len(plan[p])
      BY <2>1, <2>2 DEF TypeOK, InPlace
    <2>4. \A q \in Procs : wrote[q] \subseteq wrote'[q]
      <3>1. wrote' = wrote \/ wrote' = [wrote EXCEPT ![p] = @ \cup {Current(p).path}]
        BY DEF Open, Fill, CutShort, history
      <3>2. QED
        BY <2>1, <3>1 DEF TypeOK
    <2>5. \A q \in Procs \ {p} : UNCHANGED <<pc[q], k[q], wrote[q]>>
      BY <2>1, Concluding DEF TypeOK, Open, Fill, CutShort, NextFile, Go, End, history
    <2>6. QED
      BY <2>1, <2>2, <2>3, <2>4, <2>5
  <1>1. pc'[p] \in {"filling", "comparing", "opening", "ended", "killed"}
    BY <1>0, Concluding DEF TypeOK, Open, Fill, CutShort, NextFile, Go, End, FirstStage
  <1>2. /\ \A path : Excused(path) => Excused(path)'
        /\ \A q \in Procs \ {p} : CheckedSoFar(q)'
    BY <1>0, Lasting DEF FilesInv
  <1>3. NothingYet' /\ PlanIsNamed'
    <2>1. PlanIsNamed'
      BY <1>0 DEF FilesInv, PlanIsNamed, Is, Outputs
    <2>2. pc'[p] = "filling" => Current(p)' = Current(p) /\ Current(p).path \in wrote'[p]
      <3>1. CASE Open(p)
        BY <1>0, <3>1 DEF TypeOK, Open, Go, Current
      <3>2. CASE Fill(p)
        BY <1>0, <3>2, Concluding DEF TypeOK, Fill, NextFile, Go, End, FirstStage
      <3>3. CASE CutShort(p)
        BY <1>0, <3>3 DEF TypeOK, CutShort, Go, End
      <3>4. QED
        BY <3>1, <3>2, <3>3
    <2>3. \A q \in Procs \ {p} : Current(q)' = Current(q)
      BY <1>0 DEF Current
    <2>4. QED
      BY <1>0, <1>1, <2>1, <2>2, <2>3 DEF FilesInv, NothingYet, Early
  <1>4. before[here] \in Texts => Excused(here)'
    <2>1. CASE (Is(p, "decompile") \/ Is(p, "install")) /\ ~Has(p, "force")
      <3>1. MayWrite(p)
        BY <1>0, <2>1 DEF FilesInv, CheckedSoFar
      <3>2. QED
        BY <1>2, <3>1 DEF MayWrite
    <2>2. CASE ~((Is(p, "decompile") \/ Is(p, "install")) /\ ~Has(p, "force"))
      <3>1. cmd[p].tool \in Tools
        BY <1>0 DEF Command
      <3>2. Licensed(p, here)
        BY <1>0, <2>2, <3>1 DEF FilesInv, LooksOnly, PlanIsNamed, Licensed, Is, Has, Current, Tools
      <3>3. here \in wrote'[p]
        <4>1. Open(p) \/ pc[p] = "filling"
          BY DEF Fill, CutShort
        <4>2. CASE Open(p)
          BY <1>0, <4>2 DEF TypeOK, Open
        <4>3. CASE pc[p] = "filling"
          BY <1>0, <4>3 DEF FilesInv, NothingYet
        <4>4. QED
          BY <4>1, <4>2, <4>3
      <3>4. QED
        BY <1>0, <3>2, <3>3 DEF Excused, Licensed, Is, Has, Outputs
    <2>3. QED
      BY <2>1, <2>2
  <1>5. ReadableFilesNeedForce'
    <2>1. ASSUME NEW path \in Paths, path # here PROVE disk'[path] = disk[path]
      <3>1. \E content : disk' = [disk EXCEPT ![here] = content]
        BY DEF Open, Fill, CutShort
      <3>2. QED
        BY <1>0, <2>1, <3>1 DEF TypeOK
    <2>2. QED
      BY <1>0, <1>2, <1>4, <2>1 DEF FilesInv, ReadableFilesNeedForce
  <1>6. CheckedSoFar(p)'
    <2>1. CASE (Is(p, "decompile") \/ Is(p, "install")) /\ ~Has(p, "force")
      <3>1. \A i \in DOMAIN plan[p] : Cleared(p, i)
        BY <1>0, <2>1 DEF FilesInv, CheckedSoFar
      <3>2. \A i \in DOMAIN plan[p] : Cleared(p, i)'
        BY <1>0, <1>2, <3>1 DEF Cleared, Is
      <3>3. pc'[p] \in {"opening", "filling"} => MayWrite(p)'
        <4>1. CASE Open(p)
          <5>1. Current(p)' = Current(p)
            BY <1>0, <4>1 DEF Open, Current
          <5>2. QED
            BY <1>0, <1>4, <5>1 DEF MayWrite
        <4>2. CASE Fill(p) /\ pc'[p] = "opening"
          <5>1. Is(p, "decompile") /\ k'[p] \in 1 .. Len(plan[p])
            BY <1>0, <2>1, <4>2, Concluding DEF TypeOK, Fill, NextFile, Go, End, FirstStage, Is
          <5>2. Cleared(p, k'[p])
            BY <1>0, <3>1, <5>1
          <5>3. QED
            BY <1>0, <1>2, <5>1, <5>2 DEF Cleared, MayWrite, Current, Is
        <4>3. CASE Fill(p) /\ pc'[p] # "opening"
          BY <1>0, <4>3, Concluding DEF TypeOK, Fill, NextFile, Go, End, FirstStage
        <4>4. CASE CutShort(p)
          BY <1>0, <4>4 DEF TypeOK, CutShort, Go, End
        <4>5. QED
          BY <4>1, <4>2, <4>3, <4>4
      <3>4. QED
        BY <1>0, <1>1, <3>2, <3>3 DEF CheckedSoFar
    <2>2. CASE ~((Is(p, "decompile") \/ Is(p, "install")) /\ ~Has(p, "force"))
      BY <1>0, <2>2 DEF CheckedSoFar, Is, Has
    <2>3. QED
      BY <2>1, <2>2
  <1>7. QED
    BY <1>2, <1>3, <1>5, <1>6

\* `skill paths` goes on looking.
LEMMA LooksOnlyNext ==
  ASSUME TypeOK, LooksOnly, [Next]_vars
  PROVE  LooksOnly'
  <1>1. ASSUME NEW p \in Procs, Step(p) PROVE LooksOnly'
    <2>1. cmd' = cmd /\ \A q \in Procs \ {p} : pc'[q] = pc[q]
      <3>1. CASE Build(p) \/ Format(p) \/ Decompile(p)
        BY <3>1, Concluding DEF TypeOK, Build, Format, Decompile, WriteAll, Go, End
      <3>2. CASE ~(Build(p) \/ Format(p) \/ Decompile(p))
        BY <1>1, <3>2, Concluding DEF TypeOK, Step, Resolve, Read, StartInstall, StartPaths, Look,
           CallFails, PrintRaw, Refuse, Pass, AllPassed, Compare, Open, WriteFails, CutShort, Fill,
           Kill, NextFile, Go, End
      <3>3. QED
        BY <3>1, <3>2
    <2>2. ASSUME Is(p, "paths") PROVE pc'[p] \in {"start", "looking", "ended", "killed"}
      <3>1. StartPaths(p) \/ Look(p) \/ Kill(p)
        BY <1>1, <2>2 DEF LooksOnly, Step, Resolve, Read, StartInstall, CallFails, PrintRaw, Build,
           Format, Decompile, Result, Refuse, Pass, AllPassed, Compare, Open, WriteFails, CutShort,
           Fill, Is
      <3>2. QED
        BY <3>1 DEF TypeOK, StartPaths, Look, Kill, Go, End
    <2>3. QED
      BY <2>1, <2>2 DEF LooksOnly, Is
  <1>2. CASE (\E path \in Paths, text \in UserTexts : Edit(path, text)) \/ UNCHANGED vars
    BY <1>2 DEF Edit, vars, procVars, LooksOnly, Is
  <1>3. QED
    BY <1>1, <1>2 DEF Next

\* Every step keeps the invariant.
LEMMA FilesNext ==
  ASSUME FilesInv, [Next]_vars
  PROVE  FilesInv'
  <1>0. TypeOK' /\ LooksOnly'
    BY FilesTypeNext, LooksOnlyNext DEF FilesInv
  <1>1. ASSUME NEW p \in Procs, Step(p) PROVE FilesInv'
    BY <1>0, <1>1, CheckSteps, PlanSteps, WriteSteps DEF Step, FilesInv
  <1>2. ASSUME NEW path \in Paths, NEW text \in UserTexts, Edit(path, text) PROVE FilesInv'
    <2>1. /\ UNCHANGED <<procVars, before, wrote>> /\ edited \subseteq edited' /\ path \in edited'
          /\ \A other \in Paths \ {path} : disk'[other] = disk[other]
      BY <1>2 DEF Edit, FilesInv, TypeOK
    <2>2. /\ \A other : Excused(other) => Excused(other)'
          /\ \A q \in Procs : CheckedSoFar(q)'
      BY <2>1, Lasting DEF procVars, FilesInv
    <2>3. ReadableFilesNeedForce'
      BY <2>1, <2>2 DEF FilesInv, ReadableFilesNeedForce, Excused
    <2>4. NothingYet' /\ PlanIsNamed'
      BY <2>1 DEF FilesInv, NothingYet, PlanIsNamed, procVars, Current, Is, Outputs
    <2>5. QED
      BY <1>0, <2>2, <2>3, <2>4 DEF FilesInv
  <1>3. CASE UNCHANGED vars
    <2>1. \A q \in Procs : CheckedSoFar(q)'
      BY <1>3, Lasting DEF vars, procVars, history, FilesInv
    <2>2. NothingYet' /\ PlanIsNamed' /\ ReadableFilesNeedForce'
      BY <1>3 DEF vars, procVars, history, FilesInv, NothingYet, PlanIsNamed, Current, Is,
         ReadableFilesNeedForce, Excused, Licensed, Has, Outputs
    <2>3. QED
      BY <1>0, <2>1, <2>2 DEF FilesInv
  <1>4. QED
    BY <1>1, <1>2, <1>3 DEF Next

\* The inductive invariant of FileCommands.
THEOREM FilesInvariance == Spec => []FilesInv
  BY FilesInit, FilesNext, PTL DEF Spec

\* Every variable of FileCommands keeps its type, and no process runs past the
\* end of its plan.
THEOREM FilesTypeCorrect == Spec => []TypeOK
  <1>1. FilesInv => TypeOK
    BY DEF FilesInv
  <1>2. QED
    BY <1>1, FilesInvariance, PTL

\* A command that refuses to overwrite a file has not written another one.
THEOREM RefusalIsClean == Spec => []RefusedWritesNothing
  <1>1. FilesInv => RefusedWritesNothing
    BY DEF FilesInv, NothingYet, RefusedWritesNothing, Early
  <1>2. QED
    BY <1>1, FilesInvariance, PTL

\* Any number of commands without --force, at once and killed at any step, lose
\* no readable file that was there before.
THEOREM ForceIsNeeded == Spec => []ReadableFilesNeedForce
  <1>1. FilesInv => ReadableFilesNeedForce
    BY DEF FilesInv
  <1>2. QED
    BY <1>1, FilesInvariance, PTL

Checks(p) == Is(p, "format") /\ Has(p, "check") /\ ~Has(p, "raw")

\* `format --check` opens nothing, and its verdict is about what it has read.
CheckInv ==
    \A p \in Procs : Checks(p) =>
        /\ pc[p] \in {"start", "reading", "calling", "ended", "killed"}
        /\ exit[p] = "success" => original[p] \in Texts /\ Fmt[original[p]] = original[p]

LEMMA CheckInit == Init => CheckInv
  BY DEF Init, CheckInv

\* Only its own steps matter to a check, and only Format lets it succeed.
LEMMA CheckNext ==
  ASSUME TypeOK, CheckInv, [Next]_vars
  PROVE  CheckInv'
  <1>1. ASSUME NEW p \in Procs, Step(p) PROVE CheckInv'
    <2>1. cmd' = cmd /\ \A q \in Procs \ {p} : UNCHANGED <<pc[q], exit[q], original[q]>>
      <3>1. CASE Build(p) \/ Format(p) \/ Decompile(p)
        BY <3>1, Concluding DEF TypeOK, Build, Format, Decompile, WriteAll, Go, End
      <3>2. CASE ~(Build(p) \/ Format(p) \/ Decompile(p))
        BY <1>1, <3>2, Concluding DEF TypeOK, Step, Resolve, Read, StartInstall, StartPaths, Look,
           CallFails, PrintRaw, Refuse, Pass, AllPassed, Compare, Open, WriteFails, CutShort, Fill,
           Kill, NextFile, Go, End
      <3>3. QED
        BY <3>1, <3>2
    <2>2. ASSUME Checks(p)
          PROVE  /\ pc'[p] \in {"start", "reading", "calling", "ended", "killed"}
                 /\ exit'[p] = "success" => original'[p] \in Texts /\ Fmt[original'[p]] = original'[p]
      <3>1. pc[p] \in {"start", "reading", "calling", "ended", "killed"} /\ InPlace(p)
        BY <2>2 DEF CheckInv, TypeOK
      <3>2. Resolve(p) \/ Read(p) \/ CallFails(p) \/ Format(p) \/ Kill(p)
        BY <1>1, <2>2, <3>1 DEF Checks, Step, StartInstall, StartPaths, Look, PrintRaw, Build,
           Decompile, Refuse, Pass, AllPassed, Compare, Open, WriteFails, CutShort, Fill, Is
      <3>3. CASE Resolve(p) \/ Read(p) \/ CallFails(p)
        BY <3>1, <3>3 DEF TypeOK, InPlace, Resolve, Read, CallFails, Go, End
      <3>4. CASE Format(p)
        <4>1. PICK content \in Formatted(p) :
                IF Has(p, "write") /\ content # original[p]
                THEN WriteAll(p, <<[path |-> cmd[p].source, text |-> content]>>, "opening")
                ELSE /\ End(p, IF Has(p, "check") /\ content # original[p] THEN "toolError" ELSE "success")
                     /\ UNCHANGED plan
          BY <3>4 DEF Format
        <4>2. ~Has(p, "write")
          BY <2>2, FilesAssumption DEF TypeOK, Checks, Has
        <4>3. /\ content \in Texts /\ Fmt[content] = content /\ original' = original
              /\ End(p, IF content # original[p] THEN "toolError" ELSE "success")
          BY <2>2, <3>4, <4>1, <4>2, FormattedIsFormatted DEF Format, Checks
        <4>4. QED
          BY <4>3 DEF TypeOK, End
      <3>5. CASE Kill(p)
        BY <2>2, <3>5 DEF TypeOK, CheckInv, Kill
      <3>6. QED
        BY <3>2, <3>3, <3>4, <3>5
    <2>3. QED
      BY <2>1, <2>2 DEF CheckInv, Checks, Is, Has
  <1>2. CASE (\E path \in Paths, text \in UserTexts : Edit(path, text)) \/ UNCHANGED vars
    BY <1>2 DEF Edit, vars, procVars, CheckInv, Checks, Is, Has
  <1>3. QED
    BY <1>1, <1>2 DEF Next

\* Whoever edits the file between the client's read and the server's, a check
\* that succeeds has read a text that the formatter leaves as it is.
THEOREM ChecksAreTrue == Spec => []CheckTellsTheTruth
  <1>1. CheckInv => CheckTellsTheTruth
    BY DEF CheckInv, Checks, CheckTellsTheTruth
  <1>2. FilesInv => TypeOK
    BY DEF FilesInv
  <1>3. QED
    BY <1>1, <1>2, CheckInit, CheckNext, FilesInvariance, PTL DEF Spec

-----------------------------------------------------------------------------
(* The files that a command announces are there, although every file is    *)
(* truncated before it is filled and others write at the same time.        *)

\* A command that is done has passed its whole plan; build, format and
\* decompile have written what they have passed, `skill paths` writes nothing.
Whole(p) ==
    /\ pc[p] = "comparing" => Is(p, "install")
    /\ pc[p] = "looking" => Is(p, "paths")
    /\ pc[p] = "refused" => exit[p] = "usageError"
    /\ Is(p, "paths") => wrote[p] = {}
    /\ Done(p) /\ ~Is(p, "paths") => k[p] > Len(plan[p])
    /\ (pc[p] \in {"opening", "filling"} \/ Done(p)) /\ ~Is(p, "install") /\ ~Is(p, "paths")
         => \A j \in DOMAIN plan[p] : j < k[p] => plan[p][j].path \in wrote[p]

WholePlan == \A p \in Procs : Whole(p)

\* The process goes on or is done, and of the files of its plan at this path it
\* has come to the last, which is this one.
Settled(p, file) ==
    /\ pc[p] \in {"comparing", "opening", "filling"} \/ Done(p)
    /\ \E j \in DOMAIN plan[p] :
         /\ plan[p][j] = file
         /\ \A l \in j + 1 .. Len(plan[p]) : plan[p][l].path # file.path
         /\ k[p] > j \/ (k[p] = j /\ pc[p] = "filling")

\* A skill command has passed this file, by writing it or by finding it there.
Sees(p, file) ==
    /\ Is(p, "install") \/ Is(p, "paths")
    /\ pc[p] \in {"comparing", "opening", "filling", "looking", "ended"}
    /\ \E j \in DOMAIN plan[p] : plan[p][j] = file /\ j < k[p]

\* All that have opened this path are settled on this file, and somebody has
\* opened it or found it there.
Agreed(file) ==
    /\ file.path \notin edited
    /\ \A p \in Procs : file.path \in wrote[p] => Settled(p, file)
    /\ \E p \in Procs : file.path \in wrote[p] \/ Sees(p, file)

FillsIt(p, file) == pc[p] = "filling" /\ Current(p).path = file.path

\* The file is there, or will be when it is filled.
Standing(file) ==
    \/ disk[file.path] = file.text
    \/ disk[file.path] = Empty /\ \E p \in Procs : FillsIt(p, file)

AgreeInv == \A file \in File : Agreed(file) => Standing(file)

-----------------------------------------------------------------------------
\* A step of one process leaves the others where they are.
LEMMA OthersStay ==
  ASSUME TypeOK, NEW p \in Procs, Step(p)
  PROVE  /\ cmd' = cmd /\ edited' = edited
         /\ \A q \in Procs \ {p} : UNCHANGED <<pc[q], plan[q], k[q], exit[q], wrote[q]>>
  <1>1. CASE Build(p) \/ Format(p) \/ Decompile(p)
    <2>1. UNCHANGED <<cmd, k, wrote, edited>>
      BY <1>1, ResultSteps DEF history
    <2>2. \/ \E files \in Seq(File), stage \in {"checking", "opening"} : WriteAll(p, files, stage)
          \/ \E code \in Codes \ {"none"} : End(p, code) /\ UNCHANGED plan
      BY <1>1, ResultSteps
    <2>3. \A q \in Procs \ {p} : UNCHANGED <<pc[q], plan[q], exit[q]>>
      BY <2>2, Concluding DEF TypeOK, WriteAll, Go, End
    <2>4. QED
      BY <2>1, <2>3
  <1>2. CASE Resolve(p) \/ Read(p) \/ StartInstall(p) \/ StartPaths(p) \/ CallFails(p) \/ PrintRaw(p)
             \/ Refuse(p) \/ Pass(p) \/ AllPassed(p)
    BY <1>2 DEF TypeOK, Resolve, Read, StartInstall, StartPaths, CallFails, PrintRaw, Refuse, Pass,
       AllPassed, Go, End, history
  <1>3. CASE Look(p) \/ Open(p) \/ WriteFails(p) \/ CutShort(p) \/ Kill(p)
    BY <1>3 DEF TypeOK, Look, Open, WriteFails, CutShort, Kill, Go, End, history
  <1>4. CASE Compare(p) \/ Fill(p)
    BY <1>4, Concluding DEF TypeOK, Compare, Fill, NextFile, Go, End, history
  <1>5. QED
    BY <1>1, <1>2, <1>3, <1>4 DEF Step

\* A step of p leaves the agreement on a file as it was, when it does not write
\* there and makes p no more settled, nor a witness.
LEMMA Calm ==
  ASSUME TypeOK, NothingYet, AgreeInv, NEW p \in Procs, NEW file \in File,
         cmd' = cmd, edited' = edited,
         \A q \in Procs \ {p} : UNCHANGED <<pc[q], plan[q], k[q], exit[q], wrote[q]>>,
         disk'[file.path] = disk[file.path],
         file.path \in wrote'[p] <=> file.path \in wrote[p],
         file.path \in wrote[p] /\ Settled(p, file)' => Settled(p, file),
         Sees(p, file)' => Sees(p, file),
         ~FillsIt(p, file) \/ ~Settled(p, file)',
         Agreed(file)'
  PROVE  Standing(file)'
  <1>1. \A q \in Procs \ {p} : (Settled(q, file)' <=> Settled(q, file)) /\ (Sees(q, file)' <=> Sees(q, file))
                               /\ (FillsIt(q, file)' <=> FillsIt(q, file))
    BY DEF Settled, Sees, FillsIt, Current, Done, Is
  <1>2. Agreed(file)
    BY <1>1 DEF Agreed
  <1>3. Standing(file)
    BY <1>2 DEF AgreeInv
  <1>4. ~FillsIt(p, file)
    BY DEF FillsIt, NothingYet, Agreed
  <1>5. QED
    BY <1>1, <1>3, <1>4 DEF Standing

\* Going on in its plan past any file but this one makes p no more settled on
\* this one, nor a witness of it.
LEMMA GoesOn ==
  ASSUME TypeOK, NEW p \in Procs, NEW file \in File,
         pc[p] \in {"comparing", "looking", "opening", "filling"}, cmd' = cmd,
         plan'[p] = plan[p], k'[p] = k[p] \/ (k'[p] = k[p] + 1 /\ Current(p) # file),
         pc'[p] = "filling" => Current(p) # file /\ k'[p] = k[p]
  PROVE  /\ pc[p] # "looking" /\ Settled(p, file)' => Settled(p, file)
         /\ Sees(p, file)' => Sees(p, file)
  <1>1. plan[p] \in Seq(File) /\ k[p] \in Nat
    BY DEF TypeOK
  <1>2. \A j \in DOMAIN plan[p] : plan[p][j] = file /\ j < k'[p] => j < k[p]
    BY <1>1 DEF Current
  <1>3. \A j \in DOMAIN plan[p] : plan[p][j] = file /\ k'[p] = j /\ pc'[p] = "filling" => FALSE
    BY DEF Current
  <1>4. ASSUME pc[p] # "looking", Settled(p, file)' PROVE Settled(p, file)
    <2>1. PICK j \in DOMAIN plan[p] :
             /\ plan[p][j] = file
             /\ \A l \in j + 1 .. Len(plan[p]) : plan[p][l].path # file.path
             /\ k'[p] > j \/ (k'[p] = j /\ pc'[p] = "filling")
      BY <1>4 DEF Settled
    <2>2. k[p] > j
      <3>1. k'[p] > j
        BY <1>3, <2>1
      <3>2. j \in Nat /\ k'[p] \in Nat
        BY <1>1
      <3>3. QED
        BY <1>1, <1>2, <2>1, <3>1, <3>2
    <2>3. QED
      BY <1>4, <2>1, <2>2 DEF Settled
  <1>5. ASSUME Sees(p, file)' PROVE Sees(p, file)
    BY <1>2, <1>5 DEF Sees, Is
  <1>6. QED
    BY <1>4, <1>5

\* Before it opens a file a process disturbs no agreement.
LEMMA EarlySteps ==
  ASSUME TypeOK, NothingYet, AgreeInv, NEW p \in Procs, NEW file \in File, Agreed(file)',
         \/ Resolve(p) \/ Read(p) \/ StartInstall(p) \/ StartPaths(p) \/ CallFails(p) \/ PrintRaw(p)
         \/ Build(p) \/ Format(p) \/ Decompile(p) \/ Refuse(p) \/ Pass(p) \/ AllPassed(p)
  PROVE  Standing(file)'
  <1>1. /\ cmd' = cmd /\ edited' = edited
        /\ \A q \in Procs \ {p} : UNCHANGED <<pc[q], plan[q], k[q], exit[q], wrote[q]>>
    BY OthersStay DEF Step
  <1>2. pc[p] \in {"start", "reading", "calling", "checking"} /\ disk' = disk /\ wrote' = wrote
    BY DEF Resolve, Read, StartInstall, StartPaths, CallFails, PrintRaw, Build, Format, Decompile,
       Result, Refuse, Pass, AllPassed, history
  <1>3. wrote[p] = {} /\ ~FillsIt(p, file)
    BY <1>2 DEF NothingYet, Early, FillsIt
  <1>4. ~Sees(p, file)'
    <2>1. CASE StartInstall(p) \/ StartPaths(p)
      <3>1. SkillFiles \in Seq(File) /\ plan'[p] = SkillFiles /\ k'[p] = 1
        BY <2>1, FilesAssumption DEF StartInstall, StartPaths, TypeOK, InPlace
      <3>2. QED
        BY <3>1 DEF Sees
    <2>2. CASE AllPassed(p)
      BY <2>2 DEF AllPassed, TypeOK, Sees
    <2>3. CASE Resolve(p) \/ Read(p) \/ CallFails(p) \/ PrintRaw(p) \/ Build(p) \/ Format(p) \/ Decompile(p)
      <3>1. Is(p, "install") \/ Is(p, "paths") => k'[p] = 1 /\ plan'[p] = << >>
        <4>1. pc[p] \in {"start", "reading", "calling"} /\ k' = k /\ plan[p] = << >> /\ k[p] = 1
          BY <2>3 DEF TypeOK, InPlace, Resolve, Read, CallFails, PrintRaw, Build, Format, Decompile, Result
        <4>2. CASE Build(p) \/ Format(p) \/ Decompile(p)
          BY <4>2 DEF Build, Format, Decompile, Is
        <4>3. CASE ~(Build(p) \/ Format(p) \/ Decompile(p))
          BY <2>3, <4>1, <4>3 DEF Resolve, Read, CallFails, PrintRaw
        <4>4. QED
          BY <4>2, <4>3
      <3>2. QED
        BY <1>1, <3>1 DEF Sees, Is
    <2>4. CASE Refuse(p) \/ Pass(p)
      BY <1>2, <2>4 DEF Refuse, Pass, TypeOK, Sees
    <2>5. QED
      BY <2>1, <2>2, <2>3, <2>4
  <1>5. QED
    BY <1>1, <1>2, <1>3, <1>4, Calm

\* A file found as it should be is there; passing another changes nothing.
LEMMA LookingSteps ==
  ASSUME TypeOK, NothingYet, WholePlan, AgreeInv, NEW p \in Procs, NEW file \in File, Agreed(file)',
         Look(p) \/ Compare(p)
  PROVE  Standing(file)'
  <1>1. /\ cmd' = cmd /\ edited' = edited
        /\ \A q \in Procs \ {p} : UNCHANGED <<pc[q], plan[q], k[q], exit[q], wrote[q]>>
    BY OthersStay DEF Step
  <1>2. /\ disk' = disk /\ wrote' = wrote /\ plan' = plan
        /\ pc[p] = "looking" \/ pc[p] = "comparing"
        /\ pc'[p] # "filling"
        /\ k'[p] = k[p] \/ (k'[p] = k[p] + 1 /\ Found(p) = Current(p).text)
    BY Concluding DEF Look, Compare, NextFile, FirstStage, Go, End, history, TypeOK
  <1>3. CASE Current(p) = file /\ k'[p] # k[p]
    BY <1>2, <1>3 DEF Standing, Found
  <1>4. CASE ~(Current(p) = file /\ k'[p] # k[p])
    <2>1. /\ pc[p] # "looking" /\ Settled(p, file)' => Settled(p, file)
          /\ Sees(p, file)' => Sees(p, file)
      BY <1>1, <1>2, <1>4, GoesOn
    <2>2. pc[p] = "looking" => wrote[p] = {}
      BY DEF WholePlan, Whole
    <2>3. ~FillsIt(p, file)
      BY <1>2 DEF FillsIt
    <2>4. QED
      BY <1>1, <1>2, <2>1, <2>2, <2>3, Calm
  <1>5. QED
    BY <1>3, <1>4

\* A file that is opened will be filled; another is not touched.
LEMMA OpenStep ==
  ASSUME TypeOK, NothingYet, AgreeInv, NEW p \in Procs, NEW file \in File, Agreed(file)', Open(p)
  PROVE  Standing(file)'
  <1>1. /\ cmd' = cmd /\ edited' = edited
        /\ \A q \in Procs \ {p} : UNCHANGED <<pc[q], plan[q], k[q], exit[q], wrote[q]>>
    BY OthersStay DEF Step
  <1>2. /\ pc[p] = "opening" /\ pc'[p] = "filling" /\ plan' = plan /\ k' = k
        /\ disk' = [disk EXCEPT ![Current(p).path] = Empty]
        /\ wrote'[p] = wrote[p] \cup {Current(p).path}
    BY DEF Open, Go, TypeOK
  <1>3. file.path \in Paths /\ disk \in [Paths -> Contents]
    BY DEF File, TypeOK
  <1>4. CASE Current(p).path = file.path
    <2>1. Current(p)' = Current(p)
      BY <1>2 DEF Current
    <2>2. FillsIt(p, file)'
      BY <1>2, <1>4, <2>1 DEF FillsIt
    <2>3. disk'[file.path] = Empty
      BY <1>2, <1>3, <1>4
    <2>4. QED
      BY <2>2, <2>3 DEF Standing
  <1>5. CASE Current(p).path # file.path
    <2>1. (Settled(p, file)' => Settled(p, file)) /\ (Sees(p, file)' => Sees(p, file))
      BY <1>1, <1>2, <1>5, GoesOn
    <2>2. disk'[file.path] = disk[file.path] /\ ~FillsIt(p, file)
      BY <1>2, <1>3, <1>5 DEF FillsIt
    <2>3. wrote'[p] = wrote[p] \cup {Current(p).path} => (file.path \in wrote'[p] <=> file.path \in wrote[p])
      BY <1>5
    <2>4. QED
      BY <1>1, <1>2, <2>1, <2>2, <2>3, Calm
  <1>6. QED
    BY <1>4, <1>5

\* A process that stops short is not settled on what it has opened.
LEMMA StoppingSteps ==
  ASSUME TypeOK, NothingYet, AgreeInv, NEW p \in Procs, NEW file \in File, Agreed(file)',
         WriteFails(p) \/ CutShort(p) \/ Kill(p)
  PROVE  Standing(file)'
  <1>1. /\ cmd' = cmd /\ edited' = edited
        /\ \A q \in Procs \ {p} : UNCHANGED <<pc[q], plan[q], k[q], exit[q], wrote[q]>>
    BY OthersStay DEF Step
  <1>2. /\ plan' = plan /\ k' = k /\ wrote' = wrote
        /\ \/ pc'[p] = "killed" /\ exit'[p] = "none"
           \/ pc'[p] = "ended" /\ exit'[p] = "usageError" /\ pc[p] \in {"opening", "filling"}
    BY DEF WriteFails, CutShort, Kill, Go, End, history, TypeOK, InPlace
  <1>3. ~Settled(p, file)' /\ file.path \notin wrote[p]
    BY <1>2 DEF Settled, Done, Agreed
  <1>4. Sees(p, file)' => Sees(p, file)
    BY <1>1, <1>2 DEF Sees, Is
  <1>5. disk'[file.path] = disk[file.path]
    <2>1. CASE CutShort(p)
      <3>1. Current(p).path # file.path
        BY <1>3, <2>1 DEF CutShort, NothingYet
      <3>2. QED
        BY <2>1, <3>1 DEF CutShort, TypeOK, File
    <2>2. CASE WriteFails(p) \/ Kill(p)
      BY <2>2 DEF WriteFails, Kill
    <2>3. QED
      BY <2>1, <2>2
  <1>6. QED
    BY <1>1, <1>2, <1>3, <1>4, <1>5, Calm

\* A file that is filled for the last time has its text, since whoever else
\* has it open fills in the same.
LEMMA FillStep ==
  ASSUME TypeOK, NothingYet, AgreeInv, NEW p \in Procs, NEW file \in File, Agreed(file)', Fill(p)
  PROVE  Standing(file)'
  <1>1. /\ cmd' = cmd /\ edited' = edited
        /\ \A q \in Procs \ {p} : UNCHANGED <<pc[q], plan[q], k[q], exit[q], wrote[q]>>
    BY OthersStay DEF Step
  <1>2. /\ pc[p] = "filling" /\ pc'[p] # "filling" /\ plan' = plan /\ k'[p] = k[p] + 1 /\ wrote' = wrote
        /\ \E content \in Filled(p) : disk' = [disk EXCEPT ![Current(p).path] = content]
    <2>1. pc[p] = "filling" /\ plan' = plan /\ wrote' = wrote
          /\ \E content \in Filled(p) : disk' = [disk EXCEPT ![Current(p).path] = content]
      BY DEF Fill, history
    <2>2. NextFile(p)
      BY DEF Fill
    <2>3. pc'[p] # "filling" /\ k'[p] = k[p] + 1
      BY <2>2, Concluding DEF NextFile, FirstStage, Go, End, TypeOK
    <2>4. QED
      BY <2>1, <2>3
  <1>3. file.path \in Paths /\ disk \in [Paths -> Contents] /\ plan[p] \in Seq(File)
        /\ k[p] \in 1 .. Len(plan[p]) /\ k[p] \in DOMAIN plan[p]
    <2>1. disk \in [Paths -> Contents] /\ plan[p] \in Seq(File) /\ InPlace(p)
      BY DEF TypeOK
    <2>2. k[p] \in 1 .. Len(plan[p])
      BY <1>2, <2>1 DEF InPlace
    <2>3. QED
      BY <2>1, <2>2 DEF File
  <1>4. CASE Current(p).path = file.path
    <2>1. Settled(p, file)' /\ file.path \in wrote[p]
      BY <1>2, <1>4 DEF NothingYet, Agreed
    <2>2. PICK j \in DOMAIN plan[p] :
             /\ plan[p][j] = file
             /\ \A l \in j + 1 .. Len(plan[p]) : plan[p][l].path # file.path
             /\ k'[p] > j
      BY <1>2, <2>1 DEF Settled
    <2>3. j = k[p]
      <3>1. j \in Nat /\ j <= k[p]
        BY <1>2, <1>3, <2>2
      <3>2. ~(k[p] \in j + 1 .. Len(plan[p]))
        BY <1>4, <2>2 DEF Current
      <3>3. QED
        BY <1>3, <3>1, <3>2
    <2>4. Settled(p, file) /\ Current(p) = file
      BY <1>2, <2>2, <2>3 DEF Settled, Current
    <2>5. \A q \in Procs \ {p} : (Settled(q, file)' <=> Settled(q, file))
      BY <1>1 DEF Settled, Done
    <2>6. Agreed(file)
      BY <1>1, <1>2, <2>1, <2>4, <2>5 DEF Agreed
    <2>7. Found(p) \in {Empty, file.text}
      BY <2>4, <2>6 DEF AgreeInv, Standing, Found
    <2>8. Filled(p) = {file.text}
      BY <2>4, <2>7 DEF Filled
    <2>9. disk'[file.path] = file.text
      BY <1>2, <1>3, <2>4, <2>8
    <2>10. QED
      BY <2>9 DEF Standing
  <1>5. CASE Current(p).path # file.path
    <2>1. (Settled(p, file)' => Settled(p, file)) /\ (Sees(p, file)' => Sees(p, file))
      BY <1>1, <1>2, <1>5, GoesOn
    <2>2. disk'[file.path] = disk[file.path] /\ ~FillsIt(p, file)
      BY <1>2, <1>3, <1>5 DEF FillsIt
    <2>3. QED
      BY <1>1, <1>2, <2>1, <2>2, Calm
  <1>6. QED
    BY <1>4, <1>5

\* Everybody agrees on a file that is there, or will be.
LEMMA AgreeNext ==
  ASSUME TypeOK, NothingYet, WholePlan, AgreeInv, [Next]_vars
  PROVE  AgreeInv'
  <1> SUFFICES ASSUME NEW file \in File, Agreed(file)' PROVE Standing(file)'
    BY DEF AgreeInv
  <1>1. ASSUME NEW p \in Procs, Step(p) PROVE Standing(file)'
    BY <1>1, EarlySteps, LookingSteps, OpenStep, StoppingSteps, FillStep DEF Step
  <1>2. CASE (\E path \in Paths, text \in UserTexts : Edit(path, text)) \/ UNCHANGED vars
    <2>1. UNCHANGED <<pc, plan, k, exit, wrote, cmd>> /\ edited \subseteq edited'
      BY <1>2 DEF Edit, vars, procVars, history
    <2>2. /\ \A q \in Procs : Settled(q, file)' <=> Settled(q, file)
          /\ \A q \in Procs : Sees(q, file)' <=> Sees(q, file)
          /\ \A q \in Procs : FillsIt(q, file)' <=> FillsIt(q, file)
      BY <2>1 DEF Settled, Sees, FillsIt, Current, Done, Is
    <2>3. Agreed(file)
      BY <2>1, <2>2 DEF Agreed
    <2>4. disk'[file.path] = disk[file.path]
      BY <1>2, <2>1 DEF Edit, vars, Agreed, TypeOK, File
    <2>5. QED
      BY <2>2, <2>3, <2>4 DEF AgreeInv, Standing
  <1>3. QED
    BY <1>1, <1>2 DEF Next

LEMMA AgreeInit == Init => AgreeInv /\ WholePlan
  <1> SUFFICES ASSUME Init PROVE AgreeInv /\ WholePlan
    OBVIOUS
  <1>1. WholePlan
    BY DEF Init, WholePlan, Whole, Done
  <1>2. \A file \in File : ~Agreed(file)
    BY DEF Init, Agreed, Sees
  <1>3. QED
    BY <1>1, <1>2 DEF AgreeInv

\* The steps before the first file is opened.
LEMMA WholeEarly ==
  ASSUME TypeOK, NothingYet, LooksOnly, NEW p \in Procs, Whole(p), cmd' = cmd,
         \/ Resolve(p) \/ Read(p) \/ StartInstall(p) \/ StartPaths(p) \/ Look(p)
         \/ CallFails(p) \/ PrintRaw(p) \/ Refuse(p) \/ Pass(p) \/ AllPassed(p)
  PROVE  Whole(p)'
  <1>1. /\ pc[p] \in {"start", "reading", "calling", "looking", "checking"}
        /\ wrote' = wrote /\ wrote[p] = {} /\ exit[p] = "none"
        /\ plan[p] \in Seq(File) /\ k[p] \in Nat
    BY DEF Resolve, Read, StartInstall, StartPaths, Look, CallFails, PrintRaw, Refuse, Pass, AllPassed,
       Result, history, NothingYet, Early, TypeOK, InPlace
  <1>2. CASE Resolve(p) \/ Read(p) \/ CallFails(p) \/ PrintRaw(p)
    <2>1. /\ plan'[p] = << >> /\ k'[p] = 1 /\ pc'[p] \in {"reading", "calling", "ended"}
      BY <1>2 DEF Resolve, Read, CallFails, PrintRaw, Result, Go, End, TypeOK, InPlace
    <2>2. QED
      BY <1>1, <2>1 DEF Whole, Is
  <1>3. CASE StartInstall(p) \/ StartPaths(p)
    BY <1>1, <1>3 DEF StartInstall, StartPaths, Go, Whole, Done, Is, TypeOK
  <1>4. CASE Look(p)
    BY <1>1, <1>4 DEF Look, Go, End, Whole, Is, TypeOK
  <1>5. CASE Refuse(p) \/ Pass(p)
    BY <1>1, <1>5 DEF Refuse, Pass, Whole, Done, Is, TypeOK
  <1>6. CASE AllPassed(p)
    <2>1. pc'[p] = FirstStage(p) /\ exit'[p] = "none" /\ k'[p] = 1 /\ plan' = plan
      BY <1>1, <1>6 DEF AllPassed, Go, TypeOK
    <2>2. QED
      BY <1>1, <2>1 DEF FirstStage, Whole, Done, Is
  <1>7. QED
    BY <1>2, <1>3, <1>4, <1>5, <1>6

\* A result makes a plan of which nothing is passed, or none.
LEMMA WholeResult ==
  ASSUME TypeOK, NothingYet, NEW p \in Procs, Whole(p), cmd' = cmd,
         Build(p) \/ Format(p) \/ Decompile(p)
  PROVE  Whole(p)'
  <1>1. /\ pc[p] = "calling" /\ wrote'[p] = {} /\ exit[p] = "none" /\ k'[p] = 1 /\ plan[p] = << >>
    BY ResultSteps DEF NothingYet, Early, TypeOK, InPlace, history
  <1>2. \/ \E files \in Seq(File), stage \in {"checking", "opening"} : WriteAll(p, files, stage)
        \/ \E code \in Codes \ {"none"} : End(p, code) /\ UNCHANGED plan
    BY ResultSteps
  <1>3. /\ plan'[p] \in Seq(File) /\ pc'[p] \in {"checking", "opening", "ended"}
        /\ pc'[p] # "ended" => exit'[p] = "none"
        /\ pc'[p] = "ended" => plan'[p] = << >>
    BY <1>1, <1>2, Concluding DEF WriteAll, Go, End, TypeOK
  <1>4. QED
    BY <1>1, <1>3 DEF Whole, Done, Is

\* The steps on the files keep count of what is passed and written.
LEMMA WholeWriting ==
  ASSUME TypeOK, NothingYet, LooksOnly, NEW p \in Procs, Whole(p), cmd' = cmd,
         Compare(p) \/ Open(p) \/ WriteFails(p) \/ CutShort(p) \/ Fill(p) \/ Kill(p)
  PROVE  Whole(p)'
  <1>1. plan' = plan /\ plan[p] \in Seq(File) /\ k[p] \in Nat /\ InPlace(p)
    BY DEF Compare, Open, WriteFails, CutShort, Fill, Kill, TypeOK
  <1>2. CASE Compare(p)
    <2>1. Is(p, "install") /\ wrote' = wrote /\ exit[p] = "none"
      BY <1>1, <1>2 DEF Compare, Whole, history, InPlace
    <2>2. /\ pc'[p] \in {"opening", "comparing", "ended"}
          /\ pc'[p] = "ended" => k'[p] > Len(plan[p])
          /\ pc'[p] # "ended" => exit'[p] = "none"
      BY <1>1, <1>2, <2>1, Concluding DEF Compare, NextFile, FirstStage, Go, End, TypeOK
    <2>3. QED
      BY <1>1, <2>1, <2>2 DEF Whole, Done, Is
  <1>3. CASE Open(p)
    <2>1. /\ pc[p] = "opening" /\ pc'[p] = "filling" /\ exit'[p] = "none" /\ k' = k
          /\ wrote[p] \subseteq wrote'[p]
      BY <1>1, <1>3 DEF Open, Go, InPlace, TypeOK
    <2>2. ~Is(p, "paths")
      BY <2>1 DEF LooksOnly
    <2>3. QED
      BY <1>1, <2>1, <2>2 DEF Whole, Done, Is
  <1>4. CASE WriteFails(p) \/ CutShort(p) \/ Kill(p)
    <2>1. /\ pc'[p] \in {"ended", "killed"} /\ exit'[p] \in {"none", "usageError"}
          /\ wrote' = wrote
      BY <1>1, <1>4 DEF WriteFails, CutShort, Kill, Go, End, history, InPlace, TypeOK
    <2>2. QED
      BY <1>1, <2>1 DEF Whole, Done, Is
  <1>5. CASE Fill(p)
    <2>1. pc[p] = "filling" /\ wrote' = wrote /\ exit[p] = "none" /\ k[p] \in 1 .. Len(plan[p])
      BY <1>1, <1>5 DEF Fill, history, InPlace
    <2>2. ~Is(p, "paths") /\ Current(p).path \in wrote[p]
      BY <2>1 DEF LooksOnly, NothingYet
    <2>3. /\ k'[p] = k[p] + 1 /\ pc'[p] \in {"opening", "comparing", "ended"}
          /\ pc'[p] = "comparing" => Is(p, "install")
          /\ pc'[p] = "ended" => k[p] = Len(plan[p])
          /\ pc'[p] # "ended" => exit'[p] = "none"
      BY <1>1, <1>5, <2>1, Concluding DEF Fill, NextFile, FirstStage, Go, End, TypeOK
    <2>4. ASSUME ~Is(p, "install"), NEW j \in DOMAIN plan[p], j < k'[p]
          PROVE  plan[p][j].path \in wrote[p]
      <3>1. j < k[p] \/ j = k[p]
        BY <1>1, <2>3, <2>4
      <3>2. QED
        BY <2>1, <2>2, <2>4, <3>1 DEF Whole, Current
    <2>5. Done(p)' => k'[p] > Len(plan[p])
      BY <1>1, <2>3 DEF Done
    <2>6. QED
      BY <1>1, <2>1, <2>2, <2>3, <2>4, <2>5 DEF Whole, Is
  <1>6. QED
    BY <1>2, <1>3, <1>4, <1>5

\* Every step keeps the account of the plans.
LEMMA WholePlanNext ==
  ASSUME TypeOK, NothingYet, LooksOnly, WholePlan, [Next]_vars
  PROVE  WholePlan'
  <1>1. ASSUME NEW p \in Procs, Step(p) PROVE WholePlan'
    <2>1. /\ cmd' = cmd
          /\ \A q \in Procs \ {p} : UNCHANGED <<pc[q], plan[q], k[q], exit[q], wrote[q]>>
      BY <1>1, OthersStay
    <2>2. Whole(p)'
      BY <1>1, <2>1, WholeEarly, WholeResult, WholeWriting DEF Step, WholePlan
    <2>3. \A q \in Procs \ {p} : Whole(q)'
      BY <2>1 DEF WholePlan, Whole, Done, Is
    <2>4. QED
      BY <2>2, <2>3 DEF WholePlan
  <1>2. CASE (\E path \in Paths, text \in UserTexts : Edit(path, text)) \/ UNCHANGED vars
    <2>1. UNCHANGED <<pc, plan, k, exit, wrote, cmd>>
      BY <1>2 DEF Edit, vars, procVars, history
    <2>2. QED
      BY <2>1 DEF WholePlan, Whole, Done, Is
  <1>3. QED
    BY <1>1, <1>2 DEF Next

\* Where all are settled on a file and nobody has it open any more, it is there.
LEMMA AnnouncedAreThere ==
  ASSUME TypeOK, NothingYet, WholePlan, AgreeInv
  PROVE  AnnouncedFilesAreThere
  <1> SUFFICES ASSUME NEW p \in Procs, Announces(p), NEW file \in Final(p), Undisturbed(p, file)
               PROVE  disk[file.path] = file.text
    BY DEF AnnouncedFilesAreThere
  <1>1. ASSUME NEW q \in Procs, Done(q) PROVE pc[q] = "ended"
    BY <1>1 DEF TypeOK, InPlace, WholePlan, Whole, Done
  <1>2. ASSUME NEW q \in Procs, Done(q), file \in Final(q), k[q] > Len(plan[q])
        PROVE  /\ Settled(q, file)
               /\ \E j \in DOMAIN plan[q] : plan[q][j] = file /\ j < k[q]
    <2>1. PICK j \in DOMAIN plan[q] :
             plan[q][j] = file /\ \A l \in j + 1 .. Len(plan[q]) : plan[q][l].path # file.path
      BY <1>2 DEF Final
    <2>2. plan[q] \in Seq(File) /\ k[q] \in Nat
      BY DEF TypeOK
    <2>3. k[q] > j
      BY <1>2, <2>1, <2>2
    <2>4. QED
      BY <1>2, <2>1, <2>3 DEF Settled
  <1>3. Done(p) /\ k[p] > Len(plan[p])
    BY DEF Announces, WholePlan, Whole
  <1>4. file \in File
    <2>1. PICK j \in DOMAIN plan[p] : plan[p][j] = file
      BY <1>2, <1>3
    <2>2. QED
      BY <2>1 DEF TypeOK
  <1>5. ASSUME NEW q \in Procs, file.path \in wrote[q] PROVE Done(q) /\ Settled(q, file)
    <2>1. CASE q = p
      BY <1>2, <1>3, <2>1
    <2>2. CASE q # p
      <3>1. Done(q) /\ file \in Final(q)
        BY <1>5, <2>2 DEF Undisturbed
      <3>2. ~Is(q, "paths") /\ k[q] > Len(plan[q])
        BY <1>5, <3>1 DEF WholePlan, Whole
      <3>3. QED
        BY <1>2, <3>1, <3>2
    <2>3. QED
      BY <2>1, <2>2
  <1>6. file.path \in wrote[p] \/ Sees(p, file)
    BY <1>1, <1>2, <1>3 DEF WholePlan, Whole, Sees
  <1>7. Standing(file)
    BY <1>4, <1>5, <1>6 DEF AgreeInv, Agreed, Undisturbed
  <1>8. \A q \in Procs : ~FillsIt(q, file)
    BY <1>1, <1>5 DEF FillsIt, NothingYet
  <1>9. QED
    BY <1>7, <1>8 DEF Standing

\* What a command announces is on the disk, whoever wrote it last, and however
\* many truncate and fill the same files at once.
THEOREM AnnouncedFilesAreKept == Spec => []AnnouncedFilesAreThere
  <1>1. FilesInv => TypeOK /\ NothingYet /\ LooksOnly
    BY DEF FilesInv
  <1>2. Spec => [](FilesInv /\ WholePlan /\ AgreeInv)
    BY <1>1, FilesInvariance, AgreeInit, AgreeNext, WholePlanNext, PTL DEF Spec
  <1>3. FilesInv /\ WholePlan /\ AgreeInv => AnnouncedFilesAreThere
    BY <1>1, AnnouncedAreThere
  <1>4. QED
    BY <1>2, <1>3, PTL
=============================================================================
