---------------------------- MODULE FileCommands ----------------------------
(***************************************************************************)
(* The commands that leave files behind: `build` and `build-params` (src/  *)
(* src/commands/build.rs), `format` (format.rs), `decompile` and           *)
(* `decompile-params` (decompile.rs), `skill install` (skill.rs), and      *)
(* `skill paths`, which tells whether the files of the last are there; run *)
(* by several processes over the same files while their owner edits them.  *)
(* Every command looks at the disk, asks the server, looks again and       *)
(* writes file after file, each by truncating it first; it may be killed,  *)
(* or fail, between any two steps.                                         *)
(*                                                                         *)
(* A path is a directory and a name.  A file is absent, has a text, is     *)
(* unreadable (not UTF-8) or torn: cut short, or a mixture of two writes.  *)
(***************************************************************************)
EXTENDS Naturals, Sequences, FiniteSets

CONSTANTS
    Procs,                  \* `bcp` processes, one command each
    Commands,               \* the command lines they may be given
    Paths,                  \* <<directory, name>> pairs
    Texts,                  \* what a file may say
    Empty,                  \* the text of a file that was truncated
    UserTexts,              \* the texts the owner of the files writes
    Fmt,                    \* what the server's formatter makes of each text
    Decompilations,         \* what the server may decompile: files, by path
    SkillFiles,             \* the files embedded in the program
    InitialDisks,
    MaxEdits                \* how many files their owner edits meanwhile

File == [path : Paths, text : Texts]
Tools == {"build", "format", "decompile", "install", "paths"}

\* outputs: for -o and --template-out, in this order, the path and the text of
\* the result that goes there.
Command == [tool : Tools, source : Paths, flags : SUBSET {"raw", "only", "check", "write", "force"},
            outputs : Seq(File), outDir : {path[1] : path \in Paths} \cup {"none"}]

Contents == Texts \cup {"absent", "unreadable", "torn"}

\* clap refuses --write with --check.
ASSUME FilesAssumption ==
    /\ Commands \subseteq Command
    /\ \A c \in Commands : Len(c.outputs) <= 2 /\ ~({"check", "write"} \subseteq c.flags)
    /\ UserTexts \subseteq Texts /\ Empty \in Texts
    /\ Fmt \in [Texts -> Texts] /\ \A t \in Texts : Fmt[Fmt[t]] = Fmt[t]
    /\ Fmt[Empty] = Empty
    /\ Decompilations \subseteq Seq(File) /\ SkillFiles \in Seq(File) \ {<< >>}
    /\ \A c \in Commands, files \in Decompilations : \A i \in DOMAIN files :
           c.outDir # "none" => <<c.outDir, files[i].path[2]>> \in Paths
    /\ InitialDisks \subseteq [Paths -> Contents]
    /\ Texts \cap {"absent", "unreadable", "torn"} = {}
    /\ MaxEdits \in Nat

VARIABLES
    disk,                   \* the content of each path
    cmd,                    \* the command of each process
    pc,                     \* where it is
    original,               \* what `format` has read
    plan,                   \* the files to write, once known
    k,                      \* the file of the plan it is at
    exit,                   \* its exit code, by name
    before,                 \* the disk at the start
    wrote,                  \* the paths each process has opened for writing
    edited                  \* the paths their owner has edited

procVars == <<cmd, pc, original, plan, k, exit>>
history == <<before, wrote, edited>>
vars == <<disk, procVars, history>>

Stages == {"start", "reading", "calling", "looking", "checking", "comparing", "opening",
           "filling", "ended", "refused", "killed"}
Codes == {"none", "success", "toolError", "usageError", "transportError"}

\* Where a process is, in its plan and towards its exit code.
InPlace(p) ==
    /\ pc[p] \in {"start", "reading", "calling"} => plan[p] = << >> /\ k[p] = 1
    /\ pc[p] = "checking" => k[p] \in 1 .. Len(plan[p]) + 1 /\ plan[p] # << >>
    /\ pc[p] \in {"looking", "comparing", "opening", "filling"} => k[p] \in 1 .. Len(plan[p])
    /\ exit[p] # "none" <=> pc[p] \in {"ended", "refused"}

TypeOK ==
    /\ disk \in [Paths -> Contents]
    /\ cmd \in [Procs -> Commands]
    /\ pc \in [Procs -> Stages]
    /\ original \in [Procs -> Contents]
    /\ plan \in [Procs -> Seq(File)]
    /\ k \in [Procs -> Nat]
    /\ exit \in [Procs -> Codes]
    /\ before \in [Paths -> Contents]
    /\ wrote \in [Procs -> SUBSET Paths]
    /\ edited \subseteq Paths
    /\ \A p \in Procs : InPlace(p)

Init ==
    /\ disk \in InitialDisks
    /\ cmd \in [Procs -> Commands]
    /\ pc = [p \in Procs |-> "start"]
    /\ original = [p \in Procs |-> "absent"]
    /\ plan = [p \in Procs |-> << >>]
    /\ k = [p \in Procs |-> 1]
    /\ exit = [p \in Procs |-> "none"]
    /\ before = disk
    /\ wrote = [p \in Procs |-> {}]
    /\ edited = {}

Is(p, tool) == cmd[p].tool = tool
Has(p, flag) == flag \in cmd[p].flags
Source(p) == disk[cmd[p].source]
Readable(content) == content \notin {"absent", "unreadable"}

Go(p, stage) == pc' = [pc EXCEPT ![p] = stage] /\ UNCHANGED exit
End(p, code) == pc' = [pc EXCEPT ![p] = "ended"] /\ exit' = [exit EXCEPT ![p] = code]

-----------------------------------------------------------------------------
(* Before the server is asked.                                             *)

\* absolute_existing(); the skill commands need no server and have no source.
Resolve(p) ==
    /\ pc[p] = "start" /\ ~Is(p, "install") /\ ~Is(p, "paths")
    /\ IF Source(p) = "absent" THEN End(p, "usageError")
       ELSE Go(p, IF Is(p, "format") THEN "reading" ELSE "calling")
    /\ UNCHANGED <<disk, cmd, original, plan, k, history>>

Read(p) ==
    /\ pc[p] = "reading"
    /\ IF Readable(Source(p))
       THEN Go(p, "calling") /\ original' = [original EXCEPT ![p] = Source(p)]
       ELSE End(p, "usageError") /\ UNCHANGED original
    /\ UNCHANGED <<disk, cmd, plan, k, history>>

StartInstall(p) ==
    /\ pc[p] = "start" /\ Is(p, "install")
    /\ plan' = [plan EXCEPT ![p] = SkillFiles]
    /\ Go(p, IF Has(p, "force") THEN "comparing" ELSE "checking")
    /\ UNCHANGED <<disk, cmd, original, k, history>>

\* `skill paths`, for one of its directories; is_current() looks at all files.
StartPaths(p) ==
    /\ pc[p] = "start" /\ Is(p, "paths")
    /\ plan' = [plan EXCEPT ![p] = SkillFiles]
    /\ Go(p, "looking")
    /\ UNCHANGED <<disk, cmd, original, k, history>>

-----------------------------------------------------------------------------
(* The call, and what each command makes of the result.                    *)

\* Ctx::invoke: no server, or a result that is an error.
CallFails(p) ==
    /\ pc[p] = "calling"
    /\ \E code \in {"transportError", "toolError"} : End(p, code)
    /\ UNCHANGED <<disk, cmd, original, plan, k, history>>

\* The server reads the source itself, and refuses one that it cannot read.
Result(p) == pc[p] = "calling" /\ Readable(Source(p))

\* --raw: the result is printed and nothing else is done with it.
PrintRaw(p) ==
    /\ Result(p) /\ Has(p, "raw")
    /\ End(p, "success")
    /\ UNCHANGED <<disk, cmd, original, plan, k, history>>

\* A build that found errors says so only when its files are written, so that
\* its verdict, which the server has given long before, is chosen here.
Conclude(p) ==
    \E code \in {"success"} \cup (IF Is(p, "build") THEN {"toolError"} ELSE {}) : End(p, code)

\* Write these files, or end where there is none.
WriteAll(p, files, stage) ==
    /\ plan' = [plan EXCEPT ![p] = files]
    /\ IF files = << >> THEN Conclude(p) ELSE Go(p, stage)

\* build and build-params: --template-only and --parameters-only return before
\* -o is looked at; a text that the result lacks is not written.  Of at most two
\* outputs, these are the four ways to lack some.
Build(p) ==
    /\ Result(p) /\ Is(p, "build") /\ ~Has(p, "raw")
    /\ IF Has(p, "only") THEN Conclude(p) /\ UNCHANGED plan
       ELSE LET all == cmd[p].outputs IN
            \E first \in 1 .. Len(all) + 1, last \in 0 .. Len(all) :
                WriteAll(p, SubSeq(all, first, last), "opening")
    /\ UNCHANGED <<disk, cmd, original, k, history>>

\* What the server would make of the file it finds now, against what was read.
\* Of a torn source it may make anything that is formatted; and a result that
\* has no content counts as an empty text.
Formatted(p) ==
    (IF Source(p) = "torn" THEN {Fmt[t] : t \in Texts} ELSE {Fmt[Source(p)]}) \cup {Empty}

\* Mutant: --check reports and ends without an error.
FormatLenient(p) ==
    /\ Result(p) /\ Is(p, "format") /\ ~Has(p, "raw")
    /\ \E content \in Formatted(p) :
         IF Has(p, "write") /\ content # original[p]
         THEN WriteAll(p, <<[path |-> cmd[p].source, text |-> content]>>, "opening")
         ELSE End(p, "success") /\ UNCHANGED plan
    /\ UNCHANGED <<disk, cmd, original, k, history>>

Format(p) ==
    /\ Result(p) /\ Is(p, "format") /\ ~Has(p, "raw")
    /\ \E content \in Formatted(p) :
         IF Has(p, "write") /\ content # original[p]
         THEN WriteAll(p, <<[path |-> cmd[p].source, text |-> content]>>, "opening")
         ELSE /\ End(p, IF Has(p, "check") /\ content # original[p] THEN "toolError" ELSE "success")
              /\ UNCHANGED plan
    /\ UNCHANGED <<disk, cmd, original, k, history>>

\* --out-dir keeps the name of each file and nothing of its directory.
Target(p, file) ==
    IF cmd[p].outDir = "none" THEN file
    ELSE [file EXCEPT !.path = <<cmd[p].outDir, file.path[2]>>]

Decompile(p) ==
    /\ Result(p) /\ Is(p, "decompile") /\ ~Has(p, "raw")
    /\ IF Has(p, "write")
       THEN \E files \in Decompilations :
              WriteAll(p, [i \in DOMAIN files |-> Target(p, files[i])],
                       IF Has(p, "force") THEN "opening" ELSE "checking")
       ELSE End(p, "success") /\ UNCHANGED plan
    /\ UNCHANGED <<disk, cmd, original, k, history>>

-----------------------------------------------------------------------------
(* The files, one after the other.                                         *)

Current(p) == plan[p][k[p]]
Found(p) == disk[Current(p).path]

\* is_current(): the first file that differs decides.
Look(p) ==
    /\ pc[p] = "looking"
    /\ IF Found(p) = Current(p).text
       THEN /\ k' = [k EXCEPT ![p] = @ + 1]
            /\ IF k[p] = Len(plan[p]) THEN End(p, "success") ELSE Go(p, "looking")
       ELSE End(p, "success") /\ UNCHANGED k
    /\ UNCHANGED <<disk, cmd, original, plan, history>>

FirstStage(p) == IF Is(p, "install") THEN "comparing" ELSE "opening"

\* Without --force: decompile minds whatever exists, install what it can read
\* and finds different.
InTheWay(p) ==
    IF Is(p, "decompile") THEN Found(p) # "absent"
    ELSE Readable(Found(p)) /\ Found(p) # Current(p).text

Refuse(p) ==
    /\ pc[p] = "checking" /\ k[p] <= Len(plan[p])
    /\ InTheWay(p)
    /\ pc' = [pc EXCEPT ![p] = "refused"]
    /\ exit' = [exit EXCEPT ![p] = "usageError"]
    /\ UNCHANGED <<disk, cmd, original, plan, k, history>>

\* Mutant: only the first file is checked.
PassAtOnce(p) ==
    /\ pc[p] = "checking" /\ k[p] <= Len(plan[p])
    /\ ~InTheWay(p)
    /\ k' = [k EXCEPT ![p] = Len(plan[p]) + 1]
    /\ UNCHANGED <<disk, cmd, pc, original, plan, exit, history>>

Pass(p) ==
    /\ pc[p] = "checking" /\ k[p] <= Len(plan[p])
    /\ ~InTheWay(p)
    /\ k' = [k EXCEPT ![p] = @ + 1]
    /\ UNCHANGED <<disk, cmd, pc, original, plan, exit, history>>

AllPassed(p) ==
    /\ pc[p] = "checking" /\ k[p] > Len(plan[p])
    /\ k' = [k EXCEPT ![p] = 1]
    /\ Go(p, FirstStage(p))
    /\ UNCHANGED <<disk, cmd, original, plan, history>>

\* On to the next file, or out.
NextFile(p) ==
    /\ k' = [k EXCEPT ![p] = @ + 1]
    /\ IF k[p] = Len(plan[p]) THEN Conclude(p) ELSE Go(p, FirstStage(p))

\* Mutant: install leaves every file that exists alone.
CompareExistence(p) ==
    /\ pc[p] = "comparing"
    /\ IF Found(p) # "absent" THEN NextFile(p) ELSE Go(p, "opening") /\ UNCHANGED k
    /\ UNCHANGED <<disk, cmd, original, plan, history>>

\* install looks again, and leaves a file alone that is as it should be.
Compare(p) ==
    /\ pc[p] = "comparing"
    /\ IF Found(p) = Current(p).text THEN NextFile(p) ELSE Go(p, "opening") /\ UNCHANGED k
    /\ UNCHANGED <<disk, cmd, original, plan, history>>

Open(p) ==
    /\ pc[p] = "opening"
    /\ disk' = [disk EXCEPT ![Current(p).path] = Empty]
    /\ wrote' = [wrote EXCEPT ![p] = @ \cup {Current(p).path}]
    /\ Go(p, "filling")
    /\ UNCHANGED <<cmd, original, plan, k, before, edited>>

\* The directory or the file cannot be created, or the disk is full: what was
\* written stays.
WriteFails(p) ==
    /\ pc[p] \in {"opening", "filling"}
    /\ End(p, "usageError")
    /\ UNCHANGED <<disk, cmd, original, plan, k, history>>

\* A prefix has been written when the disk is full or the process is killed.
CutShort(p) ==
    /\ pc[p] = "filling"
    /\ disk' = [disk EXCEPT ![Current(p).path] = "torn"]
    /\ \/ End(p, "usageError")
       \/ Go(p, "killed")
    /\ UNCHANGED <<cmd, original, plan, k, history>>

\* What another handle, or the owner, has written since may be longer.
Filled(p) == IF Found(p) \in {Empty, Current(p).text} THEN {Current(p).text}
             ELSE {Current(p).text, "torn"}

\* Mutant: the next file is checked when its turn comes.
FillThenCheck(p) ==
    /\ pc[p] = "filling"
    /\ \E content \in Filled(p) : disk' = [disk EXCEPT ![Current(p).path] = content]
    /\ k' = [k EXCEPT ![p] = @ + 1]
    /\ IF k[p] = Len(plan[p]) THEN Conclude(p) ELSE Go(p, "checking")
    /\ UNCHANGED <<cmd, original, plan, history>>

\* Mutant: past the end.
FillTwo(p) ==
    /\ pc[p] = "filling"
    /\ \E content \in Filled(p) : disk' = [disk EXCEPT ![Current(p).path] = content]
    /\ k' = [k EXCEPT ![p] = @ + 1]
    /\ Go(p, FirstStage(p))
    /\ UNCHANGED <<cmd, original, plan, history>>

Fill(p) ==
    /\ pc[p] = "filling"
    /\ \E content \in Filled(p) : disk' = [disk EXCEPT ![Current(p).path] = content]
    /\ NextFile(p)
    /\ UNCHANGED <<cmd, original, plan, history>>

-----------------------------------------------------------------------------
(* The environment.                                                        *)

Kill(p) ==
    /\ pc[p] \notin {"ended", "refused", "killed"}
    /\ pc' = [pc EXCEPT ![p] = "killed"]
    /\ UNCHANGED <<disk, cmd, original, plan, k, exit, history>>

Edit(path, text) ==
    /\ Cardinality(edited) < MaxEdits
    /\ disk' = [disk EXCEPT ![path] = text]
    /\ edited' = edited \cup {path}
    /\ UNCHANGED <<procVars, before, wrote>>

Step(p) ==
    \/ Resolve(p) \/ Read(p) \/ StartInstall(p) \/ StartPaths(p) \/ Look(p)
    \/ CallFails(p) \/ PrintRaw(p) \/ Build(p) \/ Format(p) \/ Decompile(p)
    \/ Refuse(p) \/ Pass(p) \/ AllPassed(p)
    \/ Compare(p) \/ Open(p) \/ WriteFails(p) \/ CutShort(p) \/ Fill(p) \/ Kill(p)

Next ==
    \/ \E p \in Procs : Step(p)
    \/ \E path \in Paths, text \in UserTexts : Edit(path, text)

Spec == Init /\ [][Next]_vars

-----------------------------------------------------------------------------

(* A command that refuses to overwrite has written nothing: all its files  *)
(* are checked before the first is opened (decompile.rs:55-65,             *)
(* skill.rs:166-178).                                                      *)
RefusedWritesNothing ==
    \A p \in Procs : pc[p] = "refused" => wrote[p] = {}

Outputs(p) == {cmd[p].outputs[i].path : i \in DOMAIN cmd[p].outputs}

\* May p change the file at this path although something is there?
Licensed(p, path) ==
    \/ Has(p, "force")
    \/ Is(p, "build") /\ path \in Outputs(p)
    \/ Is(p, "format") /\ cmd[p].source = path

\* Edited by its owner, or opened by a command that may.
Excused(path) ==
    path \in edited \/ \E p \in Procs : path \in wrote[p] /\ Licensed(p, path)

(* What was on the disk before and has not been edited since is not lost   *)
(* to `decompile --write` or `skill install` without --force, even if      *)
(* several run at once and are killed.  A file that is not UTF-8 passes the*)
(* check of install (skill.rs:164) and is lost.                            *)
ReadableFilesNeedForce ==
    \A path \in Paths :
        before[path] \in Texts => disk[path] = before[path] \/ Excused(path)

(* `format --check` succeeds only on a text the formatter leaves as it is, *)
(* even if the file was edited between the client's read and the server's. *)
CheckTellsTheTruth ==
    \A p \in Procs :
        Is(p, "format") /\ Has(p, "check") /\ ~Has(p, "raw") /\ exit[p] = "success"
            => original[p] \in Texts /\ Fmt[original[p]] = original[p]

\* The files of p that no later one of its own replaces.
Final(p) == {plan[p][i] : i \in {j \in DOMAIN plan[p] :
                \A l \in j + 1 .. Len(plan[p]) : plan[p][l].path # plan[p][j].path}}

\* All its files are written; a build may have found errors all the same.
Done(p) == exit[p] \in {"success", "toolError"}

\* `skill paths` reports the files as current if it got past the last.
Announces(p) == Done(p) /\ (Is(p, "paths") => k[p] > Len(plan[p]))

\* Nobody else has left anything different at the path.
Undisturbed(p, file) ==
    /\ file.path \notin edited
    /\ \A r \in Procs \ {p} : file.path \in wrote[r] => Done(r) /\ file \in Final(r)

(* A command that was not refused or stopped by the disk has left every    *)
(* file it announces, the ones of two `skill install` at once and of a     *)
(* build with errors included; of two files that --out-dir, or two equal   *)
(* options, bring to one path, the last.  What `skill paths` calls current *)
(* is so, although it reads file after file while others install.          *)
AnnouncedFilesAreThere ==
    \A p \in Procs : Announces(p) =>
        \A file \in Final(p) : Undisturbed(p, file) => disk[file.path] = file.text
=============================================================================
