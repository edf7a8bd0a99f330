--------------------------- MODULE MCFileCommands ---------------------------
(* FileCommands over one project directory, a directory for output and the *)
(* two-file folder of a skill.                                             *)
EXTENDS FileCommands, TLC

Main == <<"project", "main.bicep">>
Arm == <<"project", "main.json">>
Mod == <<"project", "mod.bicep">>
SubMod == <<"sub", "mod.bicep">>
OutMod == <<"out", "mod.bicep">>
Skill == <<"skill", "SKILL.md">>
Reference == <<"skill", "tools.md">>

MCPaths == {Main, Arm, Mod, SubMod, OutMod, Skill, Reference}
MCTexts == {"", "draft", "tidy", "template", "parameters", "mod text", "submod text", "skill text", "reference text"}
MCFmt == [t \in MCTexts |-> IF t = "draft" THEN "tidy" ELSE t]
MCSkillFiles == <<[path |-> Skill, text |-> "skill text"],
                  [path |-> Reference, text |-> "reference text"]>>
MCDecompilations == {<< >>, <<[path |-> Mod, text |-> "mod text"],
                              [path |-> SubMod, text |-> "submod text"]>>}

Cmd(tool, source, flags) ==
    [tool |-> tool, source |-> source, flags |-> flags, outputs |-> << >>, outDir |-> "none"]

\* build -o, build-params -o --template-out, and the same path given to both.
Template(path) == [path |-> path, text |-> "template"]
Parameters(path) == [path |-> path, text |-> "parameters"]
BuildTo == [Cmd("build", Main, {}) EXCEPT !.outputs = <<Template(Arm)>>]
BuildOnlyTo == [BuildTo EXCEPT !.flags = {"only"}]
BuildBoth == [BuildTo EXCEPT !.outputs = <<Parameters(Mod), Template(Arm)>>]
BuildTwice == [BuildTo EXCEPT !.outputs = <<Parameters(Arm), Template(Arm)>>]
Install == Cmd("install", Main, {})
MCCommands ==
    {BuildTo, BuildOnlyTo, BuildBoth, BuildTwice, Cmd("paths", Main, {}),
     Install, Cmd("install", Main, {"force"}),
     Cmd("format", Main, {"write"}), Cmd("format", Main, {"check"}),
     Cmd("format", Main, {"raw", "check"}), Cmd("decompile", Arm, {}),
     Cmd("decompile", Arm, {"write"}), Cmd("decompile", Arm, {"write", "force"}),
     [Cmd("decompile", Arm, {"write"}) EXCEPT !.outDir = "out"]}

\* Each file present or absent, as it should be or not, in turn.
Disk(main, arm, submod, skill, reference) ==
    [path \in MCPaths |->
        CASE path = Main -> main
          [] path = Arm -> arm
          [] path = SubMod -> submod
          [] path = Skill -> skill
          [] path = Reference -> reference
          [] OTHER -> "absent"]
MCInitialDisks ==
    {Disk("draft", "absent", "absent", "absent", "draft"),
     Disk("tidy", "draft", "draft", "skill text", "absent"),
     Disk("draft", "draft", "absent", "unreadable", "reference text"),
     Disk("absent", "draft", "absent", "absent", "absent")}

Symmetry == Permutations(Procs)
=============================================================================
