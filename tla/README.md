# bcp in TLA+

A verification project for `bcp`, the command line front end of the Azure Bicep
MCP server: TLA+ modules translated from the Rust source, TLC runs that check
them on small instances, and TLAPS proofs of the properties that matter most
for every instance. `PROJECT.json` maps every definition to the lines it models
and lists runs, mutants, findings, hazards and theorems.

    tlc -workers 2 -config MCDiscovery_safety.cfg MCDiscovery     # a run
    tlapm DiscoveryProofs.tla                                     # the proofs

## 1. The system and its parts

Each `bcp` invocation is one process that executes one command. Processes share
the disk and the loopback interface, nothing else: no lock, no transaction.

| Part | Source | State | Operations | What is hard |
|---|---|---|---|---|
| Daemon state file | `state.rs` | one JSON file | read, write (truncate, then fill), remove | readers, writers and removers race; crash between two system calls |
| Discovery | `transport.rs`, `daemon.rs` (start, status, stop) | the state read, a connection, the port | find a daemon, evict a stale one, start one, stop it | stale reads, port reuse, timeouts, crashes, two starts |
| Daemon loop | `daemon.rs` (`serve`, `handle_conn`) | session count, last activity, stop flag, upstream server | accept, preamble, session, idle limit, signals | tasks on several threads; `select!` drops futures |
| Daemon proxy | `daemon.rs` (`Proxy`) | count of calls | forward a call | answers out of order, late or never |
| MCP session | `mcp/client.rs` | pending request, `--timeout` | call, time out, lose the connection | a late answer and the next call |
| Batch | `commands/meta.rs` | line number, failures | read, refuse, send, print a line | five ways for a line to fail |
| Writing commands | `commands/build.rs`, `format.rs`, `decompile.rs`, `skill.rs` | files on the disk | check, ask the server, check again, write file after file | races of checks and writes, partial writes |
| API versions | `tools.rs`, `commands/catalog.rs` | the best version so far | `types --latest`, `schema --latest` | two algorithms that must agree |
| Invocation | `main.rs`, `transport.rs`, `error.rs`, `output.rs` and the handlers in `commands/` | the lazily opened session, the outcome | check, open, request, spill, print, report, close | many ways to fail, three exit codes; output beside an error |
| Diagnostics | `tools.rs` | the texts read so far | URI to path, offset to line and column | the file is read after the server did; escapes, byte slices, UTF-16 offsets |

They interact so: a tool command runs Discovery to get a session, over a daemon
(loop, proxy, upstream server) or over a server of its own; Batch and the
writing commands make calls over that session; the daemon itself runs the first
half of Discovery before it starts, and its end (stop, signal, idle limit, loss
of the server) is decided by the loop.

What makes each part correct:

- *State file, Discovery*: a daemon that left leaves no state behind; no daemon
  answers for another that had its port; no tool command evicts a daemon
  that may live; every reported outcome is supported by an answer; a daemon
  that serves is named by the file until a second serve or a stop sets out;
  every command ends.
- *Daemon loop*: the session count is exact whatever fails; the idle limit does
  not strike while a tool call is upstream and does once all sessions are gone,
  and counts from the last of them; stop requests, the loss of
  the server and silent clients are dealt with.
- *Calls*: one output line for each input line, in order; no call is made twice;
  the exit code agrees with the lines; a batch ends.
- *Writing commands*: a refusal writes nothing; what was there is not lost
  without `--force`; `--check` tells the truth; a file that a command
  announces, or `skill paths` calls current, is there.
- *Invocation*: the exit code, the one report and what is printed agree with
  what happened; faults of the command line reach no server; a server that was
  started is closed on every path.
- *Diagnostics*: an escaped URI leads back to its file; all places of one URI are
  those of one text of its file.
- *API versions*: the pass keeps the newest admissible version; both commands
  mean the same one.

## 2. Modules

| Module | Models | Composed with |
|---|---|---|
| `StateFile` | `state.rs`: the file as absent, blank, torn or a daemon's state, and handles open on it | extended by `Discovery` |
| `Discovery` | all processes around the state file and the ports | instantiates `DaemonService` with a refinement mapping |
| `DaemonService` | what users are promised about daemons, without files, ports or tokens | abstract specification of `Discovery` |
| `DaemonLoop` | inside one daemon: the `select!` loop and a task per connection | |
| `DaemonInDiscovery` | the world around one daemon as `Discovery` has it | extends `DaemonLoop`, instantiates `Discovery` with a refinement mapping |
| `Calls` | batches, their sessions, the proxy and the upstream server | |
| `FileCommands` | the commands that write files, over a shared disk | |
| `Invocation` | one command from its command line to its exit code | takes the search for a daemon as one step, which `Discovery` refines |
| `ApiVersions` | the choice of an API version | |
| `Diagnostics` | from diagnostics to places in files that are being edited | |
| `*Proofs` | theorems about the module of that name | extend it; `DaemonInDiscoveryProofs` also instantiates `DiscoveryProofs` |
| `MC*` | values of the constants that a `.cfg` cannot write, and symmetry | extend it |

`Discovery` keeps of a running daemon that it accepts, greets, hangs up and
leaves; `DaemonLoop` says when it leaves and what becomes of the connections.
`DaemonInDiscovery` joins the two: it gives each variable of `Discovery` as a
function of those of `DaemonLoop` (one daemon in its loop, a client per
connection) and states that every step of the loop is a step of `Discovery`
(`Accept`, `Greet`, `HangUp`, `LeaveLoop`, a client's connection and its end)
or a stutter. So what `Discovery` is shown to promise with a coarse daemon, the
detailed daemon keeps. A client whose token is refused is there one that read
the state of an earlier daemon, crashed, on the same port.

### State and actions against the code

`StateFile`, `Discovery`. `content` is what a reader of the path finds;
`state::write` is `OpenTruncated` (open with create and truncate) and
`WriteThrough` (`write_all` on the handle). `handles` holds who has the linked
file open, so that text written after an unlink vanishes, and a mixture of two
texts is `torn`. `state::read` makes both a missing and an unreadable file
`None`. `pc` follows one process through `Ctx::open_session`, `serve`, `status`
or `stop`; `seen` is the state it read and goes on using; `link` and `peer` are
its TCP connection. Port, token, pid and command line of a daemon are one value,
its name: tokens are drawn at random, so two daemons never share one. A refused
connection is told from another failure, as in the code, by the text of the
error (`Connect`, `MistakenForRefused`). A foreign program on a port may say
anything, `{"ok": true}` included, which the client takes for a daemon's
acknowledgement (`ReceiveAck`, `PeerLives`), and may go on as if it were one. On
the loopback interface a connection that fails was refused or timed out. Two assumptions close the model: ports are
given out by the kernel only when free, and a killed client is one that takes no
further step.

`DaemonLoop`. `stage` is where each connection's task is; `active`, `idle`,
`stop` are the shared atomics, clock and watch channel; each atomic operation
and each await is a step. `limit` is the `--idle` of this daemon. `caught` is a
signal delivered to the futures of the current iteration of `select!`, lost when
another branch is taken. `link` is what each client has been told (`Tell` is the
line written to it, which a client that has gone does not get). A tick is three steps: the upstream server (`HearTick`), the count
(`LoadActive`), the clock (`ReadClock`), between which the tasks move; leaving is
two (`RemoveState`, `Exit`), and until the second every task lives. `Second`
advances the clocks and the ticker; it is assumed that no second passes inside
the branch of a tick or between the decrement and the touch at the end of a
session, which are a few instructions each. Signals
before the loop kill the process: that is `Crash` in `Discovery`.

`Calls`. `next`, `phase`, `out`, `failures`, `exit` are the locals of `batch`;
`requests`, `pending`, `answers` are messages in flight, as sets: each call is
sent once and messages are independent of each other, so they may overtake
freely. An answer may be a result, a result that is an error, or an error of the
protocol, which the proxy passes on. That a response reaches the request with its
id, and one that nobody awaits is dropped, is the rmcp library's and assumed.
`call` is a batch of one line without the count of failures.

`FileCommands`. `disk` maps each path to a text, `absent`, `unreadable` (not
UTF-8) or `torn`; `std::fs::write` is `Open` (truncate: the empty text), then
`Fill`, or `CutShort` when a prefix was written. `plan`, `k` are the files
to write and the loop over them. `before`, `wrote`, `edited` are history. Of the
server it is assumed that formatting is idempotent, leaves an empty text empty,
and that it reads the file
itself; its result may lack the content, which `format` takes for an empty text
(`Formatted`); its answer to a build may hold any of the texts asked for, and the
verdict of success is looked at last (`Conclude`), so a failed build has written
its files. `outputs` are those a command line names, in order: `-o` and
`--template-out` may name one file. `skill install` and `skill paths` involve no
server; `skill paths` reads the files one by one (`Look`) and reports them
current when each read what is installed. That a `.bicepparam` yields two texts
and a `.bicep` one is in the command lines of the run.

`Invocation`. `stage` is where the process is between `main` and
`process::exit`; `session` is the cell in `Ctx`, `server` what is behind it,
`replies` the results of the requests so far (`Requests` lists those of each
command); `output` and `error` are the `Outcome` of the handler, `stdout`,
`reports` and `exit` what the caller sees. Commands that differ in layout only
are one (the module's header says which); `batch` is in `Calls`, `skill` in
`FileCommands`, `serve` and `daemon` in `Discovery`. `fault` is the first fault of the
command line, found by clap, by `server_cmd::resolve` or by the handler. A
build, failed or not, may have any of the texts asked for. `formatCheck` is
`format --check`, whose result may tell of a difference and so fail; a
`decompile --write` that would need `--force` is a `SpillFails`. A result whose
URIs make `percent_decode` panic ends the process by `Unwind`: exit code 101, no
report, whatever was to be printed lost. What becomes of a server whose
handshake failed, or whose session is dropped while the stack unwinds
(`dropped`), is left to the MCP library; that the stack does unwind is Rust's
default, which `Cargo.toml` leaves alone.

`ApiVersions`. A version is its first ten bytes, the rest, and what
`is_preview` says; `types --latest` is a pass over the list, one entry a step.
A type is its lower-case name. The final sort of the printed list is layout.

`Diagnostics`. Names are sequences of bytes, texts of characters of three
sorts. `n` is the diagnostic that `augment_diagnostics` is at, `cache` what it
has read per URI, `i`, `seen`, `line`, `col` the locals of `line_col`, one
character a step; `placed` is what it has inserted. `versions` is history: what
each file has said since the server read it. `Edit` is the owner of the files.
The path and URI functions are recursive functions over bytes; `PathToUri` and
`PercentEncode` are the source's own inverse, which it keeps for its tests and
which the server is assumed to agree with for the escapes it sends. `Die` is the
panic of a byte slice inside a character.

## 3. Runs

| Run | Instance | Shows |
|---|---|---|
| `discovery_safety` | 2 daemons, 1 client with any of the 5 operations, 2 ports | type, safety and the implementation of `DaemonService` |
| `discovery_live` | 2 daemons, 1 client with one of 4 operations, 1 port | `CommandsEnd`, `StartsSettle` |
| `loop` | 2 connections of 5 kinds, idle limit 0 or 2, preamble timeout 1 | count, idle limit, four liveness properties and the implementation of `Discovery` |
| `calls` | 2 batches of 2 lines each | lines, calls, exit codes, termination |
| `invocation` | every command line of the 15 kinds in `Names`, 3 transports, 4 kinds of fault | exit codes, reports, output, sessions, termination |
| `versions` | lists of up to 3 entries over 2 types, 4 versions | both meanings of "latest" |
| `files` | 2 processes, 14 command lines, 7 paths, 4 initial disks, 1 edit | safety of the writing commands and of `skill paths` |
| `diagnostics` | 2 files, 3 texts, replies of up to 2 diagnostics, 1 edit | URIs lead back, one text per URI |
| `two_daemons` | *violation* | two starts serve side by side |
| `auto_evicts_live` | *violation* | a tool command removes a live daemon's file |
| `idle_race` | *violation* | the idle limit strikes the moment the last client leaves |
| `loop_lost_signal` | *violation* | Ctrl-C is dropped |

Each property of a passing run has a mutant, a plausible bug in one mapped
definition, that the run finds. Mutants stand before the definition they change.

**Bounds and why they suffice.** *Discovery*: two daemons are needed for one to
replace another and for a port to be reused; one client beside them meets every
pair (old daemon, new daemon), and two ports let the new daemon take the same
port or another. `MaxPolls` = 1 stands for the 30 reads of `daemon stop`: with
one both ends of its loop happen, and reads between do nothing. The proofs
remove all these bounds. *Loop*: two connections suffice for one to be counted
while the other enters or leaves, and for a stop request beside a session; an
idle limit of 2 and a preamble timeout of 1 make both orders of the two happen.
The kinds `unknown` and `invalid` take the paths of `status` and `unauthorized`
and are left out of the run, not of the model; of two connections of different
kinds one assignment is enough (`OrderedInit`), as no definition tells
connections apart by name. *Calls*: with two lines a late
answer meets the next call; with two clients answers may be crossed. *Files*:
two processes race; the skill has two files, so a refusal may come after a
first file, and an install may be half done when `skill paths` looks; the
decompilation has two files that `--out-dir` brings to one path, as `-o` and
`--template-out` may; the initial disks contain each file absent, right, different and unreadable.
*Invocation* has no bound: one process, all command lines of its kinds, at most
two requests.
*Diagnostics*: two diagnostics of one URI are the fewest that can be of two
texts, and one edit is all it takes; the names have a percent sign before
digits, a plus sign, a space and a character of two bytes, the other URIs a
drive, a host, `%+2`, half a character, a percent sign that cuts a character
and no file at all; the offsets lie before, in, behind and past the characters
of two units and the newlines. *Versions*: three entries give every order of stable, older and newer preview
for one type, repetitions, and a second type between.

**Deadlock** is not checked where the modelled processes end: a finished
daemon, batch or command has no step left.

**Symmetry** is used for processes and daemons in safety runs without liveness
properties only.

**Fairness.** *Discovery*: weak fairness of each process's own steps, because
the operating system schedules it and every wait in it has a timeout
(`CONNECT_TIMEOUT`, 30 polls); none for a daemon's answer, end or crash, nor for
other programs. *DaemonLoop*: weak fairness of each branch of the loop, because
`select!` polls ready branches in random order; of each task, because the
runtime schedules it; of time; and of a client leaving its session, because each
wait of a `bcp` client has a timeout. No fairness for clients to arrive, for
signals or for the upstream server. *Calls*: only the clients are fair: their
timeout is all that `BatchesEnd` needs. `TimeOut` stands beside the answer it
races: fairness is of the client as a whole. *Invocation*: the command is fair,
servers are not: they may never shake hands, reply or die. This takes a
standard output that is drained, and the library's bounded wait on closing.

## 4. Proofs

All by TLAPS for every value of the constants; the assumptions are those the
modules name (`NamesAssumption`, `ConnsAssumption`, `LinesAssumption`, `FilesAssumption`, ...),
which TLC evaluates in the runs.

- `DiscoveryProofs`. The inductive invariant `DiscoveryInv` adds to the types
  why the properties hold: a state in the file, or in a process's hands,
  belongs to a daemon that has its port (`FileNamesPosted`, `SeenIsPosted`);
  a daemon owns its port from bind to exit (`HoldsItsPort`), so a refused
  connection or a foreign peer means it is gone (`LostItsPort`); an
  acknowledgement is kept, and is the daemon's that was read or a foreign
  program's (`AckIsKept`). `AutoGivesUpOnTheDeadOnly` is not
  inductive without `LostItsPort`, nor that without `HoldsItsPort`. From it:
  `TypeCorrect`, `CleanExit`, `Acknowledgement`, `AutoEviction`, and
  `Refinement`, that each step is a step of `DaemonService` or a stutter;
  there, an answer of a foreign program (`Impersonate`) comes only once some
  daemon is gone.
  `Discoverability` needs no assumption about how many daemons there are: it
  adds `FileIsKept`, that the file stays a daemon's from its write to its exit
  as long as it is `Undisputed` (no second serve and no stop has set out).
- `DaemonLoopProofs`. `LoopInv`: the count equals the cardinality of the set of
  counted tasks while the process lives, and no connection outlives it. The type
  theorem then says that the unsigned counter never wraps. For
  `IdlenessSparesCalls` it holds besides that between the reads of the count and
  of the clock either no call is upstream or the clock stands at zero: one that
  began since was made over a session counted since, and touched it.
- `DaemonInDiscoveryProofs`. `Composition`: under the mapping the loop starts in
  a state of `DiscoveryInv` and each of its steps is one of `Dealings` or a
  stutter, for any set of connections. It rests on `LoopInv` and on
  `LinkFollowsStage`, without which a client that has been answered could not
  be told from one that still waits. The module then instantiates
  `DiscoveryProofs` under the same mapping (`Many`; its assumptions hold of this
  world, `ManyAssumptions`) and takes over what is proved there:
  `DiscoveryIsKept`, that `DiscoveryInv` lasts with the daemon as it is built,
  and `ServiceIsKept`, that its steps are steps of `DaemonService`.
- `ApiVersionsProofs`. One pass with the replacement rule computes a maximum of
  the versions seen: the argument is that the rule is a strict total order on
  (admissible, date, stable, rest). `Agreement` follows at the end of the list.
- `FileCommandsProofs`. `FilesInv`: what the checks have established of each
  file lasts (`Cleared`), since whoever changes a file afterwards was licensed
  to, is its owner, or wrote where nothing of the owner was. Neither refusal
  nor force properties are inductive without it. `ChecksAreTrue` has an
  invariant of its own, `CheckInv`: what `format` read is a text when it calls
  the server, and a success was given for that very text.
  `AnnouncedFilesAreThere` needs to follow a file through every truncation. All that have opened its path are `Settled` on the
  same text when each has it as the last file of its plan there and has come to
  it; `Agreed` adds somebody who wrote it or found it there. Then the file is
  there, or truncated with one process about to fill it (`AgreeInv`), since a
  process that stops short settles nobody. Who announces has passed its whole
  plan (`WholePlan`), so at the end nobody is left to fill, for any
  number of processes and files.
- `CallsProofs`. `LinesInv` ties each output line to the input line it was made
  at: a client waits at one line, an answer names its call, the count of
  failures is zero just when every line is ok. `CountInv`: a call is in one
  place at a time (`OnePlace`: queued, upstream, answered or printed), so that
  counted and queued calls together never exceed those that were sent. The
  clients are assumed to be finitely many, to be counted.
- `InvocationProofs`. `InvocationInv` follows a command through its stages: it
  has asked nobody before its checks are over (`AskedNobody`), nothing to tell
  before the last reply (`NothingToTell`), and while it asks every reply so far
  was good and another request is left (`MoreToAsk`). `FindingsArePrinted`
  hangs on the order of things: an error that is not printed beside a result
  arises while all replies were good, or when an output file fails, or is none
  at all but a panic; without
  `MoreToAsk` and `SpillsTheResult` a failed build could be behind it.
  `ErrorHasCause` is kept because `tried` and the session no longer move once
  there is an error to explain. `FileCommands` and `Discovery` have the same
  command among others; here it has every fault and reply. The command lines
  are any subset of those `Invocation` defines (`InvocationsAssumption`).
- `DiagnosticsProofs`. `CountIsDue`: what `line_col` has counted is the units and
  lines of the characters it has passed, none of which reaches the offset; so
  where it stops is where `PlaceIn`, which knows no loop, puts the offset.
  `KeptIsAVersion` and `PlacedInKept` then give `PlacedInOneText`, for each URI,
  as the cache has it for its key. That an
  escaped URI leads back to its file is `DecodedIsEncoded`, for every sequence
  of bytes. It is an induction over data, for which the library's induction
  theorems cannot be used, as they take a predicate for a parameter. The module
  takes the least counterexample instead: `LeastNumber` gets it from the
  library's well-founded order of finite sets, `Downwards` and `Upwards` make
  of it the two inductions, over sets of numbers. The recursive functions need
  the same: `CollectionExists` shows that there is a function that satisfies
  the equation of such a loop, so that the `CHOOSE` behind `f[i] == ...` does
  too, and `EncodingEnds` and `DecodingLeadsBack` follow what is encoded and
  decoded from any place on. A multi-byte character only passes if its bytes
  are all escaped (`Chunk`). `PathsFollow` carries the result to
  the diagnostics, for `EscapesAreFollowed`.

Only model-checked: the liveness properties (`CommandsEnd`, `StartsSettle`,
`IdleDaemonEnds`, `AcknowledgedStopEnds`, `UpstreamLossEnds`,
`SilentConnectionsClose`, `BatchesEnd`, `InvocationEnds`), which are out of the
prover's reach under fairness, and the disagreements of the violation runs,
which have a counterexample and no proof. Every safety property, action
property and refinement that a passing run checks is a theorem.

## 5. Where documents and code differ

The four violation runs are in `PROJECT.json` under `findings`. Met while
reading, and not worth a run each:

- `--raw` leaves before the result is looked at (`transport.rs:196`): a build
  with compile errors exits 0, against `README.md:69`, and `--check`, `--write`
  and `-o` are skipped (`Invocation!Take`, `FileCommands!PrintRaw`).
- A client takes `{"ok": true}` from whoever has the port for an acknowledgement
  (`transport.rs:75`): the token shows the daemon who asks, nothing shows the
  client who answers. After a crash another program on the port may so pass for
  the daemon, in `daemon status` and `daemon stop`, for a second `serve` and,
  if it speaks MCP, for a tool command (`Discovery!ReceiveAck`).
- `build --template-only -o FILE` exits 0 and writes no file (`build.rs:62`,
  `FileCommands!Build`, `Invocation!Wanted`); `SKILL.md:109` and the help
  (`cli.rs:27`) give that command to write one. `ExitNamesTheCause` makes an
  exception of it.
- `skill install` overwrites a file that is not UTF-8 without `--force`
  (`skill.rs:164` passes over what it cannot read, `FileCommands!InTheWay`),
  against its own comment, "Existing files with different content are only
  overwritten with `force`" (`skill.rs:156`). `ReadableFilesNeedForce` is of
  readable files for this reason.
- A session that was counted after the tick read the count, and has called
  nothing yet, is cut by the idle limit, and so is whatever begins between the
  end of the loop and the end of the process (`DaemonLoop!ReadClock`, `Exit`).
- With `-o` a build whose result lacks the text writes no file and exits 0
  (`build.rs:45`), and a failed build that has one, to a file that cannot be
  written, loses its diagnostics (`build.rs:70`): `ExitNamesTheCause` and
  `FindingsArePrinted` say so. A failed build with `--template-only` whose result
  has the template prints that alone (`build.rs:64`). The fixtures of `tests/` show neither.
- A result that cannot be written to standard output is lost with exit code 0
  (`main.rs:77`, `Invocation!PrintFails`), unless a failure is reported too.
- `doctor` prints its report when no server starts, and none of it when the
  server starts and `tools/list` fails (`doctor.rs:45`).
- `--filter` matches the whole `type@version`, not "the type name"
  (`cli.rs:263`): with `--latest` it may cut the newest version off. The
  premise of `SchemaAgreesWithTypes` excludes it.
- An inline version is ignored with `--latest` (`ApiVersions!Resolve`).
- A leaving daemon removes whatever state file it finds (`daemon.rs:279`); the
  file exists, empty, before it is written (`state.rs:62`); a stale file stays
  when a foreign program holds its port (`transport.rs:171`). All three are
  behaviours of `Discovery`.
- `format --write` after an edit, or beside another one, saves the formatting
  of what the server read; of a result without `content`, an empty file
  (`format.rs:19`, `FileCommands!Formatted`).
- A file that comes to be between the check and the write of `decompile --write`
  or `skill install` is overwritten without `--force`; of two files that
  `--out-dir` brings to one path the first is lost; and what a kill or a full
  disk cuts short stays so (`FileCommands!Open`, `Target`, `CutShort`).
- `percent_decode` slices at byte positions and panics where that cuts a
  character (`tools.rs:80`, `Diagnostics!Die`): exit code 101 and no JSON report
  (`Invocation!Unwind`), against `README.md:67`. And it takes `%+2` for an escape.
- A file that the server names by two URIs is read twice and may be placed in two
  texts (`tools.rs:182`).
- `avm` ranks `1.0.0-rc.1` above `1.0.0`: a part that is no number counts as 0
  and the longer list wins (`catalog.rs:284`).
- What a server writes on its standard error is stored when the stream ends
  (`mcp/client.rs:63`): an error message made before that quotes none of it.

## 6. Not modelled, and the plan

Not modelled: the MCP protocol itself (the rmcp library); spawning and shaking
hands with a server beyond success or failure; rendering, tables and help; the
argument grammar beyond the flags above, `--help` included; what `refs`,
`avm`, `extensions`, `tools` and `doctor` make of their replies, which is layout,
the fixed order of AVM versions included; `skill print`; where the state file
lies (`state_dir`), which all processes of `Discovery` agree on; counting
diagnostics by level.

Order of work, most important first; what is left is marked:

1. `StateFile`, `Discovery`, `DaemonService`: runs, proofs, refinement.
2. `DaemonLoop` and its proofs.
3. `Calls`.
4. `ApiVersions` and its proofs.
5. `FileCommands` and its proofs.
6. Mutants for every property.
7. `Invocation`.
8. `FileCommandsProofs`: `CheckTellsTheTruth`.
9. `DaemonInDiscovery` and its proofs: `DaemonLoop` implements the daemon's half
   of `Discovery`.
10. `Diagnostics`.
11. `CallsProofs`.
12. `FileCommandsProofs`: `AnnouncedFilesAreThere`.
13. `DiagnosticsProofs`.
14. `DiagnosticsProofs`: the conversions of paths, by induction over bytes.
15. `InvocationProofs`.
16. `DaemonInDiscoveryProofs`: what `DiscoveryProofs` shows, of the loop.
17. Foreign acknowledgements in `Discovery`; the tick and the end of `DaemonLoop`
    step by step; the panic, `format --check` and `decompile` in `Invocation`.

The plan is done. What is left out is listed above: it is layout, or the work of
a library or of the server. One thing would go further: `avm` (`catalog.rs`)
sorts versions by a rule of its own, a candidate for a module like
`ApiVersions`.
