# Verification of the ANSYS automation servers

TLA+ modules, TLC runs and TLAPS proofs for the programs that turn a tool call
into an ANSYS simulation. The *beam pipeline* is the live one: two MCP servers, the
controller they spawn, the Workbench journal it starts and the Mechanical script
the journal sends. The *dynamic pipeline* is the older controller that generates a
journal from the request; it is started by hand. All of these meet in the same four
files; that is where the system can go wrong. In front of them stands the *RPC session*: the
JSON-RPC dispatcher through which a client's calls reach the tools and the answers return.

## 1. Inventory

| Component | Code | State | Operations | Modelled in |
|---|---|---|---|---|
| Packaged MCP server | `ansys-mcpb/server.py` | none of its own; the shared files | `run_ansys_simulation` (checks, write input, spawn, look at the exit code, read results), `get_ansys_results`, `check_ansys_connection` | `ToolServer` (calls in `Packaged`) |
| Development MCP server | `mcp_server/server.py` | same files | the same two tools, without the checks and without any `try` | `ToolServer` (other calls) |
| Beam controller | `scripts/create_ansys_project.py` | its place in `main`, exit code | write STARTING, load input, `Popen`, write WORKBENCH_RUNNING, poll; handlers | `Controller` |
| Beam journal | `scripts/cantilever_beam.wbjn` | its place, `elapsed` | remove status and error, build, send the script, wait 300 s, save | `BeamWorkbench` |
| Beam Mechanical script | `scripts/cantilever_mechanical.py` | its place | solve, write results, write SUCCESS, save; handler writes error and FAILED | `BeamWorkbench`; its face loop in `FaceScan` |
| Shared files | `simulation_input.json`, `results/*.txt` | text, and who wrote it | | `AnsysFiles`; both pipelines over them at once in `SharedFolder` |
| Dynamic controller | `scripts/create_ansys_project_backup.py` 1496-1749 | its place in `main`, iterations of the wait | unlink three files, load, validate, generate, write the journal, `Popen`, wait for any of three files, print | `DynController`; with its Workbench `DynService` |
| Input validation | same file, 33-237 | none | `load_input`, `validate_input`, the conversions of the generators (244-738) | `InputValidation`, used by `DynController` |
| Generated journal and scripts | same file, 244-1489 | where Workbench stands; whose journal it read | thermal script, structural script: results, save, COMPLETED, error | `DynWorkbench` |
| Results printer, launcher, test journal, manifest, bundles | | none | print, one `Popen` | not modelled: no state shared with the rest changes |
| MCP SDK: JSON-RPC over stdio | `ansys-mcpb/server/lib/mcp/shared/jsonrpc_dispatcher.py`, `server/stdio.py` | `_pending`, `_in_flight`, handlers, the two pipes | send a request and wait, time out, cancel; read loop, handle, answer, shut down | `RpcWire`, `RpcClient`, `RpcServer`, `RpcSession`; `RpcService` |
| Other vendored packages | `ansys-mcpb/server/lib` | | | not modelled, see section 6 |

**How they interact.** A tool writes the input file, spawns the controller and blocks on
it. The controller starts Workbench and blocks on that process. The journal and the
Mechanical script run inside Workbench and meet only in the status file. The dynamic
controller does not block on Workbench: it polls the error, results and status files.
Each program above learns of the one below by a process that ended, or by a file;
nothing names the call a file belongs to, and no lock protects a file. The two pipelines do not
know of each other at all, and still read, write and remove the same files. Client and server
processes meet in two pipes; a frame names its request by an id, which a caller may choose
and use again.

**What is hard.** Calls overlap: a synchronous tool runs in a worker thread, and
there are two servers. Files outlive the run that wrote them. The controller writes the
status after it started Workbench, while the journal removes it. Writes
truncate before the text arrives. Raises are turned into files by handlers
that may themselves raise. Workbench ends when its user closes it. The
controller may be interrupted or killed and leaves Workbench running. The dynamic
controller leaves it running after every run, every run of it writes the same
journal file, and it removes results that a tool may be about to return.

**What makes each component correct.**
- Tool: a run is answered, once Workbench is closed, with that run's results
  (`FreshWhenSolved`, `AnsweredOnceClosed`). When calls overlap, with each other or with runs of
  the dynamic controller, at least not with an earlier session's (`SolvedIsNotOld`). That
  `get_ansys_results` finds the file it has just seen (`GetNeverRaises`) does not hold in this
  repository; what holds is that only a run takes it away (`OnlyRunsRemove`).
- Controller: its Workbench never runs unwatched, and one simulation at a time
  means one Workbench at a time (`WorkbenchIsWatched`, `OneWorkbench`).
- Journal: it decides by its own run's status and stops waiting
  (`VerdictIsOwn`, `JournalWaitEnds`).
- Script: a failure is explained (`FailureExplained`), support and force go to
  the two ends of the part (`EndsAreExtreme`, `RefusedOnlyIfUnreadable`).
- Dynamic controller and scripts: what is printed was written in this run
  (`PrintedIsOwn`) or at least in this session (`PrintedIsNotOld`), a failure has a file
  behind it (`FailureHasFile`), the controller ends (`ControllerEnds`).
- Input validation: it and the generators agree on what is refused but for five known gaps
  (`RefusedWithReason`), no Workbench draws a size it refuses (`DrawsCheckedSizes`), and
  no request of the servers' tools passes at all (`ToolRequestsNeverRun`).
- The dynamic pipeline as a whole, for quiet runs: a run that clears the files, has them filled by
  its own Workbench and ends once with what they hold (`ImplementsRuns`).
- Both pipelines: every step brings one call or run nearer its end (`EveryStepCounts`).
- The beam pipeline as a whole: one store of results behind the tools (`ImplementsService`).
- RPC session: one answer at most, none after a cancellation, no cancellation or answer that
  goes to the wrong call, and both ends get away (`AtMostOneAnswer`, `CancelledIsSilent`,
  `WantedIsCancellable`, `WantedIsNotCancelled`, `OutcomeIsOwn`, `CallerReturns`,
  `ServerFollows`).
- The RPC session as a whole: calls that are answered once (`ImplementsCalls`).

## 2. Modules

```
AnsysFiles                 the four files, faults
  ToolServer               tool, answer
  Controller               ctl, code
  BeamWorkbench            wb, jnl, polls, verdict, mech, solved
    BeamPipeline           all three composed: Spec, FairSpec, properties
      BeamInvariant        the inductive invariants
        MCBeam             constants for TLC
        BeamPipeline_proofs
        BeamService        the refinement of SimulationService (phase, store, reply)
          BeamService_proofs
      SharedFolder         BeamPipeline with an instance of DynPipeline, on the same four files
        MCShared           constants for TLC
        SharedFolder_proofs
  InputValidation          requests as kinds of value
  DynController            script, dyn, wanted, waits, said
  DynWorkbench             wbk, source
    DynPipeline            both composed: Spec, FairSpec, properties
      DynInvariant         the inductive invariants
        DynPipeline_proofs
        DynService         the refinement of RunService (stage, bench, results, error, told)
          MCDyn            constants for TLC
          DynService_proofs
FaceScan                   the face loop: MCFaceScan, FaceScan_proofs
RpcWire                    toServer, toClient
  RpcClient                client, pending, caller, mailbox, outcome
  RpcServer                loop, inFlight, handler, asked, frames
    RpcSession             both composed: Spec, FairSpec, properties
      RpcInvariant         the inductive invariants
        RpcSession_proofs
        RpcService         the refinement of CallService (stage, work, revoked, got)
          MCRpc            constants for TLC
          RpcService_proofs
```

- **AnsysFiles.** A file is a record of what its text says and the call `by`
  which it was written; a results text also says whose request it is `of`.
  `"empty"` is the moment between the truncation of `open(..., "w")` and the text.
  `FilesInit` takes any of `Leftovers`, the directories that earlier sessions may have left:
  a session may be cut off at any point, so that any text of one file may stand beside any of
  another, torn ones and STARTING and WORKBENCH_RUNNING too. A write that raises may have
  truncated the file (`Torn`). A removal is refused when another process has the file open, as
  on Windows (`Refusals`): certainly when it has it open from one stage to the next, possibly
  when it opens and closes it within a stage. `Faults`
  says which calls' tool and script may fail to write (`write`), whose beam controller may
  (`report`), and whose controller may be interrupted or killed (`interrupt`).
- **ToolServer.** `tool[c]` is the place of call `c` in its tool. The two servers
  share the actions; where they differ (early checks, the `try` around the spawn
  and the read) the guard is `c \in Packaged`. `Serial` restricts the
  *clients*: a simulation is started only when none is running.
- **Controller.** One stage per file access of `main`; `code[c]` is the exit code.
  The handlers exit with 0 as the code does; only a kill, or a handler that
  itself raises, gives 1.
- **BeamWorkbench.** `wb` is the process, `jnl` the journal, `mech` the script.
  The Workbench and Mechanical calls between two file accesses are one step that may raise.
  `UserCloses` ends the process at any moment and both programs with it (a crash of
  Workbench looks the same). `SendCommand` may return at any moment
  after it is called, which covers both a blocking and a queueing Workbench.
- **BeamPipeline.** A step of one component is conjoined with `UNCHANGED` of the
  others; spawning and being spawned, ending and being seen to have ended, are joint steps. The
  composition knows which processes hold a file open, and tells the journal what its removals
  meet and whether its look may find the status empty.
- **SharedFolder.** A call is a use of a tool or a start of the dynamic controller by hand, at any
  time (`Discipline` is `"free"`). The steps are those of the two pipelines; only what a removal or
  the journal's look meets is asked anew, since now programs of both sides may have the file open.
  Nothing that a script of either pipeline has open is removed, so a write always reaches the file
  that is on the path.
- **FaceScan.** One step per face; `fixedFace` and `loadFace` are indices, 0 for `None`.
- **DynController.** One stage per file access and per check of `wait_for_result`, since
  files come and go between two checks. `said[c]` is how run `c` ended and the file it
  printed. A removal before the `try` that is refused ends the script. `Stop` is Ctrl-C, which `except Exception` does not take.
- **DynWorkbench.** The journal waits for no file: a script has ended when its
  `SendCommand` has returned, so one variable says where the process stands. `source[c]` is
  the run whose journal this Workbench read, since all runs share the path. The thermal
  script only runs in a journal made of a thermal request (`ReadsThermal`); after it raised,
  `SendCommand` may raise or return.
- **DynPipeline.** `Discipline` is what the user keeps to between runs: `quiet` (the
  Workbench of the last run is gone), `serial` (the last controller has ended), `free`.

- **InputValidation.** A request is a record of kinds: a value is absent, text, NaN, zero or
  less, or above zero. `Accepted` is `validate_input`; `Generated` says which conversions of the
  generators return; a run goes on when both hold (`Runs`). `PackagedKeys` and `DevelopmentKeys`
  are the requests that the two servers write. `LoadInput` takes any request of `Edits`.
- **SimulationService.** What the two tools amount to for clients that run one simulation at a
  time: one store of results that only the simulation in progress changes, and calls that are
  answered from it once. `BeamService` maps `tool`, `results` and `answer` to it; the
  controller, journal, script, status and error have no counterpart.
- **RunService.** What a quiet run amounts to: it clears two files, its Workbench finds them clear
  and fills them, results once, and the run ends once and prints the one or the other as it
  stands just then. The Workbench may outlive its run. `DynService` maps `dyn`, `wbk`, `results`,
  `error` and `said` to it; status, journal, input and waits have no counterpart.
- **RpcWire.** Two bounded queues of frames, pipe and stream buffers together. `of` says whose
  call a frame is about, for the properties: every action looks at `IdOf` only.
- **RpcClient.** `send_raw_request` stage by stage: the waiter is registered (`Issue`), the
  request written, one outcome awaited; each way out removes the entry of its id (`Returns`).
  `mailbox` is the stream of one place, into which `ClientReads` puts an answer or `ClientEnds`
  the error of a closed connection. A request is withdrawn with a courtesy cancellation.
- **RpcServer.** The read loop, `_dispatch_request` and `_handle_request`. `loop` goes from
  reading to `ending`, where `run()` waits for its handlers, to `leaving`, where `stdio_server`
  joins `stdout_writer`: its write is in a thread that nothing interrupts, so the process is gone
  only when the pipe has room for the last frame. A handler is `queued`
  while a cancellation can interrupt it and `running` while its tool is in a worker thread,
  which nothing interrupts. The entry is removed in the step in which the handler returns,
  since the code has no await in between. `asked` is `cancel_requested`.
- **RpcSession.** The server has seen the end of its input, or is dead, once its `loop` does not
  read. A sender that is blocked in a write is not woken when the client goes: its request may
  still go out (`WriteRequest` asks nothing of `client`). The client leaves and the server dies
  at any time. `Inline` are the `initialize` requests, handled in the read loop.

- **CallService.** What a connection amounts to without pipes, tables and tasks: one call under
  way for an id, requests that are begun and answered once at most, answers that are handed out
  once, revocations that hit nothing a caller waits for. Whether any of it happens is left
  open, as either process may go away. `RpcService` maps `caller`, `handler` with `frames`, and
  `outcome` to it; the queues, tables and mailboxes have no counterpart.

### What is abstracted
- The status and error files are written in one step each. A stage in which the
  writer has the file open (`CtlHoldsStatus`, `MechHoldsStatus`, ...) lets readers see it
  empty and removals fail, so the split has no other effect. Input and results are split
  into two steps, since a tool may return, or a controller load, the text in between. In
  the dynamic pipeline the scripts' error file is split too, since its existence alone
  is what the controller waits for, and so is the generated journal.
- The dynamic runs share one input file that nothing writes while a run loads it; between the
  loads it holds any request of `Edits`. The order of the checks in `validate_input` is left
  out: all of them raise into the one handler of `main`.
- Of an RPC frame only its kind and call are kept: an answer is a result or an error alike.
  Progress notifications and requests of the server to the client (the tools make none) are left
  out. So is the limit of 40 worker threads that `anyio` shares out by default, among the tools and
  the threads in which `stdin_reader` and `stdout_writer` read and write. A handler that waits for
  a thread is `queued`, but a server with 40 tools in their threads would neither read nor write
  any more. The run has three calls; with more, the fairness of `ServerReads` and the room that
  `ClientHasRoom` stands for assume fewer than 40 tools at once. A client that left no longer reads; its end of the pipe may stay open, which is the hard case.
- `CancelledIsSilent` counts frames after the cancellation reached the handler; a cancellation
  that arrives after the answer was written finds no entry.
- Numbers the solver returns, formatting, printing and delays. Time is left out: the
  wait loop counts `polls`, not seconds.
- The process that `subprocess.run` reports is the controller itself; standard
  output is not kept.

## 3. Runs

| Run | Calls | What it asks | Result |
|---|---|---|---|
| `beam_serial` | 2, one at a time, the first's tool and script may fail to write | types; `FreshWhenSolved`, `OneWorkbench`, `VerdictIsOwn`, `FailureExplained`, `ImplementsService`, `EveryStepCounts` | holds, 52,681 states |
| `shared` | 2, each a tool or a dynamic run, overlapping, no faults | `WorkbenchIsWatched`, `SolvedIsNotOld`, `PrintedIsNotOld`, `OnlyRunsRemove` | holds, 1,096,061 states up to symmetry |
| `beam_live` | 1, every fault, fair | `JournalWaitEnds`, `AnsweredOnceClosed` | holds, 25,435 states |
| `face_scan` | bodies of up to 4 faces | `EndsAreExtreme`, `RefusedOnlyIfUnreadable` | holds, 1,933 states |
| `dyn_quiet` | 2 runs, quiet, every fault, fair, 5 requests | types; `PrintedIsOwn`, `FailureHasFile`, `DrawsCheckedSizes`, `ToolRequestsNeverRun`, `RefusedWithReason`, `EveryStepCounts`, `ImplementsRuns`, `ControllerEnds` | holds, 281,213 states |
| `rpc` | 3 requests, two under one id, one inline, one with a timeout, fair | types; `AtMostOneAnswer`, `CancelledIsSilent`, `WantedIsCancellable`, `WantedIsNotCancelled`, `OutcomeIsOwn`, `CallerReturns`, `ServerFollows`, `ImplementsCalls` | holds, 223,899 states |
| `beam_stale` | 2, one at a time | `ResultsAreOfThisRun` | **violated** |
| `beam_final` | 1 | `CompletedIsFinal` | **violated** |
| `beam_open` | 1, fair | `SolvedIsAnswered` | **violated** |
| `dyn_empty` | 1 run | `CompletedIsWhole` | **violated** |
| `dyn_late` | 2 runs, serial | `CompletedIsOwn` | **violated** |
| `shared_gets` | 2, one a tool, one a dynamic run | `GetNeverRaises` | **violated** |

"Solved" is `solved[c]`, a history variable: the script has closed its results file.

**Bounds.** Two calls: every interference is between a run and one other run, or
what an earlier session left, which the initial states hold besides. In `beam_serial` one call is of
each server and one only may fail to write, so that `FailureExplained` has a call to speak of; in
`shared` both are of the server with the fewest checks, which makes the calls interchangeable and
the symmetry sound. A call is a simulation, a look at the results or a dynamic run there, so that
every pair of them overlaps, on a clean directory and on one that a failed run left beside older
results. With faults the state space is too large for a run that is repeated often; the
theorems about its properties have no hypothesis on the faults of other calls. `Leftovers` are
all 189 combinations of texts where there is one call (`AllLeftovers`), and for two calls a clean
directory, what a success and a failure leave, and one with every text torn.
`MaxPolls` is the number of iterations of the wait loop (150 in the code): two are enough
to see an iteration after an iteration, one to see a verdict and a timeout. `MaxWaits` is
the same for the dynamic controller (1800 s of two second polls): a timeout may come
after any state of Workbench, so 0 or 1 iterations lose no order of events. The five
requests of `dyn_quiet` are a thermal one, one with NaN, one of the packaged server, one with a
flat block and one with a word for a number: each is refused, or passes, for another reason.
Three RPC requests are one, a second under its id and a third between them; one place in the
pipe to the server and two in the other let both fill up. Four faces with
three places for a centroid and a sentinel just outside them give every order
and tie of two extremes, a face between and an unreadable one. The proofs in
section 4 need none of these bounds.

**Fairness** (`FairSpec`). The tool, the controller and the journal's wait loop
keep taking steps: they are plain programs on a scheduler, and each of their waits is
a poll that goes on or a call that returns. Nothing is assumed of the user, who may
leave Workbench open for ever, of Mechanical, whose solve may hang, or of
`SendCommand`. Hence `AnsweredOnceClosed` starts when Workbench has ended. In the dynamic
pipeline only the controller is fair, which is enough for `ControllerEnds`: its wait
has a bound. In the RPC session the event loops of
both processes run, timeouts fire, and a handler that is inline or queued goes on; there is no
fairness for a tool in its thread, for callers that give up and for either process going
away. So `CallerReturns` does not need the server to answer, and `ServerFollows` names the three
things that hold the server: a tool in its thread, which for a beam run may wait for the user to
close Workbench; an inline answer for which the pipe has no room, since the parked read loop
then never sees the end of its input; and, when all handlers are done, a last frame for which the
pipe has no room, since the join of `stdout_writer` waits for its write. `JournalWaitEnds`
includes the final save of the journal, so its fairness also assumes that the `Save` of ANSYS
returns.

### What the violated runs show
1. `beam_stale`: after a first run left its results, a second run fails (any raise in
   the journal, the script or the controller); the controller exits with 0 and the tool
   returns the first run's text. The tool looks only at the exit code, and no run of this
   pipeline removes the results file.
2. `beam_final`: SUCCESS is written before the save. A save that raises makes the status
   FAILED after the journal has announced completion.
3. `beam_open`: the controller says "DO NOT CLOSE ANSYS." and waits for it to close.
4. `dyn_empty`: the results file exists from the moment the script opens it; the controller
   looks just then, announces completion and prints an empty text. The error file is
   printed in the same way, which is why `FailureHasFile` does not speak of its text.
5. `dyn_late`: the first run ends without its results, by timeout or, in the trace that TLC gives,
   by the failure of its thermal script, and leaves its Workbench running. That one has
   nothing open when the second run removes the files; it opens and writes its results after
   that, and the second run prints them. `PrintedIsOwn` holds when the user waits for
   Workbench to be gone.
6. `shared_gets`: `get_ansys_results` of the development server sees the results, a start of the
   dynamic controller removes them, and the read raises. The packaged server has a `try`
   around its read in this tool (`Unreadable`).

### What else the models say of the code
- The live pipeline prints the request and ignores it: the beam, its load and the report are
  written in `cantilever_beam.wbjn` and `cantilever_mechanical.py`.
- No request of a tool would run in the dynamic pipeline (`ToolsNeverRun`): the packaged server
  leaves out the reference temperature, which the structural generator reads, and the
  development server nests the dimensions that validation wants at the top.
- A request that validation accepts raises in a generator in five cases (`Gap`), and in no
  other (`GapsAreAll`). NaN passes every comparison and is drawn.
- An id that a caller uses again after it gave a call up can be answered with the late answer
  to that call. `OutcomeIsOwn` says that this is the only wrong answer there is; ids that the
  client makes itself never repeat.

## 4. Proofs

All theorems are about every set of calls, every `Packaged`, `MaxPolls` and `Faults`. A call is
`Attended` when its controller neither fails to write nor is interrupted or killed; a property
of one call asks that of this call only. Theorems that need `Serial` or `AllAttended` say so:
a controller that is stopped leaves a Workbench behind that writes the files of later runs, and
with two at once nothing is anybody's own.

- `TypeCorrect`: `Spec => []TypeOK`. `TypeOK` is inductive; a lemma per component.
- `ChainInvariant` (any overlap, any faults): `Chain` ties the stages of the three processes of
  an attended call together (`Linked`). A step of another call leaves them alone
  (`ToolIsLocal` and its like), so nothing need be assumed of it. `WorkbenchIsWatched` is not
  inductive by itself: that a Workbench in `launched` is the one this controller started needs
  `ControllerHasWorkbench`, which needs that a controller starts once, `ToolHasController`.
  `Watched` follows.
- `AloneInvariant` (`Serial`, `AllAttended`; tool and script may fail to write): `OneRun`, then
  what stands in the results (`OwnResultsOnDisk`), status (`OwnStatus`) and error (`ErrorFirst`) files at each stage of the
  one run; `Chain` is used to know that a call that is not running has no process left. `Fresh`,
  `SingleWorkbench`, `OwnVerdict` and `Explained` follow.
- `Implements` (`BeamService_proofs`; `Serial`, `AllAttended`): `BeamPipeline` implements
  `SimulationService`. The initial states map, and every step maps to a step or to nothing:
  most leave the mapped state alone (`OnlyWritesMove` and its like), and those that do not are one
  lemma each. `WrittenOnce` is the extra invariant: a run opens its results once, and what it
  opened stays its own until it is written.
- `StepsRunOut` (any overlap, any faults): `EveryStepCounts`. `Left` is a number for each call, the
  sum of what its tool, controller, journal and script have before them; every step makes one of
  these numbers smaller, none falls below zero, and so the pipeline makes a bounded number of steps.
  This is the safety half of `JournalWaitEnds` and `AnsweredOnceClosed`: what is left to
  fairness is that a program that can go on does.
- `ScanInvariant`: the loop invariant of the face scan, for bodies of any size;
  `ExtremeEnds`, `RefusalJustified` and `DifferentEnds` follow. The one assumption is that
  the sentinels lie outside the part.

In `SharedFolder_proofs`, for every overlap of tools and dynamic runs, `Faults`, `Leftovers`
and bounds:

- `FolderTypes`, `FolderChain`: the types of both pipelines and `Chain` are inductive for
  `FolderSpec`. A step of the beam pipeline is a step of `BeamPipeline` but for what its removals
  meet, and the lemmas of `BeamPipeline_proofs` are about each of its actions for any such
  answer; a step of a run leaves tools, controllers and Workbenches of the beam alone.
  `FolderWatched` follows from `FolderChain`.
- `OnlyRuns`: results that a tool has seen are there, or a run has come to the end of its first
  removal. The steps of the beam pipeline never make results absent (`ResultsStay`), and of a run only the one that
  leaves `unlinkResults` does.
- `SolvedNotOld`: `SolvedIsThere` is inductive: once some simulation has solved, the results are of
  this session or a run has come to the end of its removal. With `Chain`, a solved call is
  answered from the results file and not with the message of a failure (`SolvedAnswers`).
- `PrintedNotOld`: past a run's removal of a file, the file is absent or was written by some
  call (`NoOldText`), since no step puts an old text back (`ThisSessionStays`).

In `DynPipeline_proofs`, for every set of runs, `Edits`, `MaxWaits` and `Faults`:

- `TypeCorrect`: as above.
- `QuietOwn` (`Discipline = "quiet"`): `Own` is inductive. One run is active (`OneActive`), its
  Workbench came after its removals (`LaunchedFirst`), read its own journal (`OwnScript`), and
  the files found are its own (`OwnFiles`); an error once seen stays (`ErrorStays`), because only
  a later run removes it. `OneMoves` shows that a step of one run leaves the others inactive.
  `QuietPrintsOwn` and `QuietFailureHasFile` follow.

- `OnlyCheckedJournals` (every discipline): `Validated` is inductive. A journal is generated from
  a request that passed, the request of a run does not change after that, and so whatever
  journal is found on the shared path is of such a run. `CheckedSizes` and `ToolsNeverRun`
  follow with two lemmas about `InputValidation`.
- `StepsRunOut` (every discipline): the same for controllers and their Workbenches, the safety half
  of `ControllerEnds`. An iteration of `wait_for_result` has eight checks at most, and only
  `WaitAgain`, which the bound limits, goes back to the first.
- `QuietOrderly` and `Implements` (`DynService_proofs`; quiet): `DynPipeline` implements
  `RunService`. `Orderly` is inductive with `Own`: a run that is not launched has written nothing
  (`Unwritten`), so that with `OwnFiles` its Workbench finds both files absent; nobody waits without
  a Workbench (`WaitsFor`); the script opens its results once and what it opened stays
  (`WritesOnce`). `RunImplements` takes the steps one group at a time: a removal is a `Clear`, by
  `Unwritten`; a printed error is a `Fail`, by `ErrorStays`; the checks of `wait_for_result`
  and the journal's steps are hidden.
- `ReasonsAreAll`: the step at "prepare" (`StepsFromPrepare`) with `GapsAreAll`, which compares
  validation and generators over every request.

In `RpcSession_proofs`, for every set of calls, ids, inline and timed calls and room, without
any fairness. Each line uses those before it:

- `TypeCorrect`; `Steps` groups the disjuncts of `Next` by what they touch.
- `RequestsAreSentOnce`: `SentOnce` is inductive with the types. Most steps leave the request
  pipe alone and move stages forward only (`QuietSteps`).
- `HandlersAnswerOnce`: `Entries` and `OneFrame`. A request that is read has no handler yet, by
  `SentOnce`; a cancellation hits a handler at work, by `Entries`. `AnsweredOnce` and
  `SilentOnceCancelled` are conjuncts of it.
- `WaitersInvariant`: calls under way and entries of ids correspond one to one.
- `AnswersInvariant`: the one answer is in the pipe or in one mailbox (`OneAnswer`); when it is
  put into the mailbox of another call, its own call is done without it (`LateAnswers`).
  `OwnOrLate` follows.
- `InOrderInvariant`: the pipe keeps order, and a new call takes an id only when the last one gave
  it up (`OneIsRegistered`), so nobody waits for what is ahead of another frame with the
  same id. `FoundByCancel` and `NotHitByCancel` are inductive with it.
- `Implements` (`RpcService_proofs`): `RpcSession` implements `CallService`. Again most steps are
  hidden, and each of the others is a step of the service for a reason above: `Open` by
  `Waiters`, `Begin` by `SentOnce`, `Answer` by `OneFrame`, `Revoke` by `WantedIsNotCancelled`,
  `CloseWith` by `Answers` and `HandedToOne`: an answer reaches one mailbox only.

TLC checked `Own`, `Chain`, `Alone`, `WrittenOnce`, `Validated`, `Orderly`, `OneMailbox` and the conjuncts of `RpcInvariant` before they were proved.

Only model-checked: the liveness properties (liveness under fairness is out of the
prover's reach).

## 5. Plan

All parts of the plan are done: the beam pipeline and the face loop, the dynamic pipeline, both of
them on one folder, input validation, three abstract services with their refinements, the RPC
session, and a theorem for every safety property of a passing run. What could follow: progress
notifications in the RPC session, and faults in the shared run.

## 6. Not modelled

- **Vendored packages.** Of some 335,000 lines under `src/`, almost all are third party packages
  in `ansys-mcpb/server/lib`: Windows constants and error tables, Unicode tables, three
  generations of MCP types, `typing_extensions`, `click`, `pydantic`, `anyio`, `httpx`, `win32`.
  Tables and type declarations have no behaviour to model, and the two servers use a small part
  of the rest. Only the dispatcher between a client and the tools is modelled, because tool calls
  interleave, are cancelled and are lost there. The share of lines that the map covers is small
  for this reason; of the repository's own 3,300 lines of Python and journals about three
  quarters are mapped.
- **The host's MCP client.** The servers are started by a host application that is not in the
  repository. The client's half of the RPC session is the Python client of the vendored package
  (`send_raw_request`): it is what the server's half is written to work with, but another
  client may choose ids, time out and cancel in another way. `AtMostOneAnswer`, `CancelledIsSilent` and
  `ServerFollows` are about the server; `WantedIsNotCancelled`, `OutcomeIsOwn` and
  `CallerReturns` are about a client like this one.
- **What else happens in the shared folder.** In `shared` no write fails and no controller is
  stopped, and nothing is asked of liveness; the wait loops have their least bounds. A run loads
  any request of `Edits`, as if the user had just edited the input by hand, but such an edit is not a step
  that a tool's controller could meet. Journal and project files are of different
  names in the two pipelines, and the ANSYS project directory is not modelled.
- **HTTP transports, sampling and elicitation, resources and prompts** of the SDK: both servers
  run over stdio and offer tools only.
- **Geometry, units and the text of the generated scripts**, and what the solver returns: outside
  of what a model checker tells apart.
- **Results printer, launcher, environment check, test journal, manifest and bundles**: they
  print, start one process, or are data.
- **The face choice of the generated scripts**: it is the loop of `FaceScan` without the `try`
  around a centroid.
