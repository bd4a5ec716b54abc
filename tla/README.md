# A TLA+ development of mca

mca is a local coding agent. One process talks to a model, runs tools for it in a workspace, and
writes every fact of the session to an append-only file, the *rollout*. The rollout is the only
source of truth: state is what a replay of it says, before and after a crash. The modules here
describe that design as the code under `src/src/mca/` carries it out. TLC checks them on small
instances, and TLAPS proves the theorems for any number of turns, calls, nodes, crashes and interrupts.

- [Components](#components)
- [Modules](#modules)
- [Runs](#runs)
- [Disagreements](#disagreements)
- [Fairness](#fairness)
- [Proofs](#proofs)
- [What is left out](#what-is-left-out)
- [Plan](#plan)

## Components

Paths are relative to `src/src/mca/`.

| component | state it keeps | operations | what makes it correct |
|---|---|---|---|
| reducer (`domain.py`) | `SessionState`: turns, calls, approvals, code runs and nodes, recovery block and intent, plan mode, file baselines | one handler per event type; `DomainError` refuses an event | a finished turn leaves nothing open or unknown; terminal facts are final; the recovery block is exact |
| agent loop (`agent.py`) | phase of the turn, `tool_steps`, the batch in hand | `run_turn`, `resume_active_turn`, `_drive_turn`, `_execute_batch`, `_close_calls`, `_finish` | the model is asked only when each call has one result; the limit of batches holds; every turn ends |
| executor (`executor.py`) | staged calls not yet recorded | prepare, approve, start, dispatch, commit; run_code | intent durable before effect; no effect without approval or in plan mode; nothing appended that the reducer refuses |
| batch scheduler (`tool_scheduler.py`) | futures in flight | serial calls, groups of parallel reads, drain after Ctrl-C | results in an order the log takes; nothing left started |
| Code Mode (`code_mode.py`, `code_scheduler.py`, `code_graph.py`) | nodes of a run, waves of staged nodes | plan, execute a closure, abort | a run closes after its nodes; dependents after dependencies |
| code runtime (`code_runtime.py`, `code_worker.py`, `code_protocol.py`, `code_sdk.py`, `code_ast.py`) | worker process, pipes, deadline | start, execute_graph frames, done, stop | a run ends within its deadline; limits hold |
| recovery (`session.py`) | none: it reads and appends | `resume_session`, `_recover_open_calls`, intents, `reconcile_tool`, abandon | what was lost is uncertain, never denied or repeated; every step can be cut short and repeated |
| store (`store.py`) | file, flock, `_events`, `_poisoned` | open, repair, append, snapshot | what `append` returned is kept; the file never becomes corrupt; memory is the file |
| managed file tools (`tools/filesystem.py`, `file_versions.py`) | tickets per path, users and owners of new directories | prepare, execute in a thread, cleanup | no write over an unseen write; the log knows each file and its baseline |
| undo (`undo.py`) | files, quarantine names, statuses of one run | preflight, restore or delete each file, remove directories, record | no edit is lost; success means restored; retries converge |
| projection, conversation, compaction (`projection.py`, `conversation.py`, `compact.py`) | the latest checkpoint and `last_usage`, both facts of the log | project, estimate, validate, checkpoint | each call has exactly one result in the prompt; nothing is dropped that no summary stands for; a turn ends whatever its context does |
| command line, approval, plan tool (`cli.py`, `approval.py`, `tools/plan.py`) | the prompt | commands, `/undo`, resume | only events the reducer takes |
| model client, event stream (`model.py`, `sse.py`) | retry budget | sample with retries | bounded, at most one accepted answer |
| shell (`tools/shell.py`) | process group of a command, two drain threads | run, drain, terminate, kill | bounded; no process left; the status is the command's own |
| registry, search (`tools/`) | none | schemas, read-only searches | – |
| configuration, terminal, inspection (`config.py`, `terminal.py`, `inspect.py`) | none | parse, render, list | – |

How they interact: the agent loop, executor, Code Mode, recovery and command line all write through
`RolloutStore.append` and *then* call the reducer, so an event that the reducer refuses is already
durable. The executor calls tool bodies on the main thread or in workers and records results on the
main thread only. The code worker asks for nodes over a pipe and the host runs them with the same
executor. `resume_session` replays the rollout and appends what closes it. `/undo` reads baselines
from the state and appends its result.

What is hard: a Ctrl-C may come between any two statements of the main thread, also in handlers and in
`append`; the process may die there; workers and editors change files meanwhile; and everything must
be put right later from the log alone. `PROJECT.json` lists each hazard at its line.

## Modules

**SessionReducer** is the reducer: one action per event type. `CanX` is the conjunction of the
`DomainError` checks of the handler, `X` its assignments. `Next` accepts every log the reducer
accepts, whoever writes it, so its properties hold whatever the program does. A call of origin code
and its `CodeNode` carry the same status and are one variable.

**Session** extends it with the program: an action is one durable append, one step of a body, or one
step of control between them. `phase` is the place in `_drive_turn` (`sample`, `batch`, `drain`,
`abort`, `close`, `finish`), at the prompt (`idle`), in `resume_session` (`recover`), before the
operator (`operator`) or nowhere (`down`). `body` is what the executor has in hand and has not
recorded. `Write(writer, can, event)` is append-then-reduce: the event happens or, if refused, the
writer is remembered in `rejected`. `CloseCall` and `FinishTurn` guard with `Can...`, as the agent loop
reduces a candidate before it appends. The five actions of Ctrl-C differ by what the main thread
does: a tool body, waiting for workers, the executor, the abort of a run, the loop itself; a sixth is
Ctrl-C inside `append`.

**ToolLedger** is the abstract promise about side effects: intent before effect, at most one effect,
a lost result is uncertain and only a person settles it. `Session!Ledger` instantiates it with
`Entry`, and `KeepsTheLedger` is its specification.

**RolloutStore** is the file: a record is three pieces (beginning, end, newline) written by separate
calls and promised after fsync. Processes compete for the lock, fail, are killed or interrupted
between any two calls; a power loss leaves the last fsync or a part of what followed; a reader without
the lock reads in chunks of any length. `Committed`, `Corrupt`, `NeedsNewline` and `DroppedPartial`
are `_parse_rollout`.

**ManagedWrite** is `write_file`/`edit_file`: prepare on a version, record plan and baseline, start,
then the steps of `PreparedFileChange.execute` in threads with the tickets and directory leases of
`FileMutationCoordinator`, and the record of the result. An editor saves and deletes, a call fails,
Ctrl-C comes while the call is on the main thread, the process dies and is reconciled. A version is
named by its writer, as a `FileVersion` (inode, times, size, hash) is met once. Ctrl-C comes inside a handler
that gives back what the call holds (`Handled`) or outside each of them:

- `LoseTicket`: `_turn` takes its ticket and waits for it before its `try`, and counts `serving` up last in
  the `finally` (`file_versions.py:301-310`). The ticket is then taken and never served (`lost`).
- `LoseUser`: the user of the directory is counted and not released, or released in part
  (`file_versions.py:208-239`).
- `MakeAndStop`, `LoseDirectory`: after `create_directory` and before the guarded `try`, or in a `finally` before
  `cleanup_failed` (`filesystem.py:188-197`, `256-263`, `307-332`), a directory stays that no record owns, perhaps
  with the temporary file in it (`stray`).

`leaked` names the calls whose lease of the directory was lost in one of these ways. `Leave` serves the next
ticket and `Release` counts the user down: two steps, as there are two `finally` blocks.

**ManagedUndo** is `undo_turn`, one action per system call that matters: preflight, reservation,
rename to quarantine, check, temporary file, link, unlink, directories, record. Contents stand for
bytes and mode. `swapped` is what `_require_same_entry` compares.

**CodeDag** is what a run of `run_code` promises of its nodes: planned with dependencies that are
planned already, started when all of these succeeded, blocked by the failures they descend from, or
put off by a cancellation or recovery. A node has one end.

**CodeRun** is how that promise is kept: the worker process with *any* program over its graph client
(create, after, execute, a reply), the frames both ways, `CodeRuntime.run` with its deadline, and
`CodeDagScheduler` statement by statement: plan a frame, take the closure of its targets, block,
prepare, form a wave with one change of each file, fill the pool under the cap, wait, commit. `pc` is
where the main thread is; `body` is what the thread of a node does. Ctrl-C behaves by place: a wait drains
first, an approval closes its call, anywhere else the handlers of `CodeModeRunner.run` abort, and a second
one may come in those. `CodeRun!DagSpec` is checked as `KeepsTheDag`.

**Compaction** is what the model is shown. A message is its position in the history, so a
conversation is a set of positions: `View` is what the checkpoint kept and what came after it, `Kept`
the first task, the last one and the tail of groups, `Fresh` the part the next summary reads.
`digest` collects what went into the chain of summaries. Estimates are sums of sizes; `Anchored` adds
what came after the last reply to the usage the provider reported with it.
`Project`/`Compact`/`SampleOverflow` are `_sample_with_one_compaction`.

**Shell** is `PreparedShellCommand.execute`: `phase` is the block of `try`/`except`/`finally` it is in and `pc`
the statement, inside `_stop_process_group` too. Processes are free: they fork, leave the group, keep or
close the output, ignore SIGTERM, never end. `killpg` reaches one process after another, as the comment in
`_stop_process_group` supposes. Every wait has a timeout and may end without what it waited for. A
call comes from the main thread (Ctrl-C) or from the pool of Code Mode (cancellation event).

| module | composes / refines | proofs |
|---|---|---|
| `SessionReducer` | – | `SessionProofs` |
| `Session` | extends `SessionReducer`, implements `ToolLedger` (`KeepsTheLedger`) | `SessionProofs`, `SessionSafetyProofs` |
| `ToolLedger` | – | `SessionSafetyProofs` |
| `CodeDag` | – | `CodeRunProofs` |
| `CodeRun` | extends `CodeDag` and implements it (`KeepsTheDag`) | `CodeRunProofs` |
| `RolloutStore` | – | `RolloutStoreProofs` |
| `ManagedWrite` | – | `ManagedWriteProofs` |
| `ManagedUndo` | – | `ManagedUndoProofs` |
| `Compaction` | – | `CompactionProofs` |
| `Shell` | – | `ShellProofs` |

Definitions whose comment begins with "Bug:" are not part of any specification. Each stands beside
the definition it distorts, the way a plausible slip in that code would, and `PROJECT.json` pairs it
with the property that notices it.

## Runs

`tlc -workers 2 -config X.cfg M`.

| run | module, cfg | distinct states | shows |
|---|---|---|---|
| reducer | `MCSessionReducer` | 3,887,916 | what every accepted log says: settled turns, exact recovery block, certain interruption, final facts |
| session | `MCSession` | 2,541,724 | no event is refused; the side-effect ledger is kept; sampling only on settled calls; the step limit across resumes |
| session_plan | `MCSessionPlan` | 279,683 | every started turn ends; no effect without approval or in plan mode |
| store | `MCRolloutStore` | 51,796 | never corrupt, promises kept, memory is the file, snapshots hold what was promised |
| undo | `MCManagedUndo` | 1,399,480 | no edit lost, no file missing, success is restored, retries converge |
| write | `MCManagedWrite` | 3,112,392 | writes see each other, log and baselines know the files, directories are kept, and accounted for unless a Ctrl-C leaked one, tickets are served but for those a Ctrl-C lost |
| dag | `MCCodeRun` | 1,008,726 | the nodes keep the promise of `CodeDag`; the worker holds no outcome the rollout contradicts; what is recorded is what the threads did; the cap and one change per file hold; at most one dispatch after a cancellation; a closed run is settled; every run ends |
| context | `MCCompaction` | 347,708 | the prompt is valid, keeps the tasks and, with its summaries, stands for the whole history; no turn hangs on its context |
| shell | `MCShell` | 482,924 | a kill leaves nobody in the group; success and failure are the command's own, with all output read; a killed shell starts nothing more; `execute` returns |

The type invariants (`...TypeOK`) and `AbandonCompletes`, `ConflictsHaveACause`, `NothingIsLeftUndone`,
`DeniedNeverStarts` and `FinishedRunsAreClosed` hold in the same configurations when they are added to
them; all but `StoreTypeOK` and `ContextTypeOK` are proved for all instances.

Bounds, all of them constants of the configurations, and why they are enough for the questions asked:

- *reducer*: two turns, so that a call of a finished turn is there while another runs; two calls, one
  of them `run_code`, so that there are two uncertain calls at once and a node beside its parent.
- *session*: one turn, three calls (a `run_code` call, an effect, a read). The last two are asked for
  by the model beside the first or planned as its nodes, so a batch, a wave and a mixture occur.
  `MaxSteps = 2` gives a last batch that is not the first. Two stops (a crash, and one in the recovery
  from it) and two interrupts (the second in the handler of the first).
- *session_plan*: `BatchLimit = 2` with three calls puts one over the limit; one Ctrl-C and one stop,
  so a turn meets both and must still end.
- *store*: two processes and four appends: one promised, one torn, one durable but unpromised, one after
  the repair. Power losses, failures and readers are not counted.
- *undo*: two changed files and a created one in its own directory, so that one file is done and one is
  to come whenever something happens to the second; two edits, two crashes, one failed call.
- *write*: two writes of one file and one of another in one new directory; one edit (the same bound
  counts saves and deletions), one failed call, one Ctrl-C inside a handler or outside, one crash.
- *dag*: up to three nodes under (`max_nodes`, `max_parallel`) of (2, 1) and (3, 2), the first and the last
  writing one file. Three nodes are enough for a chain, a fork, a join, a frame over the limit and a
  node put off for its file. One call of `after`; two Ctrl-C, the second in a handler of the first.
- *context*: histories of seven messages with batches of two calls and a tail of one group, so that a
  second compaction drops what the first one kept; sizes 1 and 4 against a budget of 9, so that a
  result is shortened, a summary does not fit, and a compacted request fits or not.
- *shell*: the shell and two processes: one may leave while the other stays in the group; two pipes;
  two Ctrl-C, the second in the handler of the first. The model ends where `execute` does.

The three-call runs need no symmetry: the calls differ by their tools. `CHECK_DEADLOCK FALSE` stands
where the system really stops: a log that may not grow because its turns are used up, writes that are
all done, an undo that has succeeded, a closed run, a prompt at the bound of the history, a command that
was reported.

## Disagreements

Three runs check one sentence of the repository each and expect TLC to find it violated. The
counterexamples of `anchor` and `shell_left` were also carried out against the Python code.

| run | property | sentence | what happens |
|---|---|---|---|
| anchor | `GivenUpForSize` | 技术方案.md:430, `projection.py:514` | the usage of the last reply outlives the compaction it caused: the compacted request is small, does not "fit", and this turn fails, as does every later one that still does not fit by the old count |
| project | `ReconciledProjects` | 技术方案.md:270 | a reconciled code node is written without `origin`, and every later projection of the turn raises |
| shell_left | `CtrlCLeavesNobody` | 需求文档.md:150, 技术方案.md:389 | one Ctrl-C while the output of an ended shell is drained leaves `execute` at once: the call is recorded as interrupted, the processes of the group and both threads live on |

The same models show seven more; each has a configuration to run by hand, and is not among the listed runs.

| configuration, module | property | sentence | what happens |
|---|---|---|---|
| `MCSessionEscape`, `MCSession` | `InterruptNeverEscapes` | 需求文档.md:130 | Ctrl-C inside `append` poisons the store; the handler can neither replay nor append and an `AgentLoopError` leaves `run_turn` and the program |
| `MCSessionUnknown`, `MCSession` | `OnlyCrashesAreUnknown` | 技术方案.md:393 | Ctrl-C between `tool_started` of a node and its dispatch records `outcome_unknown` in a live turn, which then cannot be finished |
| `MCRolloutSnapshot`, `MCRolloutStore` | `SnapshotIsSafe` | `store.py:228` | a reader between a torn tail and its repair reports a healthy session as corrupt |
| `MCManagedWriteReplay`, `MCManagedWrite` | `LogStaysReadable` | 技术方案.md:307 | an editor that saves between `os.replace` and the capture makes a success durable that the reducer refuses, so the session never replays |
| `MCManagedWriteUndo`, `MCManagedWrite` | `SuccessCanBeUndone` | 需求文档.md:28 | one failed write of a turn leaves a baseline without a success, and the undo of the successful ones is refused |
| `MCManagedWriteOrphan`, `MCManagedWrite` | `FailedWritesRollBack` | `tests/test_filesystem_tools.py:527` | two writers of one new directory both fail; each cleanup (`file_versions.py:285`) leaves the directory to the other, as users are counted down only afterwards; it stays, empty, and undo does not know it. One Ctrl-C outside the handlers leaves a directory in the same way |
| `MCManagedWriteTicket`, `MCManagedWrite` | `EveryoneIsServed` | `file_versions.py:199` ("Run same-canonical-path commits in FIFO arrival order.") | a Ctrl-C while a write waits for its ticket, or in the `finally` before `serving` is counted up, loses the ticket: every later write of that path in this process waits for ever |

Further observations are steps of the models without a property of their own. An undo that removed
the created directory and died before recording success conflicts on every retry (`RetriesConverge`
and `ConflictsHaveACause` name the case as their exception); every file is restored by then, and only the
record is lost (`CrashesLeaveNothingUndone`). Two of the sentences above hold in a narrower form, which is
proved: the log replays as long as no editor saved (`UndisturbedLogsReplay`), and a write that fails alone
takes its directory back unless a Ctrl-C outside the handlers leaked it (`OneFailureRollsBack`). A third is
`NobodyWaitsInVain`: as long as no ticket was lost, whoever waits has one before it that is being served. A Ctrl-C after the effect of a write and
before its record closes the call as interrupted or cancelled, and the log then denies the effect
(`Hidden` in `ManagedWrite` names it). On a deadline or Ctrl-C a command is killed at once (`KillLeader`), while
技术方案.md:351 describes a TERM and a grace period before the KILL; the TERM path is the one of the cleanup.
A session-wide approval is replayed in the next process, while 技术方案.md:364 says it is not restored.

## Fairness

`FairSession` assumes `WF_vars(Program)`: while the program, its recovery or its operator can take a
step, one is taken. In the code every wait has a deadline: tool bodies, the model's retry budget and
the code worker's wall clock. The weak fairness covers also `Restart`, `Reconcile` and `Abandon`:
somebody resumes a session and answers, otherwise no turn that crashed could ever end. Nothing is
assumed of the user's commands, of Ctrl-C or of crashes. There is no strong fairness, and no fairness
of a single action: when the program may choose, any choice must lead to the end.

`UndoSpec` assumes `WF_vars(Step)`, as system calls return, and `WF_vars(Start)`: who wants the turn
undone asks again.

`FairRun` assumes weak fairness of the host, of the clock (`Expire`) and of the end of each tool body
(each has its own timeout), and nothing of the program in the worker: `RunEnds` rests on the deadline. Two
things are assumed with it that the code does not bound: the user answers an approval, which has no deadline,
and no write waits for a lost ticket (`EveryoneIsServed`). `TurnsEnd` is checked without a `run_code` call, so
the turn that cannot be finished (`OnlyCrashesAreUnknown`) is outside of it.
`FairSpec` of `Compaction` assumes `WF_vars(Step)`: sampling, tools and summaries end. `ShellSpec` assumes
`WF_vars(Execute)`: the caller goes on and time passes, a deadline being a choice of `Poll`; the processes
and the drain threads owe nothing, as every join is bounded. The other specifications state safety only.

## Proofs

`tlapm M.tla` for the eight modules below; a slower machine wants `--stretch 2`. Each theorem holds for any number of turns, calls, nodes,
processes, files, writes, interrupts and crashes that its constants allow. `PROJECT.json` lists them.

What they assume of the constants is named in the modules that declare them and says what the code
gives: no key is the word for none (`CallsAreKeys`, `ProcessesAreNamed`, `WritesAreNamed`), contents and an
absent file are told apart (`ContentsDiffer`), limits and bounds are numbers, those the code requires to be
positive are (`ConfigIsPositive`, `RunConfig`, `ShellConfig`, `FilesAreKnown`), every node has a target
(`RunConfig`), a batch has finitely many calls and sizes are numbers (`CompactionConfig`).

Where the code counts or searches (the committed records of a file, the tail of groups kept by a
compaction, the closure of the targets of a frame) the definitions are least or greatest elements, or
least closed sets, and the proofs use that instead of an induction: the finite intervals of numbers
are well-founded under strict inclusion, and every closed set contains the least one.

*Every accepted log* (`SessionProofs`, first part). The inductive invariant `Inv` conjoins `TypeOK`,
`CallsHaveTurns` (an accepted call has a turn, any other has none) and five properties. They need
each other: `BlockedIffUnknown` survives `turn_finished` only because `FinishedTurnsAreSettled` says no
call outside the active turn is unknown, and the latter survives because `turn_finished` is refused
while blocked; `DeniedNeverStarts` rests on the fact that an approval decided once is not decided again.
One lemma per event shows that it preserves `Inv`; `NextInv` puts them together; `Finality` is the
action property, by `Inv` in the state before the step.

*The log of a session* (`SessionProofs`, second part). The lemma `StepAccepted` says of each action of the
program that it is one event of the reducer or leaves the facts alone. That is so by the form of `Write`, whatever the program
does, and is used only to carry `Inv` over to `SessionSpec`; that no event is *refused* is
`EveryEventIsAccepted` below. The one piece of program state that matters is `VerdictIsKnown`: whenever the loop closes or
finishes a turn it holds a status `turn_finished` may carry. `StepLimitHolds` proves the limit of batches
through resumes; its invariant is `StepsAreCounted`: while the loop drives a turn, the counter in memory
equals the number of batches of that turn in the rollout.

*What a session does* (`SessionSafetyProofs`). `ProgramInv` adds to `Inv` what the program may rely on at a
place. `IntentsComeFirst`: a pending intent is completed before anything else, and a turn to abandon has
nothing open. `QuietBetween`: between batches nothing is open and nothing in hand. `OnRecord`: what the record of a
call implies of its approval and its effect. While a batch is in hand, `OpenIsInBatch` (an open call is of the
batch or a node of a run the batch started), `InModelOrder` (calls start in model order, only reads
together), `ApprovedOutsidePlan` (no plan mode under an approved effect), `InHands` (what the executor holds is
open, and an unknown outcome is a node of an interrupted run) and `NotYetRun` (a started call with nothing in
hand has had no effect). From it:

- `EveryEventIsAccepted`: the guard of each writer implies the reducer's, so `rejected` stays empty;
- `SamplingIsSettled` and `AbandonCanComplete`;
- `EffectsAreApproved`: no body without approval or in plan mode;
- `SideEffectsAreOnRecord`: the session implements `ToolLedger` under the mapping `Entry`, step by step;
  with `LedgerStaysHonest`, an invariant of the ledger alone, `RecordsOfEffectsAreHonest` follows: a call
  that is blank or refused on record had no effect, and none had two.

*The graph of a run* (`CodeRunProofs`, first part), for any set of nodes. Beside the typing the inductive
invariant is `Promise`: `Planted` (what a node needs was planned before it), `Acyclic`,
`NothingRunsEarly` and `RootsAreFailures`. `Acyclic` (every non-empty set of planned nodes has a member
that needs no member of the set) follows for a new node because nothing planned needs it, which is
`Planted`; `RootsAreFailures` survives because an end is final and the roots of a blocked node are those
of its blockers. `Progress` is why the code's "graph made no progress" branch is dead: while a node is
planned one can be started or blocked, or one runs.

*The scheduler* (`CodeRunProofs`, second part). `RunInv` conjoins `Handshake` (worker and host take turns),
`Frames` (the nodes the worker has, those it sent and those the host planned), `Outcomes` (the worker was told the truth, and
what is on its way is true), `OpenNodes` (which set of the scheduler each open node is in at each `pc`),
`Bodies` (a record is what the thread did; a thread that runs is in flight), `PassIsTrue` (a pass without progress
leaves no node that waits for a failed one), `LastDispatch`, `Bounded`, `Verdicts`, the typing and the
`Promise` of the graph. `SchedulerKeepsTheDag` shows each step to be one of `CodeDag` or to leave the nodes
alone; the other theorems are consequences of `RunInv`. `Bounded` holds because a wave is made of nodes that change different files
and the pool is filled one by one, and it counts threads, not records.

*Shell* (`ShellProofs`). `ShellInv` is `Blocks` (what each block of the `try` has set and where it may be),
`GroupIsKilled` (once a command timed out or was interrupted, the kill is still to come or everybody in the group
is doomed), `EndsByItself` (a command nobody stopped has ended before it is reported, with its threads still
reading) and `LeaderFirst` (the loop and its handler kill the leader before the group).

*The rollout file* (`RolloutStoreProofs`). `StoreInv` is `InSequence` (in the file, and in what a power loss would leave,
each piece belongs where it stands), `Exclusive` (an open store holds the lock), `Memory` (the
records in memory, and the pieces of the one being appended, are the file), `Kept` (what was promised is in the file, and
would survive) and `Shown` (what was promised when a reader began stays, and as much of it as was
read was read as it is). A file in sequence has one committed count, so the `CHOOSE` in `Committed` names it;
a torn tail is at most one record, and what a repair cuts off was never promised.

*Undo* (`ManagedUndoProofs`). `UndoInv` is `Held` (what is in quarantine at each step of `undo_turn`), `InPlace` (what must be
at the path before a name in quarantine is given up), `StatusIsTrue` (a status that counts as success is
true of a file no editor touched since), `SuccessIsLast`, and the three properties themselves. Editors may act between any two
system calls, so `InPlace` speaks of what was saved and not of what the run left there.

What an undo does to files that *nobody* edits is a second invariant, `AloneInv`, beside the first. `AllUsual`
lists the pairs of contents, at the path and in quarantine, that undo alone makes of a file; `AsFound` says
that what the preflight found of a file is still so when its turn comes, and `AtFile` which pair the current
step works on. With them a file never ends in conflict half way, so `Reasons` can give every
recorded status its cause, and `Gone` the one case that never gets better: once the directory is gone no
run passes the preflight, and if no call failed all files were restored when it went. `ConflictsAreExplained` and
`CrashesLeaveNothingUndone` follow. This is the safety part of `RetriesConverge`.

*Managed writes* (`ManagedWriteProofs`). `WriteInv` is `InLine` and `HasTicket` (who has a ticket of a path or lost
one is in its queue, nobody else, and a call is in its turn only as the first), `MainIsAlone`, `Told` (log, effect and place of a call fit
together), `Provenanced` (whose version is in a file), `Seen`, `StillThere`, `Based`, `Logged` and
`DirectoryIsKept`. The argument for `WritesSeeEachOther`: a call is prepared on nothing that is still open
(`Seen`), and as it alone has the turn from its check to its replacement, what it checked is still there
unless an editor came (`StillThere`). For the baselines: one is taken before a call starts, and taken anew only
while no write of the path has succeeded (`Based`), so it is the file from before the turn (`Logged`) unless the log denies an effect
(`Hidden`).

`DirectoriesAreAccountedFor` is about the end of a turn in which one call at most failed, nobody touched the
directory and no Ctrl-C leaked it. `Calm` is that premise for a turn that still runs: once broken it stays so. While it holds,
`LeaseInv` follows the leases of the directory: `Counted` (the users are the calls with a ticket and those being
released, and the last takes the marks with it), `Standing` (whoever needs the directory finds it), `Earned` (what is recorded of it was done by a
write that replaced its file) and `SeenTo` (the directory is known to undo, or a writer is left that will own
or remove it). `OneFails` is where the one failure enters: before the first write is done, at most one call of the directory
is on its way out with an error, so its cleanup finds the others gone or still to come. With a second failure the step
from `Cleanup` is the one that breaks, which is the counterexample of `MCManagedWriteOrphan`. A Ctrl-C inside the
handlers keeps `LeaseInv` (`InterruptLeases`), outside them it ends `Calm`. `TurnsAreServed` and
`NobodyWaitsInVain` follow from `InLine` and `HasTicket`: the head of a queue is served, or it is lost.

*Compaction* (`CompactionProofs`). `ContextInv` is `Typed`, `Begun`, `Answered`, `Aligned`, `Tasks`, `Digested`. The
validity of a prompt is a fact of the whole history (`Answered`: behind each reply stand the results of its calls, all
but the open ones, which are the last), and a view takes whole groups of it (`Aligned`): a checkpoint is
written only while nothing is open. `Digested`: all that comes before the last checkpoint is in `digest`.

Only model-checked:

- liveness (`TurnsEnd`, `RetriesConverge`, `RunEnds`, `TurnsGoOn`, `Returns`): fairness and `ENABLED` are out of
  the prover's reach;
- `StoreTypeOK` and `ContextTypeOK`: the proofs carry the typing they need (`Typed`), but the first bounds the
  number of records in the file by the appends begun, and `usage` in the second is a sum over a set, whose type
  is an induction over data.

Every safety and action property of the runs is a theorem.

No module uses a recursive operator.

## What is left out

- *Data*: inputs, outputs, hashes, timestamps, usage, display. A tool is one of five kinds.
- *Sampling*: one step with every outcome. The retries of the model client and their budget end within it
  and write nothing to the session.
- *Session* does not know the dependencies of code nodes: any planned node may start or be skipped,
  which includes every order `CodeRun` produces. After a crash a turn may be continued whenever
  `continuable_turn_id` allows it. `Stop` also stands for an operator who leaves without answering. A Ctrl-C while
  an approval is rendered is not modelled.
- *RolloutStore*: creating the file, permissions, damage that no write of this program leaves.
- *ManagedWrite* lets two writes of one path run at once, which a wave of the scheduler never does: the
  tickets are checked for themselves. Directories are one level deep. Permission and size errors
  are a failed step. A write behind a lost ticket stays where it is: that the drain of its wave, or the turn,
  then waits with it is not followed into `CodeRun` or `Session`.
- *ManagedUndo*: editors that hold a file open across the rename, or know the quarantine name; static
  ineligibility.
- *CodeRun*: bytes and sizes of frames (a frame too large is a choice), CPU and memory limits (the worker may
  die), the reader threads of the two pipes. Nodes are taken in ordinal order, as the code does. `future.result()`
  does not raise, and an event refused inside `execute_graph` (answered as GRAPH_REJECTED) is not a step; that no
  event of a run is refused is `NothingRejected` of `Session`.
- *Compaction*: the text of a summary, redaction, and the estimate of a text: a message costs its size. A
  summary that fails is a choice. History of calls by Code Mode is not shown to the model and not modelled.
- *Shell*: the windows of captured bytes, the display channel, which never waits, and `killpg` without
  permission. Whether a descriptor that `_close_pipes` closed is used by another thread once more before a
  drain thread sees `drain_stop` is outside the model, as is the reuse of a process group id.
- Not modelled at all: the check of a program text, the model client, the registry and searches,
  configuration and display. `PROJECT.json` gives a reason for each.

## Plan

Modelled: the session with its reducer, the store, managed writes and undo, the graph and runtime of Code Mode,
compaction, the shell. Proved: every safety and action property the runs check, and the safety part of what
the retries of an undo come to. What is left, in order of importance:

1. **Composition** of `ManagedWrite` and `ManagedUndo`: the baselines of one are the targets of the other.
2. **Batch scheduler**: groups of parallel reads beside serial calls, with the order of results, in more detail than
   `Session` has.
3. **Model client**: invalidation of what was shown, retries within the budget.
