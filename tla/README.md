# Verification of Anban's Runtime

Anban is a command-line agent runtime: one command turns a goal into a *Task*
and an *ExecutionRun*, a bounded agent loop asks a model what to do, runs the
Capabilities it asks for (processes, Skills) and every step is recorded as
rows and numbered Events in PostgreSQL, with Artifact snapshots on disk. The
value of the program lies in that record: whatever fails, times out or is
interrupted, the record must be true and end.

These modules model the code under `src/anban/` and two of its scripts, not its
documents. Documents
are quoted only where a run shows that the code does something else.

## 1. The system

| Component | State | Operations | Interacts with |
|---|---|---|---|
| Lifecycle guards (`core/lifecycle.py`, `core/models.py`) | none | `_ensure_transition` and the four `transition_*` | every update of a row |
| `RunPersistence` (`runtime/persistence.py`) | `_sequence`, `node`, local copies of the rows | `initialize`, `start`, `add_node`, `start_node`, `model_*`, `begin_invocation`, `finish_invocation`, `compensate_invocation_failure`, `finish`, `finish_node`, `finish_run` | one unit of work per call |
| Unit of work, repository (`persistence/*.py`) | the rows, the connection | `commit`, rollback, inserts, updates, `load_run` | PostgreSQL (external) |
| `PersistedModelPort` (`runtime/persistence.py`) | none | `complete` | the provider (external), `RunPersistence` |
| `PersistedCapabilityPort` (`runtime/capability_persistence.py`) | none | `invoke`, `cancel`, `_persist_terminal`, `_cleanup_artifacts` | `RunPersistence`, Registry, snapshots on disk |
| `CapabilityRegistry` (`capability/registry.py`) | `_handlers`, `_active` | `register`, `invoke`, `cancel` | the handlers |
| `process.execute` (`capability/process.py`, `workspace.py`) | `_processes`, `_cancelled`, snapshots | `invoke`, `cancel`, output readers, `_stop_process`, Artifact collection | the operating system |
| Argument schemas (`capability/schema.py`) | none | `validate_input_schema`, `validate_arguments` | Registry, every handler |
| `skill.activate` and the catalog (`capability/skill.py`) | the scanned catalog | `discover`, `invoke` | SKILL.md files of the package and the Workspace |
| Workspace (`workspace.py`, `scripts/workspace_bootstrap.py`) | the directory tree, `anban.toml`, `secrets.env` | `initialize_workspace`, `resolve_workspace` | the user, other initialisers |
| Configuration and composition (`config/loader.py`, `application.py`, `capability/local.py`) | none | `load_configuration`, `build_application` | Workspace, environment, catalog |
| Doctor (`scripts/doctor.py`) | none | `check_workspace`, `check_skills`, ... | everything that a command will need |
| `FixedGeneralAgent` (`runtime/agent.py`) | messages, progress, completed calls | `execute`, `_run_loop`, `_invoke_capability` | both ports |
| `PersistentRuntime` (`runtime/service.py`) | none | `execute`, `matches_terminal`, `recover_terminal` | agent, `RunPersistence` |
| `PersistentChatSession` (`runtime/service.py`) | history, totals, terminal result | `submit`, `close`, `expire`, `interrupt` | agent, `RunPersistence`, the chat command |
| Observability (`runtime/observability.py`) | none | `inspect_consistency`, projections | the rows, after any restart |
| Model adapter (`model/adapter.py`, `model/response.py`, `model/contracts.py`) | none | `configured`, `complete`, `normalize_response`, `diagnose` | the provider (external), the agent |
| CLI, Interaction, inspection, migration, web asset | none | parsing, output | outside the models |

**What is hard.** A commit can fail before or after the server applied it, and
a lost acknowledgement may stay undecided while the next read already runs.
The Event sequence is a counter in memory that follows the log at a distance.
A deadline or an interrupt arrives as a `CancelledError` at *any* await: in a
transaction, in the handler, between two of them. A Capability call is two
tasks: the agent waits behind a shield while the invocation task runs, and
the stop travels through the Registry. Side effects and snapshots cannot be
rolled back with the transaction. Two counters of the same things (the agent's
progress and the log) must agree at the end. One conversation has to satisfy
the next request after any mix of repairs, rounds and failed results. A
process that is stopped belongs to a group with a life of its own, and up to
four tasks stop it at once. A provider's answer can be any combination of text,
calls, finish reason and refusal. The Workspace is a directory that the
initialiser, the user, the Skills and other commands all change, while three
modules decide with conditions of their own whether it is sound. Limits and
types of arguments have three copies: the configuration, the schema, the handler. `PROJECT.json` lists each of
these hazards at its line with the properties that cover it.

**What makes it correct.**

* Persistence: Events are numbered without gap or reuse; a record never moves
  without the Event that says so, never backwards, never twice; an Artifact
  row and its announcement come together and once.
* A Capability call: no side effect before a durable start, no result before a
  durable end, a failure is either settled or says that it is not, a snapshot
  is removed only when nothing refers to it, the stop comes to an end.
* A Run: what `execute` reports as persisted is durable; success implies a
  trace `inspect_consistency` accepts; one failure is recovered; a terminal
  Run is silent; `execute` ends.
* The agent: every request it builds is one that `ModelRequest` accepts, its
  budgets hold, a repaired answer repeats nothing, a call is not executed over
  and over.
* A process: when `invoke` ends its process has exited, unless a signal was
  refused or the stop was cut off; a stopped process is never reported as
  completed, no signal is sent after the exit was noticed.
* A model answer: it becomes at most one turn, protected text ends the Run, and
  the log tells which repair it was and whether another was possible.
* The Registry: its tables name exactly the calls that are inside a handler, and a
  cancellation reaches the call it is for and no other.
* Arguments: what the schema of a handler lets pass has the types and is within
  the bounds that the handler checks again.
* The Workspace: an initialisation that reports success leaves a sound tree,
  writes over nothing, and what the doctor calls sound is enough for a command,
  but for a base_url that only the model adapter looks at.
* A chat: the same over several inputs, whichever of close, expire, interrupt
  or a failed input ends it, and at most one of them.

## 2. The modules

```
Lifecycle --- RunLedger  <...refines... RunPersistence
                                            |    \
                             CapabilityPort    Observability
                                            \    /
                                        PersistentRun
                                             |
                                        ChatSession

GeneralAgent --- MCGeneralAgent
ProcessExecute --- MCProcessExecute
ModelResponse --- ModelRepair --- MCModelRepair
ArgumentSchema --- ProcessCall --- CapabilityRegistry --- MCCapabilityRegistry
SkillCatalog --- Workspace --- MCWorkspace

RunPersistenceProofs --- PersistentRunProofs --- ChatSessionProofs
GeneralAgentProofs  ProcessExecuteProofs  ModelRepairProofs  WorkspaceProofs
CapabilityRegistryProofs
  (each extends the module that it is named after; PersistentRunProofs
   has the theorems of CapabilityPort too)
```

The components below the composed ones are models of their own: they refine what
PersistentRun and CapabilityPort leave to one nondeterministic step (the
refusals of the agent, the handler, the answer of the provider) or what comes
before any Run (the Workspace), and the composed modules stay small enough to be
checked with failures and cancellations.

**Checks** has the one idiom that all modules share: checks that run in order,
of which the first to fail names the fault.

**Lifecycle** is the topology of the four record kinds. The code has four
copies of one table that differ in the name of the initial state; the model
has one table with both names.

**RunLedger** is the abstract specification: an append-only ledger and a table
of states; a step appends, and a record either stays or makes one lifecycle
move that the same step tells (a created record may be started by the same
step). It knows no counter, no transaction and no failure.

**RunPersistence** has the rows of one Run (`db`), the local counter (`seq`,
`RunPersistence._sequence`), the active NodeRun (`node`), at most one commit
that the server has not decided (`inDoubt`), and the number of failing database
calls (`faults`, a bound). Every method is one action `M(.., end)`, since all of
them do one transaction between two awaits of their caller, and `end` says how
it ended. `Write` is `_write` with its `except` branches: acknowledged;
refused by a guard or key; failed with the rows absent, present, or undecided;
cancelled with the same three. After an error the counter is re-read from the
log (or that read fails too); after a cancellation it is not, because
`CancelledError` is no `Exception`. While a commit is undecided its locks and
index entries block every other write of the Run. `PNext` is the most general
caller: any method, any argument, any time. The composed modules use the same
actions in the order their callers do.

**CapabilityPort** is one Capability call as two tasks. `call` is the invocation
task (`PersistedCapabilityPort.invoke` and `_persist_terminal`, one action per
await), `waiter` is the agent in `_invoke_capability`; `cancelling` is a
`CancelledError` on its way. `Cancelled` is the cancellation of the waiter,
which reaches the handler only if the Registry knows the call at that moment;
`Stopped`, `ReapTimeout` and `Reaped` are the two bounded waits, and
`CancelledAgain` is a second `CancelledError` during either: the agent leaves
and the invocation task goes on alone. `disk` is the
snapshot of each Artifact. The handler is one nondeterministic step.

**Observability** is `inspect_consistency` as an operator on a database state.

**PersistentRun** composes them into `run`: the service (`svc`) with setup,
finish, match and recovery, the loop of the agent (`agent`, `turn`, `progress`)
and the two tasks of each call. The agent's budgets are constants. The content
of messages is not modelled, so a refusal that depends on it (replayed or
repeated calls, unsafe text) is a nondeterministic failure here. The constant
`RequestsFit` says whether every request is one that `ModelRequest` accepts;
where it is FALSE, `RefusedRequest` may end the loop after the turn was counted.
GeneralAgent says when it holds: the length of a request within its budget is at
most `2 * MaxTurns + MaxCalls` (theorem `BudgetsBoundRequests`), 40 with the
default limits of 12 and 16 and 80 with the largest that the configuration
allows, against 64 messages; and the model must not use an identity of an
earlier Tool Call again.

**ChatSession** extends it to `chat`: `submit` with one NodeRun and one agent per
input, the totals, and the ways a session ends. `svc = "idle"` is the prompt.
`CloseInterrupted` is the one interrupt reaching the command while it awaits the
shielded `close`: the command ends, and what is left of `close` is cancelled with the
event loop.

**GeneralAgent** is `_run_loop` with its conversation: `messages` (roles and
identities), the budgets, the signatures that completed, the facts of each
round. `Ask` builds the next request and refuses what `validate_exchange`
refuses, which is a function over the message list; `Repair`, `ToolCalls`,
`Invoke`, `Observe`, `RoundOver` and the refusals are one action each. The
model chooses any batch of calls, the Capability any observation. `ran` is
history, for the properties only.

**ProcessExecute** is one invocation of `process.execute`: `at` is where
`invoke` is, `stop` each of the four `_stop_process` calls (two readers, the
timeout, the cancellation), `noticed` is `returncode is not None`. The group is
the environment: its members fork, exit, close or keep the pipes, answer
SIGTERM when they like, run as another user for a while (`ChangeUser`) or leave
the group for good (`LeaveGroup`). `Answers` is what `os.killpg` may do then: it
sends, finds nobody (`ProcessLookupError`) or is refused (`PermissionError`,
which `_stop_process` does not catch: the stop is "denied" and whoever waits for
it gets the exception). `CancelReturns` is the end of the Registry's cancel, by
itself or by its limit of two seconds; `CancelledAgain` is a second cancellation
meanwhile, after which the invocation goes on without a caller until it ends or
`LoopCloses`. What asyncio and the operating system do is modelled
from how the code uses them; `process.wait()` may return once the leader has
exited or only when its pipes are closed, since releases of Python 3.12 differ.

**ModelResponse** is the path of one answer from the provider to a turn:
the adapter's `complete` and `normalize_response` with the contracts of
`ModelTurn`, as operators over the *shapes* of an answer (text,
calls, finish reason, refusal, structured output), so that TLC checks all of
them. **ModelRepair** runs the agent's turns and repairs over such answers with
the telemetry of each attempt (`diagnose`, `_invalid`), which the event log keeps.

**ArgumentSchema** has the two walks of `schema.py`, each as one node of the walk
over whatever the parts gave (`SoundNode`, `NodeFaults`) and one operator for
each depth, since `_validate_schema_node` accepts nothing deeper than four: which
schemas are accepted, and the set of faults an argument may end with (a set,
since the walk stops at the first one and dictionaries have an order). The walk over the arguments may also
end in `schema_error`, the exception for a schema that the first walk should
have refused.

**ProcessCall** is what `process.execute` does without an `await`: the schema it
publishes from its configuration, the checks it makes on arguments (with the
executable, the directory and the environment; text with a lone surrogate has
no UTF-8), the collection of declared Artifacts with its rollback, and the two
things that keep `_result` from making a result: the limit on the observation
and a file name of the command that SafeMetadata refuses (`Reported`).

**CapabilityRegistry** puts both under `register`, `invoke` and `cancel` with
several callers: `active`, `processes` and `cancelled` are the three tables,
`call` each caller. A handler that awaits is `Spawned`, `Returns` or
`StopsWaiting`; ProcessExecute has the details. `search` and `describe` read the
descriptors and are left out.

**SkillCatalog** is `discover` as an operator over sets of files: the refusals of
one file in their order, slugs, the reserved scope, conflicts. A file is its
directories, its frontmatter and what is unusual about it.

**Workspace** is `anban workspace init` with one action for each change to the file
system, for several initialisers that run at once and may crash at any point,
and the user, who edits configuration, secrets, environment, modes and Skills
while none runs. `Build` is the composition of an Application, `DoctorFaults` the
doctor, both in the order of their checks. A URL is given, "bad" (its scheme or
host is wrong, as our code checks) or "malformed" (the rest of it, as `AsyncOpenAI`
and SQLAlchemy check when they are constructed: `AdapterFault`, `EngineFault`).
`anban.toml` is one token out of
seven, because what matters is which of the three readers accepts it.

`PROJECT.json` maps each definition to the lines it models. Operators with a
comment that starts with "Mutant" are plausible errors in the definition after
them; no specification uses them.

## 3. The runs

| Run | Bounds | What it shows |
|---|---|---|
| `persistence` | 1 Invocation, 1 Artifact, 2 faults, late commits, two outcomes | for any caller: numbering, the agreement of rows, Events and Artifacts, and refinement of `RunLedger` |
| `capability_call` | 2 Invocations, 2 Artifacts, 2 faults, late commits | the promises of one call, the fate of its snapshots and the end of its cancellation |
| `interrupted_invocation` | no fault | *violated*: a stopped call may stay `running` |
| `one_run` | 2 turns, 1 call, 1 repair, 2 faults, late commits, refused requests | a whole Run with deadline and interrupt |
| `timeout_of_run` | no fault | *violated*: a Run that timed out may be recorded as failed |
| `chat` | 2 inputs, 1 turn each, 2 faults, late commits | a whole session |
| `open_node` | no fault | *violated*: an interrupt leaves an open NodeRun |
| `agent_loop` | `MCGeneralAgent`: 4 identities, 2 signatures, 2 observations, 5 turns, 5 calls, 2 repairs, repeat limit 3, 13 messages | the loop: paired requests, no replay, no repetition, bounded conversation |
| `process` | `MCProcessExecute`: 1 child | one process invocation under all four stops, with refused signals and a second cancellation, and that it ends |
| `repairs` | `MCModelRepair`: 4 turns, 2 repairs, all shapes of an answer with up to two calls | every answer becomes one turn or is refused, with and without a response schema; protected answers end the Run; a repair that is called exhausted was |
| `capabilities` | `MCCapabilityRegistry`: 2 callers, 3 contexts of 2 identities, 25 ways to wire a Registry, one request for each refusal and for an odd command | tables, cancellations, schema against handler, snapshots |
| `workspace` | `MCWorkspace`: 2 initialisers, 2 initialisations, 2 edits, 6 trees, 12 files, a catalog of 2 | initialisation, doctor against composition, catalog |

Nine configurations more are counterexamples to be run by hand (section 5).

Late commits (`LateCommit`) contain the decided ones: a commit whose
acknowledgement was lost is applied, rolled back or undecided.

**Bounds.** `MaxFaults` bounds failing database calls; two are needed, because
the code answers one failure with one confirmation, match or recovery and the
second failure hits that answer. Cancellations need no bound: a task is
cancelled once per call and the agent leaves. `MaxEvents` bounds model events for
the most general caller only. Turns, calls, repairs, inputs and Artifacts are
the program's own limits with small values; two of each is the least that has
a first and a later one. In `agent_loop` two
calls per turn (`MaxBatch`) give a round with an inner order, three repetitions
cross a turn and a repair, and 13 messages are short enough to be exceeded. A
child of `ProcessExecute` outlives the leader with the pipes or without them, in
the group or not, reachable or not; one child is what the size of the run allows,
and the theorems are about any number.
Two callers of the Registry and two deadlines for one
identity are the least with a stale cancellation; the limits of arguments are
one above and one below what some request has. A catalog may have two Skills
instead of 32 and three can be installed. Two of the six directories of a Workspace have
a first, a last and an order. Two initialisations overlap or follow each other,
two edits make and break one condition; the
initialisers are symmetric, which is sound because the run has no liveness. `Outcomes` bounds the terminal states that the most
general caller asks for; they are treated alike by `Write`. Terminal states are
not explored further, so deadlock checking is off: runs, sessions and the
persistence of a terminal Run really stop.

**Fairness.** Weak fairness of the tasks: the event loop resumes every ready
task. Database calls, provider and handlers answer because each has a time
limit (`statement_timeout` and connect timeout, the model's timeout, the
handlers' timeouts and the two-second waits). The server decides every commit.
Nothing is assumed of the user, of the deadline, of cancellations or of the
handler returning by itself (`InnerReturns` is not fair in `CapabilityPort`).
In `ProcessExecute` the timers fire, spawning ends, asyncio notices an exit and
`process.wait()` returns at the latest when the pipes are closed; nothing is
assumed of the processes, which may ignore SIGTERM or keep the pipes, nor that
the output is ever collected. `CancelReturns` is fair because its wait has a limit of
two seconds. `InvokeEnds` has a premise that the code cannot give: every running
process can be signalled (`Reachable`), or else the Run is cancelled once and stays to
the end. CapabilityRegistry and Workspace have safety
properties only, and no fairness.

## 4. What is proved

`RunPersistenceProofs` proves, for every set of identities and every bound,

* `TypesHold`: `PSpec => []PTypeOK`;
* `EventsAreNumbered`: `PSpec => []EventNumbering`, the Events of a Run are
  numbered 1 to n without gap, and the counter never runs ahead of the log.

Assumptions: `ConstantsAssumption` (identities are distinct, bounds are
numbers). The inductive invariant `PInv` adds two parts to the types. First,
the log and the undecided log are both contiguous and the counter is at most
the last number: a write that is accepted then has numbers that start right
after the last one, because the unique index refuses every other. Second, an
undecided log is at least as long as the log, since otherwise the counter
would be ahead of the log when the server decides late. Every method is shown
to hand `Write` a well-formed transaction (one Event for each record that it
moves and for each Artifact that it inserts), and one lemma about `Write`
carries the invariant. The proofs built on it need no case for each method.

The same module proves the refinement, `LedgerIsImplemented`:
`PSpec => ImplementsLedger`, for every caller, failure and late commit. `LInv`
adds to `PInv` that an undecided commit, when the server applies it, appends one
batch to the *present* log: while it is undecided its locks keep every other
write out. A batch that follows the guards of the lifecycle and tells each
record it moves is one step of `RunLedger`; everything else is a stutter.

The third part is `ArtifactsAnnounced`: `PSpec => []ArtifactsAreTold`.
The invariant is `ToldOnce`, the property without cardinalities (a row has an
announcement, an announcement a row, and both are unique, and the owner has
ended), of the database and of the undecided commit; the cardinalities follow
from a bijection. That the owner has ended is what makes it inductive: no second
result can be written for it, so no Artifact is announced again.

`PersistentRunProofs` first proves of CapabilityPort, for every number of
Invocations, Artifacts and failures,

* `EffectsAreRecorded`: `PortSpec => []EffectIsRecorded`;
* `ResultsAreDurable`: `PortSpec => []ExposedIsDurable`;
* `FailuresAreSettled`: `PortSpec => []FailureIsSettledOrExplicit`;
* `BytesStay`: `PortSpec => CommittedBytesStay`.

Assumption: `OutcomesAssumption`, any handler may raise and any may be
cancelled. Every database step of a call is first shown to be a step of
RunPersistence, so what is proved there holds here. `PortInv` then says what the
call knows of its row at each await: before its end is written nothing is
undecided and the row is running; while the end is undecided the row is
still running; once the agent was told, nothing is undecided and the row has
ended. `SnapshotsAreThere` says that no cleanup has touched the snapshots of a
result still to be written, and a lemma says that those a cleanup may delete
belong to no row, as far as the database shows. `BytesStay` is about the steps of
the program: a late commit of the server can still add such a row
(`SnapshotsUndecided`, section 5).

and then of PersistentRun, for every budget and any number of failures,

* `ReportsAreDurable`: `RunSpec => []PersistedMeansDurable`;
* `EndedRunsAreSilent`: `RunSpec => TerminalRunIsSilent`;
* `SuccessesAreConsistent`: `RunSpec => []SuccessIsConsistent`;
* `QuietRunsAreConsistent`: `QuietRunIsConsistent` of every state whose
  Artifacts fit the budget, and `QuietRunsWithinBudget`, the same of every
  state when there are no more Artifacts than that;
* `OneFaultIsRecovered`: `RunSpec => OneFaultRecovers`;
* `RunsImplementLedger`: `RunSpec => ImplementsLedger`, and `RunsKeepRecords`:
  `RunSpec => [](EventNumbering /\ ArtifactsAreTold)`.

For the first two, `RunInv` has two halves. `RecordInv`: while the service is where it may write
below the Run (`OpenPlaces`), the Run has not ended, neither in the rows nor in
an undecided commit; once it has ended nothing is undecided; and a call is under
way only while the agent waits for it. A transaction that names the Run is then
refused by its lifecycle, and no other is tried. `ReportInv`: whoever is about to
end the Run has a terminal outcome, which needs that a call which returns to an
agent that was not cancelled has a result or raises. Since a durable end can no
longer change, an equality that was read once stays true.

The consistency of whole traces has the invariant `TraceInv`. What
`inspect_consistency` says of a database is reduced to two facts: the records of
the Run are where a given moment of the code leaves them, with their Events
(`Ready`, `Reached`, `RunningAt`), and the Events of a kind are as many as the
counts of the agent (`CountsAre`). `Track` follows both through every place of the service
and every await of the call: an agent that has not been told of a failure has
the counts of the log, plus the one call under way. So an outcome that is written as
`succeeded` closes a complete trace, whatever failed before and was settled, and
an undecided commit of it is as complete as the database. `Calmly` says more when
nothing failed and nobody was cancelled: no write is refused (`Fresh`: the
counter is the last number, the next call's row is absent), recovery is never
entered, and every end, not only a success, has a complete trace. The premise
`FitsBudget` is real: sixteen calls with eight Artifacts each are more than the
thirty-two that an outcome may hold, and beyond it the counts differ
(`ArtifactBudget`, section 5). The other exception, a request that was refused
(`Excused`), is in the property (`RefusedRequest`).

`OneFaultIsRecovered` has `FaultInv`: the Task, the Run and its node always have
one status, in the database and in an undecided commit (`DoubtInv`), so that the
one `match` on the Run's status in the recovery decides for all three; and as
long as there was at most one failure, whoever recovers finds either the status
its next transaction expects or a counter behind the log (`OneInv`), which is one
of the two cases that the property leaves open (the other is a commit that is
still undecided).

The last two say of the service what RunPersistence promises any caller. They come from
the lemmas about `Write`, not from a theorem `RunSpec => PSpec`: `PNext` closes a
Run with counts of zero, to keep its runs small, where the service has the
counts of the agent. What the lemmas need of a step is only that it reads, is a decision
of the server, or is one write (`Stepped`).

`ChatSessionProofs` proves, for every number of inputs,

* `ChatReportsAreDurable`: `ChatSpec => []ChatResultIsDurable`;
* `EndedChatsAreSilent`: `ChatSpec => ChatRunEndsOnce`;
* `ChatSuccessesAreConsistent`: `ChatSpec => []SuccessIsConsistent`;
* `QuietChatsAreConsistent` and `QuietChatsWithinBudget`: `QuietChatIsConsistent`,
  with the premise of a single Run;
* `ChatsImplementLedger` and `ChatsKeepRecords`, as of a single Run.

The steps that a session shares with a single Run are covered by the lemmas of
PersistentRunProofs. `FailureInv` adds that no failing place carries success
and that the last input, when there is one, ended. For the traces `ChatTrace`
takes the lemmas of a single Run with a base that is not zero: while an input
runs, the log has the `totals` of the inputs before it plus the counts of this one
(`InputTrack`); between two inputs it has the totals, every node is succeeded and
the Run and the Task still run (`SessionTrack`, `SessionCalm`). A session closes its Run
as succeeded only from such a prompt. Assumptions of both:
`LimitsAssumption` (where an interrupt of the service leads) besides the earlier ones.

`GeneralAgentProofs` proves, for every set of identities, signatures and
observations and for every limit,

* `BudgetsHold`: `Spec => []TypeOK`, which contains the budgets of turns, calls
  and repairs;
* `RepairsNeverReplay`: `Spec => []NoReplayAfterRepair`;
* `ConversationHolds`: `Spec => []ConversationIsBounded`, the length of the
  conversation as a function of what happened;
* `BudgetsBoundRequests`: `Spec => []RequestsAreShort`, the bound that follows;
* `RequestsPaired`: `Spec => []RequestsArePaired`.

Assumptions: `AgentAssumption` (limits are positive, a repeat limit of one is
refused by the configuration). The inductive invariant `AgentInv` adds to the
types: `Accounting`, the length of the conversation and the number of turns in
every phase, not only at a request; `Reserved`, the calls a turn still has to
run fit into the budget, since the budget is checked once for the whole turn and
the counter moves with each call; `RanIsCompleted`, whatever ran in an earlier
turn is among the completed signatures, because a turn only ends normally when
each of its calls returned an observation; `RepairedIsNew`, the calls that are
left of a repaired turn are none of those. The last two carry
`NoReplayAfterRepair`, which alone is not inductive: it does not say what the
agent compares the next answer with.

`RequestsPaired` is about the scan that a `ModelRequest` makes of its messages, a
function of the position. `PairInv` says what the scan leaves open: nothing
before a request, and the calls that are still to run after the answer. A message
that is appended moves the scan by one step; that the scan of the longer
conversation agrees with that of the shorter one is an induction on the
position, done by a least counterexample (`WFMin`), since the induction rule
itself cannot be instantiated.

`SeriesAreShort`: `Spec => []NoLongRepetition` has an invariant of its own,
`Series`: the counter `repeated` is the length of the last series in the history
and the call before the series is another one. Without the second half a call
that starts a new series could join the one before it.

`ProcessExecuteProofs` proves, for every set of children,

* `LeaderExits`: `Spec => []LeaderIsGone`;
* `StopsAreTold`: `Spec => []StopIsTold`;
* `NothingSignalledLate`: `Spec => NoLateSignal`.

`LeaderIsGone` names the two cases in which the process does outlive `invoke`:
the operating system refused the signal of the stop that was waited for, and
`invoke` raises; or the caller's own stop was cut, by two seconds or by a
second cancellation, and the Run ends. Every other ending has seen the exit.

Assumption: `ProcessAssumption` (the leader is not one of its children). `EInv`
remembers on behalf of `invoke` what the four stops did: nobody stops a
process that is not registered (`NotStoppedYet`), a stop that is over has seen
the exit (`StopsSeeExit`), a signal and a cancellation leave a mark that stays
until `invoke` decides (`SignalIsRemembered`, `CancelIsRemembered`), and an exit that
was noticed has happened (`LeaderIsTracked`). That `invoke` leaves a process alone
then needs one case for each way it ends, and the value of the one stop it has waited for.

`ModelRepairProofs` proves, for every set of responses and every budget,

* `TurnsAreExact`: `Spec => []TurnsAreUnambiguous`;
* `ProtectedEnds`: `Spec => ProtectedEndsRun`;
* `ExhaustionHolds`: `Spec => ExhaustionIsTrue`.

Assumptions: `ResponseAssumption` (tokens are distinct) and `RepairAssumption`.
The first is a fact about the parser, lemma `ParserIsExact`: a chain of checks
answers with the first that fails, so it accepts exactly what passes all, and
these are shown to be equivalent to the definition of an unambiguous turn.
An answer has up to two calls there, the least number with a duplicate identity.
`RepairInv` says that the number of a request is at most the number of repairs
used so far.

`WorkspaceProofs` proves, for every number of initialisers and every set of
files, values, trees and bounds,

* `SuccessLeavesLayout`: `Spec => [][...]` of `InitLeavesLayout`;
* `FilesSurvive`: of `UserFilesSurvive`;
* `PackagedSkillsStay`: `Spec => []PackagedSkillsSurvive`;
* `DoctorIsRight`: `Spec => []DoctorIsNotFooled`, from the order of the checks
  alone, since both are functions of a state: where the doctor finds no fault, every
  check of the composition passes but `AdapterFault`, of which it knows nothing.

Assumptions: `WorkspaceAssumption` (an empty file is no value of a shell, files
know their root) and, for the third, `PackageAssumption` (the package has its
Skills below `@anban`, each once). The inductive invariant `InitInv` says that at
most one initialiser is at the write of `anban.toml`, and that the file is empty
then: only `O_EXCL` gives that. Every other promise of an initialiser (`Layout`:
the mode of the root, the directories made so far, the accepted configuration)
must survive the steps of the others, and does because each of them only does
the same again; the one exception would be a second writer.

`CapabilityRegistryProofs` proves, for every number of callers, every set of
contexts, requests and wirings and every limit,

* `TablesExact`: `Spec => []TablesAreExact`;
* `SchemaSpeaks`: `Spec => []SchemaSpeaksForHandler`;
* `CancelReachesItsCall`: `Spec => []CancelIsForItsCall`;
* `SnapshotsReportedOrRemoved`: `Spec => []ReportedOrRemoved`.

The inductive invariant is `RegistryInv`. `Entered` and `Marked` say what the three
tables are in terms of the calls: an active identity has exactly one call inside
a handler, whose context it holds; processes and marks are those of the running
calls, the marks of the ones that a cancel was accepted for; `TablesAreExact`
states these equalities as a reader of the code would. The `finally` of a
call then takes away its own entries and nobody else's, and the mark that a call
reads when its process has ended is its own. `HandlersInv` says that what was
registered has passed `validate_input_schema`. That every answer about the
arguments is one that the caller can be told needs the two walks of the schema
together: a node that is sound has every keyword the second walk reads without a
default (`NodeSpeaks`), and so level by level (`Level4Speaks` to `Level0Speaks`);
there is no induction, because a schema that was accepted has five levels. And that the
handler never refuses a type or a bound: whatever `ProcessSchema` accepts has the
types and bounds that `invoke` of `process.execute` checks again (`SchemaCovers`).

Assumptions: a table entry of None is no context (`ContextAssumption`); the name
`process.execute` stands for its own descriptor, as `local_capability_registry` wires
it (`WiringsAssumption`); arguments are a JSON object, its lists sequences
(`RequestAssumption`); an output is no longer than the limit of its stream
(`OutputsAssumption`); `NoneAssumption` and `ProcessAssumption`. The
last two theorems have the premise `StreamsFit`: the longest observation that the
stream limits let through is one that `CapabilityResult` accepts. Lemma
`ModerateStreamsFit` shows that it holds up to a stream limit of 86293, so for the
default of 65536; above it the code really breaks both (`WideOutput`, section 5).
Both properties are about commands whose file name a result may carry: for an odd
one neither holds (`OddCommand`, section 5).

Every safety invariant and action property of a passing run is the subject of a
theorem. Model-checked only: all liveness (`WF_` needs ENABLED, which is out of the
prover's reach) and the three counterexamples.

Type invariants are part of the proved ones, or (`CTypeOK`, `RTypeOK`, `ChatTypeOK`,
and `TypeOK` of ModelRepair) stay in their modules to be checked when
a module is changed; the runs spend their time on the other properties.

## 5. What the code does that a document does not say

Three runs are counterexamples.

1. `interrupted_invocation`: an orderly stop cancels the invocation task also
   while it persists the cancelled result; the Invocation stays `running`.
2. `timeout_of_run`: a cancelled write that was committed leaves the counter
   behind; `finish(timed_out)` collides and the Run is recorded as failed.
3. `open_node`: an interrupt outside the agent ends the Run with `finish_run`
   and leaves the NodeRun open.

Nine more have a configuration of their own, to be run by hand
(`tlc -config <name>.cfg <module>`); TLC finds each within seconds.

* `SnapshotsUndecided` (CapabilityPort): cleanup trusts one read that shows the
  Invocation unfinished; the commit may still be applied after it, and the
  committed Artifact rows have lost their bytes.
* `ProcessGroup` (MCProcessExecute): `_stop_process` returns without a signal once
  the leader's exit is known, so a child that keeps the pipes survives the
  timeout that waited for it.
* `ArtifactBudget` (PersistentRun): Artifacts beyond the budget are persisted and
  not counted (`agent.py:425`), so `inspect_consistency` reports a Run in which
  nothing failed.
* `RefusedRequest` (PersistentRun): the agent counts a turn before it builds the
  request (`agent.py:211`); a request that `ModelRequest` refuses is never
  recorded, and the turns of the final event differ from the log
  (`model_turn_count_mismatch`). `QuietRunIsConsistent` shows that this is the
  only inconsistency it leaves.
* `SharedRepairs` (MCModelRepair): the telemetry calls a failed answer exhausted
  by the number of its own request (`response.py:144`), which is 0 for a request
  that is no repair, while the agent counts repairs over the whole Node.
* `SkillActivation` (MCWorkspace): an activation puts the directory of a Skill into
  a SafeMetadata (`skill.py:272`), which splits it at blanks and brackets and
  takes the part after them for a host path. A Skill in `skills/drafts (old)/x` is
  discovered and offered, and each activation ends as an execution failure;
  `skill.py:228` says "Return complete instructions for any uniformly discovered
  Skill."
* `WideOutput` (MCCapabilityRegistry): with the largest stream limits that the
  configuration allows, output that is no UTF-8 makes an observation that
  `CapabilityResult` refuses after the snapshots were made, and they stay
  without an owner. `ReportedOrRemoved` holds for the default limits.
* `OddCommand` (MCCapabilityRegistry): `_result` puts the file name of the command
  into a SafeMetadata after the snapshots were made (`process.py:469`); a name that
  it refuses turns a completed call into an execution failure whose snapshots
  have no owner, and a cancelled one into a failed one.
* `DoctorAdapter` (MCWorkspace): `validate_endpoint` (`loader.py:173`) looks at the
  scheme and the host of the base_url, so `http://localhost:80x0/v1` passes; the
  constructor of the model adapter (`application.py:47`, `adapter.py:90`) refuses it. The
  doctor builds no adapter and finds no fault, while every command fails.

## 6. Not modelled

* Timestamps and their order. With them goes one known oddity: after an
  ambiguous start `recover_terminal` finishes from local copies that were never
  started, so `started_at` is overwritten with null (`service.py:152`).
* Texts, metadata other than counts, the row mapping, the schema of the
  database; the HTTP call and the time limits of the adapter.
* The service beside a task that a second cancellation left behind: two tasks
  would then write with one counter. `CancelledAgain` has the call alone, in
  CapabilityPort its two tasks and in ProcessExecute its process.
* A second interrupt of the chat command: `asyncio.run` makes a cancellation of the
  first one only, and the second ends the process as a KeyboardInterrupt.
* A value of the environment of a process that has no UTF-8 makes the search
  for protected text raise (`process.py:449`); the call is an execution failure.
* LangGraph, which only sequences the nodes of the agent.
* Inspection (`runtime/inspection.py`) reads one aggregate and copies it. Its
  bound of 64 Invocations is less than the 8 inputs with 16 calls each that a chat may make; an
  inspection of such a Run is refused.
* `anban.toml` that is not UTF-8 raises an exception that neither the initialiser
  nor the loader catches (`workspace.py:146`); the model has the refusal, not
  what the user sees. After a crash between the creation and the
  write of `anban.toml` the empty file makes every later initialisation fail
  until the user removes it; no document promises otherwise.
* The toolchain checks of the doctor, the acceptance scripts, the web asset,
  parsing and output of the command line.

`PROJECT.json` gives the reason for each component.

## 7. Plan

Done in this order: Lifecycle, RunLedger, RunPersistence and its first proofs,
CapabilityPort, Observability, PersistentRun, ChatSession, GeneralAgent and its
proofs, ProcessExecute, ModelResponse and ModelRepair, ArgumentSchema,
ProcessCall and CapabilityRegistry, SkillCatalog, Workspace and its proofs.

Next modules:

1. Two writers of one `RunPersistence` after a second cancellation.
2. Exit codes and inspection of the CLI as operators on the final record.

Proved as well: the refinement of `RunLedger`, by any caller, by a Run and by a
session; the Artifacts; the promises of CapabilityPort, of one Run and of a
session, with the consistency of their traces and the recovery from one failure;
the stops of ProcessExecute; the conversation of the agent and its pairing; the
parser and the repairs; the tables, cancellations, schemas and snapshots of the
Registry.

Next proofs: the lemmas about schemas for a descriptor other than that of
`process.execute`; that the handler of CapabilityPort may do all that
ProcessExecute and the Registry do, as a refinement of the one by the others; a Run
whose agent is the one of GeneralAgent, so that `RequestsFit` is a consequence
and no constant.
