# Verification of the internal-invariants service

TLA+ models of `src/app/`, a FastAPI service that lets AI agents change a running
system (`/opt/resonant/runtime`) under capabilities, governance, snapshots, a kill
switch and a gate for irreversible effects. Each module is translated from the
code; TLC checks the instances in the `.cfg` files, TLAPS proves the theorems of
the `*Proofs` modules for every value of the constants.

    tlc -config KillSwitch.cfg KillSwitch.tla      # a run: cfg and module as in PROJECT.json
    tlapm KillSwitchProofs.tla                     # a proof module

## 1. The system

One process with one asyncio event loop: a method without an await is atomic for
its callers, and a coroutine is a sequence of *turns* between the awaits that
really suspend it. Three things break this picture: signal handlers (Python runs
them between two bytecodes of the main thread), other processes (the command line
of the kill switch, operators on the file system) and crashes. What survives a
crash is on disk: the `FREEZE` and `EMERGENCY_STOP` files, the lock file, the
snapshots with their index, the registry of capabilities, the receipts. Everything
else (audit trail, proposals, epochs, requests for effects, agents) is in memory.

| Component (`src/app/`) | State | Operations | Hard because | Correct when |
|---|---|---|---|---|
| Kill switch, `kill_switch.py` | state, two files, 1000 events | freeze, unfreeze, emergency stop/reset, maintenance, SIGUSR1/2, boot | state and files change in separate steps; signals, crashes, a second process | state and files agree; a stop survives everything but a reset; the audit trail is a chain |
| Control endpoints, `main.py`, and the switch's CLI | the executor's own state, the same files | `/control/*`, `cli_*` | endpoints ignore that the switch refused; the CLI has its own memory | a stop blocks mutations |
| Snapshot engine, `snapshot_engine.py` | directories, index, current | create, restore, mark_health, cleanup | numbers are reused once the index is full; copies fail half-way | index and directories agree; the newest snapshot can be restored |
| Mutation executor, `mutation_executor.py` | lock file, `active_mutation`, the runtime | `execute`, freeze, unfreeze | concurrent requests, waits, time-outs, rollback, crash | all or nothing; the rollback point is right; everyone is answered |
| Capability engine, `capability_engine.py`, `models.py` | manifests, trust, budgets, their file | register, check, record, reset | budgets are checked before and spent after the awaits; trust moves while requests are in progress; a crash cuts the file short | overspending bounded; disabled stays disabled; the file is what is in memory |
| Governance engine, `governance_engine.py`, with the grammar of `capability_enforcer.py` | pending approvals | propose, approve, reject | an approval that nothing executes | nothing runs that a rule forbids |
| Quorum authority, `quorum_authority.py` | voters, table, history | propose, vote, cancel, cleanup | order of votes decides the veto ratio; voters leave and return; expiry; full tables | the status is what the votes say; a proposal is in one place |
| Agent coordinator, `agent_coordinator.py` | roles, proposals, queue, execution lock | register, submit, verify, execute | roles change in between; executions queue | separation of duties; one execution at a time |
| Epoch authority, `epoch_authority.py` | current epoch, history | create, close, commit, expire, cleanup | others close and replace the epoch during an execution | each effect once, in an open epoch; history in order |
| Pre-authorization gate, `pre_auth_gate.py` | pending requests, history | request, execute, cancel, cleanup | two physics checks and the effect are awaited; a token is used twice | the table holds what is pending; only what happened is recorded |
| Irreversibility authority, `irreversibility_authority.py` | three counters | complete flow, request, execute, epochs, cleanup | a flow returns from a dozen places | counters add up |
| Physics bridge, `physics_bridge.py` | history of actions | fetch state, run actions | revokes while requests are in progress; calls methods that do not exist | what it revokes stays revoked |
| Invariant engine, `invariant_engine.py` | `last_analysis_id`, the results shown | analyse, five checks over a graph | every step is an HTTP request, which may fail; calls share both fields | a verdict is that of one analysis, the call's own; what is shown was measured; every call is answered |
| Effect boundary, `effect_boundary.py` | none: a table | what an effect requires, validation | the gate and the authority branch on it | every effect needs a request and an epoch |
| DISD protocol and router, `disd_protocol.py`, `disd_router.py`, and the enhanced ones, with the receipts of `cryptographic_receipt.py` | members, routes, the chain of receipts | join, leave, heartbeat, sweep; propose, vote | a broadcast awaits each delivery and changes the tables at its end; two loops do the same | members and routes agree; stale members go; nobody appears from nowhere |
| DISD transport, compliance, invariant classes, agent factory | queues; none | not used; evaluate one request | | |

Interactions: `main.py` calls everything. The mutation executor asks the
capability engine, the governance engine, the snapshot engine and the invariant
engine in turn and reads the `FREEZE` file the kill switch writes. The
irreversibility authority calls the quorum authority, then the gate; the gate calls
the physics bridge and the epoch authority. The physics bridge calls the kill switch
and the capability engine. `PROJECT.json` lists every component with its status,
and the hazards at their lines.

## 2. Modules

| Module | Models | State ↔ code |
|---|---|---|
| `KillSwitch` | `kill_switch.py`, the class | `ksState` = `_state`, the two files as Booleans, `events` = `_events`; `pc`/`prev` = where a method is and its local `previous`, for the main thread and for a handler above it |
| `KillSwitchControl` | `/control/*` of `main.py`, `MutationExecutor.freeze/unfreeze`, the CLI | `execState` = `current_state`, `endpoint` = what the endpoint still has to call, `cli` = the step of the second process |
| `SnapshotEngine` | the operations, as functions of the store | `store` = directories (content, health), index, current |
| `SnapshotHistory` | the engine under its callers | `runtime` is a set of changes; `taken`, `torn`, `created` are history variables |
| `MutationExecutor` | `execute()` turn by turn, over the same store | `lock` = the flock, `active` = `active_mutation`, `snap` = `snapshot_id`, `result`, `recorded`; `operated` is a history variable: the changes an operator's call has put in or out |
| `Ballot` | what the quorum authority promises | only the ballots |
| `QuorumAuthority` | `quorum_authority.py` | proposals with their counters, `active` (the table), `history`, `authorized`, `lapsed` (the proposals whose time is over) |
| `AgentCoordinator` | `agent_coordinator.py` | `role`, `proposal`, `queue`; `call` = the calls of `execute_proposal`, `lockQueue` = the asyncio.Lock |
| `EpochLedger` | what the epoch authority promises | the recorded effects and whether the last epoch is open |
| `EpochAuthority` | `epoch_authority.py` | every `Epoch` object, `current`, `epochHistory` |
| `PreAuthGate` | `pre_auth_gate.py`, turn by turn | `auth` = the requests by token, `pending` = the table, `filed` = how often each is in the history, `call` = where each call is |
| `IrreversibilityAuthority` | `irreversibility_authority.py` over both, with the endpoints of `main.py` | the three counters |
| `CapabilityEngine` | `capability_engine.py` and the scores of `models.py`, as operations | `manifests`, `trust` in hundredths, `spent` = `spent_today`, `saved` = capabilities.json |
| `GovernanceEngine` | the rules, over `CapabilityEngine` | `pending` = `pending_approvals`; the grammar file is the constant `Grammar` |
| `PhysicsBridge` | the rules on agents, and their actions | none of its own |
| `AgentAuthority` | `execute()` as those three see it, with the endpoints | `pc`, `kind` = where each request is and what it asks for |
| `EffectBoundary` | `effect_boundary.py` | constant: the table of standard effects and what is asked of it |
| `InvariantEngine` | `check_all_invariants()`, turn by turn | `analyses` = what the analysis service has found, by id; `invariant_results`; `call` = where each call is, the id it holds, what has failed |
| `Swarm` | `disd_protocol.py` on the basic or on the enhanced router, with the receipts | `members` and of them `local`, `paused`, `lapsed`; `endpoints` = `agent_endpoints`; `message` = the broadcast of each sender and its next delivery; `listed` and `round` = the local variables of the two loops; `entries` = the chain |
| `MC*` | symmetry, bounds and data for TLC | |
| `*Proofs` | theorems | |

`KillSwitchControl` extends `KillSwitch`; `SnapshotHistory` and `MutationExecutor`
extend `SnapshotEngine`, and `SnapshotProofs` extends both; `IrreversibilityAuthority` extends `PreAuthGate`, which
extends `EpochAuthority`; `AgentAuthority` extends `GovernanceEngine` and
`PhysicsBridge`, which extend `CapabilityEngine`. `MCIrreversibility` takes its types of effects
from `EffectBoundary`. `Swarm` and `InvariantEngine` stand alone. There is one action per operation, or per turn of a
coroutine; what an action leaves to chance is what another component or the outside
answers. An early return that changes nothing is no action.

Definitions marked "Wrong" (`TrimLate`, `CreateOver`, ...) are not used by any
specification. Each is a plausible mistake in the definition that follows it;
put in its place, the property that `PROJECT.json` pairs with it fails. They show
that the properties depend on the code.

## 3. Runs

| Run | Question | Instance |
|---|---|---|
| `kill_switch` | state, files and audit trail under every sequence of methods and restarts | 3 events kept, so trails are trimmed |
| `kill_switch_control` | is a stop in memory on disk, and does it survive endpoints, signals, crashes and the CLI, between any two steps | 2 events |
| `control_unfreeze` | fails: `/control/unfreeze` during a stop | 2 events |
| `snapshot_history` | index, directories and newest snapshot, with torn copies | index of 2, 7 creations: full after 2, numbers reused after 3, damage after 5 |
| `mutation_executor` | all or nothing, rollback points, `active_mutation`, recovery after a crash, every request answered, with an operator who takes and restores snapshots at any moment | 2 concurrent mutations, index of 3, which the operator overflows |
| `mutation_rollback` | fails: a rollback that is recorded has undone the change | 2 mutations, index of 2 |
| `quorum_tables` | votes in every order, changes of the voters, full tables, expiry and cleanup of several proposals; implements `Ballot` | 2 voters, 3 proposals that need 2 approvals, tables of 2, veto threshold 1 |
| `agent_coordinator` | separation of duties, one execution, service | 3 agents in any role, 2 calls |
| `irreversibility` | tables, records and the three counters, path by path, with everything between two turns; implements `EpochLedger` | 3 calls, 3 types (of each kind), 2 epochs, 2 effects each, history of 1 |
| `agent_authority` | trust, budgets, governance and the file with everything in progress | 1 agent, 2 capabilities, 2 requests of 5 kinds (one for each verdict and each rule on tokens), all values of trust, a budget of two mutations |
| `swarm` | members and routes with calls and both loops between any two deliveries | 2 agents, one of which may be registered from outside, 2 calls, the 3 routers |
| `invariant_engine` | verdicts and results of concurrent calls with requests that fail | 2 calls, 4 graphs: sound, sound by a path only, and two that fail the other checks |

Bounds. `MaxEvents`, `MaxSnapshots`, `MaxProposals`, `MaxEffects`, `MaxHistory` and
`MaxPending` are limits of the code (1000, 100, 1000, 100, 1000, 1000) made small, so
that they are reached. `MaxCreates`, `MaxCreated`, `MaxEpochs`, and the sets `Changes`,
`Proposals`, `Executions` and `Calls` bound the length of a behaviour. Three calls are
enough for two executions of one token beside a flow of another; two mutations for
one that holds the lock and one that waits, is let in or times out, while the operator's
snapshots and restores do to the store what further mutations would (the theorems are for any number). With two voters and a
veto threshold of 1, one veto against one approval stays below the threshold and two
vetoes meet it exactly; every other threshold and number of voters is proved
(section 5). Two agents and two calls are enough for the swarm: one agent's join,
leave or sweep overtakes another message about the same agent while the other agent
is the target. Two calls of the invariant engine are one that measures and one that
interferes. The type invariants of the modules with a type theorem are checked by TLC only where
they hold a bound that a mistake would break (the kill switch and the quorum tables). Further bounds: a signal handler is not itself interrupted; in
`IrreversibilityAuthority` all epochs have the same `max_effects`.

In `MutationExecutor` the operator's two endpoints, `/snapshots/create` and
`/snapshots/{id}/restore`, may come between any two turns, as they do in the code: neither takes
the mutation lock. A restore under a running mutation puts other changes in or out, and a creation
with a full index copies over the snapshot that has the number used again, so that the
rollback of a running mutation restores something else. `operated` collects exactly these
changes, when they happen; the properties speak of all others, and the run `mutation_rollback`
shows what becomes of these.

In `irreversibility` the history keeps one epoch, so the run shows which epoch stays and which
go; that several stay in their order is a theorem for every bound (`EpochsStayInOrder`). In
`invariant_engine` both calls see graphs of which few satisfy all checks, so the run would
hardly show a call that reads the analysis of another one; the theorem `VerdictIsSound` covers it.

`AgentAuthority` needs no bound on the length of a behaviour: trust is finite and the
budget stops spending. Its proofs cover more agents, requests and kinds. The service
may end there: if a crash cuts capabilities.json short, `_load_state()` raises and the
service does not start, hence `CHECK_DEADLOCK FALSE`.

Fairness. `MutationExecutor`: weak fairness of the turns of a request that was let in.
Its HTTP requests time out after 10 s and the wait for the lock after 30 s, so a turn
that stays enabled is taken; nobody is obliged to send a request. `AgentCoordinator`:
weak fairness of acquiring and finishing; the asyncio.Lock wakes its waiters in
order, and an execution ends because the mutation executor bounds each of its waits.
`InvariantEngine`: weak fairness of each call once it waits for the service, whose requests all
have a timeout. `Swarm`: weak fairness of a delivery, which is a sleep of a millisecond, and of
the two loops, which sleep and begin again. No other specification states fairness:
the others have safety properties only.

Why the properties are not obvious:

- `StopEndsByReset`: refusing `freeze()` during a stop matters because an accepted one
  would replace the state while the file stays. It holds with signals, crashes and the
  CLI at every point.
- `LatestRestorable` holds for exactly 2·MaxSnapshots creations. After that a new
  snapshot overwrites the one before, and cleanup deletes it.
- `AllOrNothing` relates what requesters were told to the runtime after later
  mutations were applied and rolled back, some of them by a restore that tore, and while an
  operator takes and restores snapshots. It rests on `RollbackPoint`, hence on the lock. It
  holds even after the index has overflowed for good: then the rollback point is gone, and the
  code records no rollback. What an operator's call has put in or out (`operated`) is his
  doing; a refusal or a failure is not in the runtime even then.
- `RollbackPoint` and `AllOrNothing` would be wrong without `operated`, and not only for what
  the operator means to change: with a full index, his snapshot is also the rollback point of a
  running mutation. `RollbackUndoes` is the promise without that exception, and fails.
- `CountersAddUp`: a flow returns from many places, in its first turn or in a later one, and each of these ways has
  increments of its own. Each is an action of its own with just its increments; a way
  that counts nothing (`FlowFailsUncounted`) or counts twice breaks the sums.
- `RollbackPoint` promises the directory only as long as the oldest entry of the index has a
  number of its own, and `HalfDoneIsRecoverable` only while the snapshot of the mutation is
  still in the index: these are the exact points at which cleanup takes them away.
- `Answered` needs the lock to be released on every path out of `execute()`.
- `StatusIsVerdict`: the veto ratio is that of the votes cast so far, so the verdict
  depends on the order; a voter who was removed and added again must not count twice.
- `PendingIsOpen`: two executions of one token, a cancel and a cleanup may each settle
  the same request. Its status changes from one to the other and it is filed several
  times, but it never comes back to the table.
- `ImplementsLedger`: a commit comes after an await in which the epoch may have been
  closed, replaced, filled or have expired. It is ignored then; nothing enters a
  closed epoch. The price is that the effect is in none: `RecordedUnlessOvertaken` says that
  this is the only way to lose one, and that a cancel, a cleanup or a second execution of the
  same token is none.
- `OverspendBounded`: the budget is looked at when a request enters and spent when it
  has succeeded, so requests in progress overspend it together; a reset, a crash or a
  failure in between must not free more than they owe.
- `StaysDisabled`: "permanently revoked" is not quite true. Requests in progress may
  still earn 0.01 each. Trust plus what they can earn is the quantity that, once below
  0.5, never comes back, through restarts, registrations and physics evaluations.
- `RoutesMatchMembers`: a join, a leave and a sweep of one agent may all be on their way
  at once, and each changes both tables at its end as if it were alone. A member that
  rejoins without an endpoint keeps its old route; what must never happen is a route of
  nobody, or a local member that cannot be reached.
- `StaleRemoved`: the sweep works from a list made before its awaits, the heartbeat loop
  sends the status a member had before its own, and each may undo the other. A stale
  member is nevertheless fresh again or gone in the end, because a new sweep begins.
- `EmptyUnlessSeeded` explains why the swarm of the service is empty.
- `RunsChecked` says what both engines check. They look at the target of an operation; the source
  and the destination of a move (`mutation_executor.py:313`) are not looked at by either.
- `VerdictSound`: a call passes its own id along, but the engine also remembers the last
  one, and all calls write one table of results. The verdict rests on the id and on the
  call's own list, which is why another call's better graph cannot let a mutation through.
- `ShownWasMeasured`: a check that raises must not be entered into the table.

## 4. What the code gets wrong

With a run:

1. `/control/unfreeze` unlinks `FREEZE` during an emergency stop (`control_unfreeze`).
2. `POST /snapshots/create` does not take the mutation lock: with a full index it uses the number of
   the mutation in progress again and copies the changed runtime over its rollback point. The
   rollback then restores the change and is recorded as a rollback (`mutation_rollback`: two
   snapshots by an operator, a mutation that takes number 3, a third snapshot by the operator,
   and checks that fail).

Seen while modelling, in the models, without a run of their own:

- A SIGUSR1 between the assignment and the unlink of `unfreeze()` leaves the switch
  frozen without the file the executor looks at (`kill_switch.py:239`).
- Snapshot numbers repeat once the index is full (`snapshot_engine.py:67` takes the
  length of the index plus one): each new snapshot then overwrites the one before, and from
  creation 2·max_snapshots + 1 on, the 201st, cleanup deletes each new snapshot at once. It is
  nevertheless the current one. `LatestRestorable` and `NewestIsLost` (section 5) say so exactly;
  from then on no mutation can be rolled back.
- capabilities.json is rewritten in place; cut short by a crash, it keeps the service
  from starting.
- `config/capability_grammar.yaml` names none of the `CapabilityType`s: with it governance
  rejects every mutation, and each rejection costs trust.
- `approve_pending()` puts the token on a request that is then dropped; the agent has to
  submit again, and any token will do.
- The physics bridge's emergency stop and freeze raise (`trigger_emergency_stop` does not
  exist, `freeze` takes no `metadata`), are caught, and change nothing.
- Every DISD PROPOSE message is rejected as expired: `payload.is_expired` at
  `disd_message.py:689` is the method, not its value. So nothing is ever voted on,
  committed or aborted.
- `join_swarm` needs a reachable member before there is one (`EmptyUnlessSeeded`).
- `leave_swarm` answers FALSE, and the endpoint 500, whenever there was a target: by then
  the local handler has removed the member. The other way round, a join whose
  deliveries all failed answers FALSE although the local handler has added the agent.
- `_cleanup_loop()` sleeps for 60000 s; its comment says one minute (`disd_protocol.py:637`).
- `commit_effect()` may refuse after the effect has been executed, and `execute_effect()` ignores
  it (`pre_auth_gate.py:335`): an effect whose epoch was closed, replaced or filled or has
  expired during the await succeeds and is recorded nowhere.
- The second receipt of an epoch is never appended: `append_receipt()` takes the chain hash over
  entries and a string and raises `AttributeError` (`cryptographic_receipt.py:292`,
  `cryptographic_receipt_mock.py:223`). The delivery counts as failed, so every call of the
  enhanced swarm that waits for one fails from the second on.
- `verify_epoch_chain` refuses any chain with an entry, because it compares the hash of the
  first with the genesis hash.
- The engines check the target of an operation, not the source and destination of a move.
- `check_reachability` and `check_no_orphan_handlers` ask for a direct edge where their
  docstrings say path: stricter, so `VerdictSound` holds, but a sound graph can fail.
- Without the analysis service every invariant counts as passed; the class comment says that
  a broken graph rejects the mutation (`invariant_engine.py:23`).
- A crash inside `emergency_stop()` after the state and before `FREEZE` leaves
  `EMERGENCY_STOP` alone; the executor looks only at `FREEZE`.
- An emergency stop from the command line is unknown to the running service.
- `restore_snapshot` is called atomic and is an `rsync --delete` into the live runtime.
- The restore endpoint does not take the mutation lock either: what it restores under a running
  mutation is lost in its rollback or survives its success.
- `FREEZE` is checked when a mutation comes in and not again.
- A crash between change and verdict leaves the change in place (`HalfDoneIsRecoverable`
  says that an operator can undo it).
- A proposal rejected while an execution waits for the lock is executed all the same;
  an agent may register as a verifier after having executed.
- The weights of voters are stored and never used.
- The limit on pending requests is checked before an await and used after it.
- A flow with a quorum opens a proposal and demands its approval in the same call, so
  it always fails.

## 5. Proofs

Every theorem is for all values of the constants that satisfy the named assumptions
(`MaxEventsAssumption`, `QuorumAssumption`, `EpochAssumption`, `GateAssumption`,
`EngineAssumption`, `GrammarAssumption`, `AuthorityAssumption`, `GraphsAssumption`,
`SwarmAssumption`, `CoordinatorAssumption`, `SnapshotAssumption`, `MaxCreatesAssumption`,
`NoOneAssumption`). Each says that a bound is a number, that a set that is counted is finite, or
that a model value is none of the others.

**Kill switch** (`KillSwitchProofs`). `Inv` adds to `TypeOK` what the steps of a method
have done so far: with which file still to be written or unlinked each state goes at
each `pc`. The properties speak of a quiet switch, and nothing about it would follow
from a quiet switch alone, since every method passes through states where they fail.
Proved: `TypeOK`, `FrozenOnDisk`,
`EmergencyOnDisk`, `ResetIsDurable`, `RestartKeepsBlocking`; with `ChainInv`, which says what the
last event ends in while a method runs, also `AuditChain`: all the run checks.

**Control** (the last part of `KillSwitchProofs`). With signals and crashes that invariant is
gone (a signal inside `unfreeze()`, section 4, breaks a part of it). `StopInv` keeps what survives: types, and
that a stop in memory past its first step is on disk, which holds because nobody but
the reset unlinks `EMERGENCY_STOP` and freeze and unfreeze refuse during a stop.
Proved: `EmergencyOnDisk`, `StopEndsByReset` over all interleavings.

**Quorum authority** (`QuorumAuthorityProofs`). `Inv` = `TypeOK` ∧ `StatusIsVerdict` ∧
`OnePlace` is inductive: a vote needs that its proposal is pending (by `OnePlace`),
that the counters are right (by `StatusIsVerdict`), and adds one to one of them
(`OneMoreVote`, on cardinalities). Proved: the three, that every step is a step of
`Ballot` or a stutter (`QuorumImplementsBallot`), and what that buys: no vote and no verdict
is ever changed (`VerdictsAreFinal`, by way of `BallotStepIsFinal`, a fact about `Ballot` alone).

**Snapshots** (`SnapshotProofs`, first two parts). The operations of the store are described one
by one, for any bound: what the index looks like after a creation (`NextIndexIs`), which
directory is written and which deleted (`CreatedIs`), what a torn copy and a mark disturb
(`TornIs`, `MarkedIs`). `Sound` says that the numbers of the index run from the first one up and
stop at the one that is used again. `HistoryInv` adds `Counted`, which computes the index from
the number of creations: without it nothing relates the bounds of `LatestRestorable` and
`IntactUntilFull`, which count creations, to what cleanup does, which looks at the index.
Proved: types, `IndexOnDisk`, `LatestRestorable`, `IntactUntilFull`, and `NewestIsLost`, the
other side of the bound.

**Mutation executor** (`SnapshotProofs`, last two parts). The properties are not inductive: a
rollback is right because the snapshot of *this* mutation has not been written, marked or deleted by
others. `MutationInv` adds `RequestsKnown` (what a request has before the lock and under it, and that what
was refused or has failed is in no snapshot, `Lacks`, so that no operator can bring it in),
`SnapsApart` (numbers in use are in the index and differ, but for the reused one) and `SnapsKept`
(the snapshot of every mutation that has not ended, crashed or not, is unmarked and without the
change while its number is in the index). `CreatedKeeps`, `TornKeeps` and `MarkedKeeps` carry
this through the operations of the store; `TurnedKeeps` and `ApartKeeps` say once for all turns
that a turn which does right by its own request does right by all; then there is one lemma per
action. Proved: types, `AllOrNothing`, `RollbackPoint`, `ActiveIsHolder`, `HalfDoneIsRecoverable` and
mutual exclusion (`OneAtATime`), for any number of mutations and any bound of the index.

**Irreversibility** (`IrreversibilityProofs`). `Inv` has three parts. `EpochInv` (types
and `EpochsInOrder`) is kept by every step the epoch authority can make, whoever
makes it; `KeepsLast` says what trimming keeps. `GateInv` adds `CallInv` to types and
`PendingIsOpen`: a token named by a call that has passed the door was granted once,
and the type of a granted request is known. Without it a call in its last turn
could settle a request that was never granted, or commit something that is no type.
`CallStep` reduces a turn to the one call that moves. Proved: `TypeOK`,
`EpochsInOrder`, `PendingIsOpen`, the refinement of `EpochLedger` (`LedgerStep`), and that an epoch
records each effect once, within its bound (`EffectsAreOnce`).
Each way a flow returns has an action with its own increments, and `GateTurn` describes
the turn of the gate beneath them without the counters. `CountersStep` goes through the ways one by one:
each moves one flow from one of the three sets of `CountersAddUp` to another and increments the counters of
just these (`FlowCounts`, `OthersCountNothing`, `AddedIsCounted`).
`CountersAddUp` and `RecordedWasExecuted` compare cardinalities, so they need `Calls` to be finite
and `AnswerInv`: a call answers in its last turn, and has no kind before its first. `TurnMoves`
says that a turn moves one call and answers "succeeded" only where the effect has returned; at most
one epoch gains at most one effect in it, so both sides grow by one, or the left one does not
(`RecordsAdded`, `RecordsKept`). `RecordedUnlessOvertaken` needs `NothingBefore` (without an epoch
nothing is granted and nobody gets past the door): an effect in progress then finds an epoch, which is
the one it started in unless something was overtaken (`EpochsStay`), and the commit leaves a
record (`CommitRecords`).

**Agent authority** (`AgentAuthorityProofs`). `Inv` = `TypeOK` ∧ `Durable` ∧ `Admitted` ∧
`RunsChecked`. `Admitted` says that what the door has checked of a request still holds,
because no manifest shrinks; `Durable` makes a restart a step that changes nothing of
the engine. `EngineNext` and `RequestsNext` reduce a step to what it does to each of the two
halves. The sets of requests in progress grow and shrink by one (`Entering`, `Leaving`,
`OneMore`, `OneLess`), a mutation costs at most `MaxCost` (`CostBounded`), and so
`OverspendBounded` is inductive; `StaysDisabled` is shown step by step (`PotentialNext`). All
the run checks is proved, for every grammar, budget, set of kinds and of agents, and any
finite set of requests.

**Agent coordinator** (`AgentCoordinatorProofs`). `IInv` adds to the two properties
`Verified` (nobody has touched a proposal that was not submitted, an approved one has a
verifier) and `CallsNamed` (a call in progress is an agent's, of a verified proposal):
without the second, the call that leaves the lock queue could write any executor.
`Parts` is the same invariant taken apart by proposal and by call, since a step
changes one of each. Proved: types, `OneExecution`, `PlannerSeparate`.

**Invariant engine** (`InvariantEngineProofs`). `CallOK` says of a call in progress that
the id it holds is that of an analysis made since it began, which satisfies every check the
call has behind it and has not counted as failed. `ChecksImplyDocumented` carries that to
the docstrings, by way of `EdgeIsPath`. Proved, for any graphs: types, `VerdictSound`,
`ShownWasMeasured`.

**Swarm** (`SwarmProofs`). What the tables must satisfy is kept by each of the operations on
them (`AddedKeepsTables`, `RemovedKeepsTables`, ...), so it does not matter in which order
broadcasts end. `NothingUnderway` (no message without an agent registered from outside)
makes `EmptyUnlessSeeded` inductive. Proved:
types and the two invariants, for any number of agents and calls.

Model-checked only: liveness (`Answered` of both modules, `Served`, `StaleRemoved`), which
TLAPS cannot do. Every invariant and action property that a passing run checks is also proved. The
two runs that fail have counterexamples instead.

## 6. Not modelled, and the plan

Left out for good: the HTTP endpoints that only forward, the CLI client, formatting
and statistics, signatures, compliance and the agent factory's
rules (functions of one request), HTTP and WebSocket transports (nothing in the service
sends through them). In `MutationExecutor` the invariant engine's verdict, and in the gate the
physics service's answers, are free choices: the engine's own module says what the
verdict is worth. In `Swarm`, votes, commit and abort are left out because no proposal
lives long enough, the history and the receipts of the basic router and the suspicion
scores because nothing decides by them, and keys and signatures are reduced to whether
they verify. The grammar and policy files are data: the mutation
executor is modelled for a grammar that names the types of its mutations (an unknown
capability is refused, which is `RefuseCapability`). A restart empties the quorum
authority, the coordinator and the epochs, which is `Init` again. Systems without
rsync are not modelled. Custom capabilities are stored and never checked, and
`record_human_reject` is never called. A save of capabilities.json is assumed to succeed
unless the process dies in it. `AgentAuthority` and `MutationExecutor` model the same
`execute()` from two sides, one with trust and verdicts, the other with lock and snapshots.

The order of the plan, most important behaviour first:

1. *Done.* `KillSwitch`, `KillSwitchControl`, proofs.
2. *Done.* `SnapshotEngine`, `SnapshotHistory`, `MutationExecutor`.
3. *Done.* `Ballot`, `QuorumAuthority`, proofs with refinement.
4. *Done.* `AgentCoordinator`.
5. *Done.* `EpochLedger`, `EpochAuthority`, `PreAuthGate`, `IrreversibilityAuthority`,
   proofs with refinement.
6. *Done.* `CapabilityEngine`, `GovernanceEngine`, `PhysicsBridge`, `AgentAuthority`, proofs.
7. *Done.* `EffectBoundary`, `InvariantEngine`, `Swarm`, with proofs; proofs of the coordinator.
8. *Done.* Proofs of the snapshot engine, of the mutation executor, of the counters and records
   of the irreversibility authority; consequences of both refinements.
9. Left: an abstract specification of the mutation executor (a set of changes, each made whole
   or not at all) with the refinement proved from `MutationInv`, and one of the invariant engine.
