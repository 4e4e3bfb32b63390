# governanceops_agent in TLA+

A verification development for `governanceops_agent`, a Python library that an
AI agent's host calls before every action: may this action run, does a human
have to approve it first, or is it refused? The modules below model the library
as it is written (paths are relative to `src/src/governanceops_agent/`), TLC
checks them on small instances, and TLAPS proves every safety property TLC
confirms, and a refinement, for every instance.

Contents: [the system](#1-the-system), [the plan](#2-the-plan),
[the modules](#3-the-modules-and-the-code), [the runs](#4-the-runs),
[the proofs](#5-the-proofs), [disagreements found](#6-disagreements-found),
[what is not modelled](#7-what-is-not-modelled).

## 1. The system

The library is a set of in-process objects that several threads of one agent
share. Every object guards its own state with its own lock; nothing holds two
objects' state together. `AgentGovernor` strings them into one decision. The
audit log is the only durable state, and only in its file-backed form.

| component | state | operations | makes it correct |
|---|---|---|---|
| autonomy tiers, `autonomy.py` | none: an IntEnum of five tiers | `at_least` | the order of the tiers |
| policy engine, `policy.py` | an ordered rule list | `evaluate`, `add_rule`; builders `threshold_rule_pair`, `block_rule` | first match decides; no match means a human decides; a confidence outside [0, 1] is refused |
| checkpoint store, `hitl.py` | `_checkpoints`: status, approver, expiry, bound call, consumed flag | `create`, `approve`, `reject`, `consume`, `is_expired`, `sweep_expired` | a resolution is final; an approval serves one call, once; an expiry takes effect; the log tells the same story |
| tool permissions, `permissions.py` | scopes, cumulative limits, call counts, used budgets | `register`, `register_cumulative_limit`, `requires_approval`, `check_and_record`, `reset_session` | no cap or budget is passed, a refused call charges nothing, an allowed one charges every limit it is under |
| kill switch, `kill_switch.py` | engaged flag, by whom and why | `engage`, `clear`, `check`, `state` | once on, new actions are refused; both changes are on record |
| audit log, `audit_log.py` | hash-chained entries | `append`, `entries`, `export_entries`, `from_entries`, `verify` | every change of the past is detected, and nothing else is reported |
| persistence, `persistence.py` | the file and the in-memory chain | `append`, `load_persistent_audit_log` | what a caller was told is recorded is in the file, in order, after any restart |
| governor, `governor.py` | the objects above, an approved ceiling, an authority callable | `evaluate_action`, `request_approval`, `from_governanceops`, `report_event` | an action runs only if switch, authority, policy, approval and permission all said yes, and the evidence says so |
| Inventory client, `inventory_client.py` | none | `fetch_policy_bundle`, `build_governance_from_bundle`, `report_runtime_event` | the compiled rules allow what was approved and nothing else; a lost event is not taken for a reported one |
| deployment gate, `gate.py`, and `cli.py` | one governor per run | `load_gate_config`, `run_gate` | a misconfiguration never passes |
| Ghana lending controls, `ghana/` | none; the papers belong to the caller | `evaluate_credit_report_gate`, `evaluate_disclosure_gate` | nothing is executed without both permissions on record, each on the applicant's own papers |
| crosswalk, `crosswalk.py` | a constant table | look-ups | (text) |

**How they interact.** `evaluate_action` calls, in this order, the kill switch,
the authority callable, the policy engine, the checkpoint store (if the policy
wants a human), `requires_approval`, the checkpoint store again (to create or to
spend an approval) and `check_and_record`. Each call is a critical section of
its own, so every other actor may run between two of them: other invocations,
humans resolving checkpoints, a sweeper, an operator at the kill switch, whoever
registers scopes or resets the session. All components append to the shared
audit log, and most of them do it *after* releasing their lock: the store first
changes and then says so. Only `ToolPermissionRegistry._deny`, `engage` and
`clear` append inside their critical section, so their locks nest around the
file's and the log's.

Around one governor there are three larger loops. `from_governanceops` fetches a
policy bundle from Inventory, a service of its own, compiles it once, and
`report_event` sends audit entries back. The deployment gate builds a governor
from a config file and runs scenarios through it before a pipeline may deploy.
The lending controls build a policy engine for each decision and append to a log
they are passed; the order of the two gates is the caller's workflow.

**What is hard.**

* interleavings inside the request / approve / spend / act sequence, which
  stretches over several invocations and several actors;
* state read in one critical section and relied upon in a later one
  (`requires_approval` is asked up to twice before `check_and_record`, which
  does not ask; the switch and the authority are read once);
* an append that raises after the state has changed (a full disk), in the middle
  of a decision or in the middle of a sweep's loop, with its entry in the log or
  not;
* entries that reach the log in another order than the changes they report;
* caps and budgets at their limit, several limits on one call, a session reset
  under a running call, negative and absent amounts;
* checkpoints whose expiry, sweep and human answer meet;
* a process that dies within a line of the audit file, and a JSON round trip
  that does not give back what was hashed;
* five locks that nest, with a caller's callback running under one of them;
* a policy revised between fetching it, building a governor, deciding under it
  and reporting the decision, with HTTP exchanges that get lost on the way out
  or on the way back;
* a config whose dicts may each lack a field, compiled one after the other, and
  scenarios that share one session;
* papers that change between the looks a decision takes at them, and before its
  entry.

Forty such places, each at its line, are in `PROJECT.json` under `hazards`,
with the properties that watch them or the reason none does.

## 2. The plan

The order is by what would hurt most if it were wrong.

| stage | modules | question | state |
|---|---|---|---|
| 1 | `GovernanceBase`, `CheckpointStore`, `CheckpointAudit` | is a human's decision final, spent once, recorded and never forgotten? | checked; all but liveness proved |
| 1 | `ToolPermissions`, `ToolCalls` | can racing calls pass a cap or a budget? | checked and proved |
| 1 | `PolicyEngine`, `KillSwitch`, `Governor` | does an action run without its approval, under a halt, or with no evidence? | checked and proved |
| 1 | `AuditLog`, `PersistentAuditLog` | what do crashes, write errors and later changes of the file do to the evidence? | checked and proved |
| 2 | `ApprovalTickets` | what is it that human approval promises, and does the governor implement it? | checked and proved |
| 2 | `LockOrder` | do the locks nest in one order, does every call return, what does a reader see in between? | checked; all but liveness proved |
| 2 | `InventoryPolicy` | does the compiled policy allow only what was approved, and does every decision on file name the revision that made it? | checked and proved |
| 2 | `DeploymentGate` | can a broken or failing config pass, and do scenarios influence each other? | checked and proved |
| 2 | `LendingGates` | can an agreement be executed without the evidence of both gates? | checked and proved |
| 3 | a write-ahead view of the audit file | an append-only sequence with an acknowledged prefix that `PersistentAuditLog` implements | open |
| 3 | a ledger view of `ToolCalls` | one atomic charge per permitted call, which check-then-log implements | open |

## 3. The modules and the code

Component modules hold operators that are *one critical section each*; the
modules that compose them add the actors, the log and what runs between the
sections.

```
GovernanceBase ── PolicyEngine ──────┐
      │ ├──────── CheckpointStore ───┼── Governor ─ ─ implements ─ ─ ApprovalTickets
      │ │              └── CheckpointAudit
      │ └──────── ToolPermissions ───┤
      │                └── ToolCalls │         AuditLog ── PersistentAuditLog
      └ KillSwitch ──────────────────┘         LockOrder
PolicyEngine, ToolPermissions ── InventoryPolicy, DeploymentGate
LendingGates
```

A module `XMC` gives `X` its small instance (`LockOrder` is simple enough to be
run as it is), a module `XProofs` (`LendingProofs` for `LendingGates`) its
theorems; the governor's refinement is proved in `GovernorProofs`.

**`CheckpointStore`** (`hitl.py`). `checkpoints` is `_checkpoints`, `clock` is
`datetime.now`. `CreateCheckpoint`, `ResolveCheckpoint` (`_resolve`),
`ConsumeCheckpoint` and `SweepExpired` are the `with self._lock` blocks. The
expiry is computed before the lock is taken, so it may be based on an older
clock. `ttl_seconds=0` means no expiry, as `if ttl_seconds` has it. Resolving
does not look at the expiry, as in the code.

**`CheckpointAudit`** adds threads and the log. A method that changed the store
leaves its entries in `owed[t]`; `AppendEntry` writes them one at a time,
`AppendFails` raises out of the method and, in a sweep, drops the rest of the
loop. The entry whose append raised is lost or kept: `persistence.py:60` has put
it into the chain before the write of lines 61-62 can fail. The log is a sequence, so orders between threads are visible.

**`ToolPermissions`** (`permissions.py`). Four variables for the four dicts.
`Permitted` is every check of `check_and_record` in one guard, `RecordCall`
what it then records; a call under a limit with no amount is refused. A scope's
constraint callable is the set of params it accepts. **`ToolCalls`** has threads
calling `check_and_record` directly, with scopes and limits registered
while they do, a session reset and appends that raise (`AppendRaises`: the entry
is kept or lost, the caller sees the exception). `charged` and `session`
are history variables: what each call was charged to, and which calls belong to
the current session.

**`PolicyEngine`** (`policy.py`) is a function of the rule list. The confidence
is an integer and anything outside `0 .. MaxConfidence` is rejected.
`StartsWith` gives the prefix relation between actions and rule prefixes.

**`KillSwitch`** (`kill_switch.py`) is the flag.

**`Governor`** (`governor.py`). Each `Call` is one invocation of
`evaluate_action` or `request_approval`; `pc` names the check it is about to
make, and each action is one check with everything it changes:

| `pc` | action | code |
|---|---|---|
| `kill_switch` | `CheckKillSwitch` | `self.kill_switch.check()` |
| `authority` | `CheckAuthority` | the callable, an exception of which means no |
| `policy` | `EvaluatePolicy` | the ceiling, `evaluate` and the `policy_decision` entry |
| `create` | `CreateForPolicy` | the checkpoint for REQUIRE_APPROVAL |
| `tool` | `CheckThreshold` | `requires_approval` and where it leads |
| `request`, `direct` | `RequestApproval` | `request_approval`, which asks again |
| `consume` | `ConsumeApproval` | `CheckpointStore.consume` |
| `permit` | `CheckAndRecord` | `check_and_record` |

Entries appended after a lock's release wait in `unlogged`, and the invocation
goes no further before they are written (`Settled`). `AppendEntry` and
`AppendFails` write them or fail to; an append that raises ends the invocation
with that exception, and its entry may be in the log all the same (`Fails`). An
entry appended inside a critical section is there or raises at once
(`LogsOrFails`). A caller knows the id of a checkpoint (`Known`) from `create`'s
return, after its append, or from the log. Humans (`ResolveBy`), the sweeper (`Sweep`), an operator
(`Engage`, `Clear`), the source of authority (`RevokeAuthority`), a
re-registration (`Reregister`), a session reset and the clock run at any point.
`halted` is a history variable: the calls begun under a halt that still lasts.
The log is a set here; its order is `CheckpointAudit`'s subject.

**`ApprovalTickets`** is the abstract specification: tickets asked for one
purpose, answered once or left to lapse, torn up when presented, and good for
one act of their own purpose. `Governor` maps to it by `ticket` (a checkpoint,
its `consumed` flag being the tear) and `act` (an allowed call above its
threshold, with the token it spent). A purpose is an action with the bound call
or with none, as `create` stores it. Entries, halts, caps, policies and the log
all become stuttering.

**`AuditLog`, `PersistentAuditLog`** (`audit_log.py`, `persistence.py`). A digest
*is* the content it is computed from, so two digests are equal exactly if the
contents are (no collisions), and a signature is the digest with the key.
`Verifies` is the walk of `verify`: links, digests, signatures. `file` is the
list of lines as `json.loads` would read them, `Torn` one that does not parse
(it is no entry; `GENESIS_HASH`, the link of the first entry, is no digest),
`terminated` whether the file ends with a newline: text written after a line
without one joins it. `Reloaded` is what the JSON round trip makes of a payload.
`Crash` may cut a line anywhere; `Restart` refuses a file that does not parse and
checks nothing else, like `load_persistent_audit_log`.

**`LockOrder`** takes the critical sections of the other modules apart. The five
locks are the registry's, the store's, the switch's, `_file_lock` and the log's
own. A method is the sequence of what it does (`With` is a `with` block), a
thread runs one method at a time and other threads run between any two steps. A
write that raises leaves every `with` block on its way out: what remains of the
method is its `Releases` (`WriteRaises`). A
scope's constraint runs under the registry's lock and may read the log, the
switch or the store. One that calls its own registry waits for a lock its own
thread holds; `Callback` can hold it, and the run leaves it out because that
thread then stops for good.

**`InventoryPolicy`** (`inventory_client.py`, `from_governanceops`,
`report_event`). `policies` is every revision of one record, `fetch` and `post`
the two HTTP exchanges. An exchange is sent, served and answered in separate
steps and may fail after any of them, so an event can be stored and its answer
lost. A bundle is a function on the keys the JSON has. `CompiledRules` puts
the block rules first, `CompiledScopes` gives each permitted tool its tier and
transaction limit. Runtimes share a log that outlives their governors, so an
entry may be reported by a governor built from a later revision. Inventory, the
risk officer and whatever answers in Inventory's place are external.
Two facts of the code show in it. A forbidden tool is blocked by the prefix of
the *action's* name, so a tool listed both ways is callable under another
permitted action's name. Events that are not policy decisions carry no version
and are filed under the reporting governor's, which
`full_lifecycle_demo.py` prints as theirs.

**`DeploymentGate`** (`gate.py`, `cli.py`). The config is a function on the keys it
has, and `RuleFault`, `ScopeFault` and `ScenarioFault` give the exception a dict ends
in, the first in the order the code reads the keys. `BuildPolicyEngine` and
`BuildToolScopes` take one dict per step, `RunScenario` is one `evaluate_action`.
`GateConfigError` ends in exit code 2, every other exception in Python's 1, which
is also the code of a blocked deployment. The governor is one per run, not one per
scenario; a missing parameter counts as 0 in `max_param` and `min_param`. Values
have the type the code wants: one of another type (a string `min_confidence`, a
null `constraint`) raises too, with exit code 1, and is left out.

**`LendingGates`** (`ghana_lending_controls.py`, and
`ghana_synthetic_lending_demo.py` for the workflow). The papers are the caller's
mutable objects: each call of a gate is passed some, complete or not (`IsPassed`),
and until the gate is done any fact of them may come to hold or cease to
(`PapersChange`). `papers` is what they say, `ever` and `always` are history
variables. A gate looks several times: the credit report's block rule and allow
rule each read `retrieved` (`TryBlockRule`, `TryAllowRule`), the disclosure gate
reads the fields, then the delivery (`FindMissingFields`, `EvaluateDisclosure`),
and the fields once more for the entry (`Missing`). `OwnPapers` is what the engine
built for one call closes over. `LogDecision` is the entry and what the workflow
does next, `AppendFails` an append that raises out of the gate, its entry kept or
lost; the workflow goes on only with an ALLOW in hand. A fee of 0 counts as a
missing field, as in `missing_fields`, whose reads of the single fields are one
step here. The bureau's id, times and methods are text of the entry that nothing
reads.

Definitions marked as a mutant in a comment are plausible bugs of the definition
after them. Each checked property is violated when one of them takes
the place of the original; `PROJECT.json` lists the pairs.

## 4. The runs

All of them are exhaustive; there are no state constraints, the bounds are in
the guards. Every passing run checks the module's type invariant beside what is
listed, except `governor_disturbed`, whose module has `governor_approvals` for
that, and `inventory_policy` and `deployment_gate`, which state none: a value
of another shape there is an error when TLC evaluates the properties. Times are
those of two workers.

| run | instance | distinct states | what it shows |
|---|---|---|---|
| `checkpoint_audit` | 3 threads (2 approvers and a sweeper), 2 checkpoints, 2 clock ticks, 1 failing append | 420,323, 46 s | `ResolutionIsFinal`, `OneResolutionOnRecord`, `LogTellsTheStore`, `OnlyApprovalsAreSpent`; and `NothingPendingForever` under fairness |
| `tool_calls` | 3 calls, 3 tools, 2 limits (one of them shared), a reset, 1 failing append | 787,212, 22 s | `SessionCapHonoured`, `BudgetHonoured`, `LedgerIsTheSession`, `EveryChargeIsOnRecord` |
| `governor_approvals` | 3 invocations, a tool with a threshold, a cap and a budget, 5 requests, scopes fixed | 364,516, 46 s | `ActsOnlyAsApproved`, `ApprovalSpentOnce`, `DenialExplained`, `NothingAboveTheCeiling`, and that the governor implements `ApprovalTickets` |
| `governor_disturbed` | 2 invocations, 6 requests, operator, revocation, re-registration, 1 failing append | 1,142,938, 67 s | `EvidenceComplete`, `HaltedCallsNeverAct` |
| `persistent_log` | 2 threads, 2 payloads, 4 entries, 2 crashes, 2 write errors | 59,730, 4 s | `NoFalseAlarm`, `FileInSequence`, `VerifiedMeansComplete`, `ChangesAreDetected` |
| `lock_order` | 3 threads, 3 calls, constraints that read the log, the switch or the store, 1 failing write | 169,388, 28 s | `LocksInOrder`, `ReadersSeeTheRecord`; and `EveryCallReturns` under fairness |
| `inventory_policy` | 2 runtimes, 2 revisions out of 5 bundles (2 of which do not compile) and none, 5 requests, 1 decision, 2 events | 632,192 | `NothingBeyondTheBundle`, `EvidenceReplays`, `ReportedMeansReceived`, `FreshWhenBuilt` |
| `deployment_gate` | every config of the sound and broken dicts in `DeploymentGateMC`, up to 2 rules, 2 scopes, 3 scenarios | 149,291 | `ApprovedMeansAsExpected`, `FaultsNeverPass`, `OutcomesAreFresh` |
| `lending_gates` | 2 applicants, 1 disclosure field, 4 entries, 1 failing append | 1,213,258, 36 s | `ExecutedOnEvidence`, `DecidedOnOwnPapers`, `EvidenceInWorkflowOrder` |
| the violation runs | as above, smaller | | section 6 |

**Why the bounds are enough.** The hazards are races between *two* holders of
one thing (a checkpoint, the last slot, the rest of a budget) plus one that
interferes; three threads or calls give that. Three invocations can ask for an
approval, spend it and try to spend it again; two checkpoints let an approval be
presented for the wrong call. The two clock ticks put an expiry before, at and
after a sweep. One failing append reaches every "changed but not recorded"
state, since each of them needs exactly one, and each is reached with the entry
lost and with it kept. The amounts are chosen so that one
call is below the threshold, one above, one has no amount and one gives budget
back, and so that two calls fit a budget that three do not. Two crashes give a
restart on a file a first restart has already extended. A cycle of waiting needs
at most one thread for each pair of locks that nest the wrong way round, and no
method here holds more than three locks; three threads in one method each meet
in every pair. Two revisions and two runtimes let one runtime act under what
another no longer finds, and one decision with two events reports it before and
after the revision, or twice. Two dicts and three scenarios put a fault before,
behind and next to a sound neighbour, and a cap of one before two calls. Four
log entries are two applicants' full passage, or one applicant's two, with the
other's decisions in between. What the bounds do not cover is what the theorems of
section 5 are for.

**Symmetry.** The tool call, governor, persistence, Inventory and lending runs
take calls, threads, runtimes or applicants as symmetric; the two runs that check
liveness use no symmetry.

**Deadlock.** The systems may stop: each invocation runs once, calls, entries and
the clock are bounded and nobody has to answer, so the configurations say
`CHECK_DEADLOCK FALSE`. That threads do not wait for each other for ever is
`EveryCallReturns`, which a stop within a call would violate.

**Fairness** is assumed in two runs. In `checkpoint_audit` the clock goes on, a
method that left its critical section runs to its end (`AppendEntry`; the thread
is not stopped by anything the library does), and the host keeps calling
`sweep_expired` (its docstring asks the host to; the library starts no thread of
its own). No human is assumed to answer. Under that a checkpoint with an expiry
ends resolved, and on record unless an append raised. In `lock_order` the program
goes on while some thread in a call can (one weak fairness condition for all the
threads together; `threading.Lock` promises no thread its turn). As the calls are
finitely many, that is enough for each to return.

## 5. The proofs

Forty-one theorems are proved for any number of invocations, threads, checkpoints,
tools, limits, rules, runtimes, revisions, scenarios, applicants, entries,
crashes and failing appends:

| module | theorem | states |
|---|---|---|
| `GovernorProofs` | `TypeCorrect` | `Spec => []TypeOK` |
| | `SpentAtMostOnce` | `Spec => []ApprovalSpentOnce` |
| | `ActsOnApprovalOnly` | `Spec => []ActsOnlyAsApproved`, if no scope is registered after set-up |
| | `HaltsHold` | `Spec => []HaltedCallsNeverAct` |
| | `EvidenceAgrees` | `Spec => []EvidenceComplete` |
| | `CeilingHolds` | `Spec => []NothingAboveTheCeiling`, if no scope is registered after set-up |
| | `RefusalsExplained` | `Spec => []DenialExplained`, under the same condition |
| | `GrantsOnApproval` | `Spec => GrantsAreApproved`, under the same condition |
| | `GovernorImplementsTickets` | `Spec => ImplementsApprovalTickets`, under the same condition |
| `CheckpointAuditProofs` | `AuditTyped` | `Spec => []TypeOK` |
| | `ResolvedOnceOnRecord` | `Spec => []OneResolutionOnRecord` |
| | `SpendsApprovalsOnly` | `Spec => []OnlyApprovalsAreSpent` |
| | `LogIsComplete` | `Spec => []LogTellsTheStore` |
| | `ResolutionsAreFinal` | `Spec => ResolutionIsFinal` |
| `ToolCallsProofs` | `ToolCallsTyped` | `Spec => []TypeOK` |
| | `LedgerExact` | `Spec => []LedgerIsTheSession` |
| | `CapsHold` | `Spec => []SessionCapHonoured` |
| | `BudgetsHold` | `Spec => []BudgetHonoured` |
| | `ChargesOnRecord` | `Spec => []EveryChargeIsOnRecord` |
| `PersistentAuditLogProofs` | `LogTyped` | `Spec => []TypeOK` |
| | `NothingLostQuietly` | `Spec => []VerifiedMeansComplete` |
| | `LinesInOrder` | `Spec => []FileInSequence` |
| | `CrashesRaiseNoAlarm` | `Spec => []NoFalseAlarm`, if payloads survive the JSON round trip |
| | `TamperingShows` | `Spec => []ChangesAreDetected` |
| `LockOrderProofs` | `LocksTyped` | `Spec => []TypeOK` |
| | `SwitchOnRecord` | `Spec => []ReadersSeeTheRecord` |
| | `OrderKept` | `Spec => []LocksInOrder`, if no constraint asks its own registry |
| | `NobodyWaitsInACircle` | `Spec => []SomeoneProceeds`, under the same condition |
| `InventoryPolicyProofs` | `LoopAgrees` | `Spec => []LoopInv`, the inductive invariant |
| | `InventoryIsTheSource` | `Spec => []NothingBeyondTheBundle` |
| | `DecisionsReplay` | `Spec => []EvidenceReplays` |
| | `ReportsArrived` | `Spec => []ReportedMeansReceived` |
| | `BuiltFresh` | `Spec => []FreshWhenBuilt` |
| `DeploymentGateProofs` | `GateAgrees` | `Spec => []GateInv`, the inductive invariant |
| | `ApprovalIsEarned` | `Spec => []ApprovedMeansAsExpected` |
| | `BrokenFilesNeverPass` | `Spec => []FaultsNeverPass` |
| | `ScenariosStandAlone` | `Spec => []OutcomesAreFresh` |
| `LendingProofs` | `LendingTyped` | `Spec => []TypeOK` |
| | `ExecutedWithEvidence` | `Spec => []ExecutedOnEvidence` |
| | `DecisionsOnOwnPapers` | `Spec => DecidedOnOwnPapers` |
| | `RecordsInWorkflowOrder` | `Spec => []EvidenceInWorkflowOrder` |

**What they assume.** The named assumptions of the modules: constants have the
shapes the code gives them, and `None` is no checkpoint, thread, outcome,
ticket, decision or set of limits (`GovernorAssumption`, `OutcomeAssumption`,
`ToolCallsAssumption`, `ChargeAssumption`, `LockAssumption`, ...). One invocation
creates at most the checkpoint of its own name (uuids are not drawn twice).
`InventoryAssumption` says what a bundle's keys hold *if they are there*: two
lists of tool names and a number or null. `GateAssumption` says the same of a
config: its three keys are lists (`load_gate_config` gives an absent one the
empty list), a cap is a number or null, a scenario's tool a name or null. Every
dict in them may still lack any key. TLC evaluates all of them on every run.

Three hypotheses restrict a theorem and are there because it is false without
them. `ScopeChoices = {}` (no scope re-registered while calls run) is what
`governor_tightened` shows to be needed. `RoundTrips` (the canonical form of a
payload is that of its reloaded self) is what `persistent_log_int_keys` shows to
be needed. `"requires_approval" \notin Callback` excludes the one constraint
that makes a thread wait for itself.

### The governor

*Types.* `TypeOK` is not inductive: `CheckThreshold` can only be known to read
a tool's scope if an invocation at that step has a request, `ConsumeApproval`
only if it has a token, and an append that raises must find its invocation
started. `TypeInv` adds `CallShape` and `OwnersStarted`, which say so. There is
one lemma per action (`BeginTyped` ... `TimeTyped`), resting on lemmas about the
component operators (`CreateTyped`, `RecordCallTyped`, ...).

*Single use.* The store forgets nothing: `NextKeeps` shows that no step unmakes a
checkpoint, changes what it is bound to, un-spends it or takes an approval back.
`ConsumedWritten` shows that every `consumed` entry of a step is old or that of
the one approval the step spends. The invariant `ConsumedOnRecord` bridges the
window between the store's lock and the append: whatever is logged *or still
owed* as consumed is consumed in the store, so the guard of `consume` refuses it
to everybody else.

*Only on approval.* From the moment an invocation is past its approval
(`Acting`), `HoldsApproval` ties its token to an approved, spent checkpoint bound
to its own action and call, with the entry in the log or on its way.
`NextProgress` says how an invocation can be acting after a step: it already
was, it is below its threshold, or it spent its approval just now. Returning
requires that the entry is no longer owed, so it is in the log (`Spent`).
`GrantsOnApproval` reads the property that `governor_tightened` refutes off the
same invariant: with fixed scopes every step that grants a call above its
threshold finds the spent approval in the log.

*Halts.* `StoppedAt` says where a call begun under a halt can be: before the
switch with the switch on or the authority gone, before the authority check with
the authority gone, or done and refused. Clearing the switch while the authority
is gone must not release anybody; the invariant needs `RevocationChecked` (an
authority can only be gone if there is a check) to close that case.

*Evidence, ceiling, reasons.* A step is looked at from the side of one
invocation: it is a step of that invocation, a failed append of it, or leaves it
alone (`StepFrom`). `Evidence` says that an invocation owes one entry at a time;
that an entry which closes it is of one that ended, with that entry's answer or
in a failed append (`ClosingTells`); that once past the policy its decision is on
record or owed, and an allowed tool call too (`PassOnRecord`); and that a refusal
has the entry or the checkpoint it names (`RefusalOnRecord`). An exception proves
nothing about the log, since the entry may have been kept; an answer does: what
it rests on is logged or owed, and who has returned owes nothing. Next to it,
`SpenderKnown` says who spent each approval: an invocation that still presents it
and has the entry in the log, on its way, or lost in an append that raised. It
needs `NextSpends`, that one step alone makes a checkpoint spent, and owes the
entry of it. `OwnersNamed` keeps a sweeper's entries apart from an invocation's.
`UnderTheCeiling` carries the policy's verdict on the clamped tier from the policy
check to the end, and `Explained` the threshold that sent an invocation to
`request_approval`.

*Refinement.* One lemma per operation of the store says which abstract step its
change of `checkpoints` is: `CreateAsks`, `ResolveMoves`, `ConsumeMoves`,
`SweepLapses`. An invocation's step changes `act` only when it ends allowed above
its threshold, and then (`CallStepActs`) it holds a torn ticket of its purpose
that nobody acted on; that is where single use and only-on-approval are used
again. Two facts are added to make the invariant inductive: only an approved
checkpoint is ever spent (`ConsumedApproved`), so a tear follows a grant, and
the sweeper's debts belong to no invocation (`SweepsOwnNothing`), so its failing
append ends nobody's call.

### Checkpoints, tool calls, the file

*`CheckpointAudit`.* `AuditInv` speaks of the entries logged and owed together:
each change has one of them (`EachOnce`), what an entry says has happened and
still holds (`NothingInvented`), and while no append has raised nothing is left
untold (`AllTold`). That a checkpoint's resolution is on record once then follows
from its being final, and `LogTellsTheStore` from nothing being owed at rest. A
sweep owes one entry for each checkpoint it expires, in any order, so its debts
are finite only because the checkpoints that exist are: `TypeInv` has that.

*`ToolCalls`.* `ToolInv` joins the ledger equation with `Capped` and `Budgeted`,
which speak of the counters and not of the calls, so that a grant preserves them
by its own guard, and `AsRegistered`, since a cap holds only as long as the scope
it was checked against. Calls that ended in a failed append are a
finite set no larger than the failures; the log may or may not show them. The sums of the ledger are folds over sets; as no fold
can be unrolled by induction here, `Sums` characterises them as functions on the
subsets of a finite set, and uniqueness is shown from a smallest subset on
which two of them differ. Adding a call to a session then adds its amount.

*`PersistentAuditLog`.* One thread at most is between the chain and the file, and
it writes the newest entry (`WritesTheLast`). `Kept`: an acknowledged entry is in
every file that loads, since whatever spoils a line makes the file unloadable and
nothing repairs it. `Numbered`: without a write error, entries are numbered by
place and the file is behind the chain by what is under way. `Verified`: chain
and file verify and carry the same digests, which is where `RoundTrips` is used.
`Placed` drops the "without a write error": in a file that verifies, each line's
number is its place *inside its digest*, so an inserted, removed, swapped or
rewritten line breaks a link or a digest.

### Locks

A method is a sequence, so what it does to the locks is a fact about sequences,
and it has to hold at every cut of it. `Stage` is what a thread has on its hands:
the locks it holds, the word about the switch it owes the log, and whether its
write is behind it. `Follows` is the discipline: what a step may do in a stage,
and the stage it leads to. `Runs(s, b, a)` says that stages lead through all of
`s` from `b` to `a`; `OneStep`, `OneAfterAnother` and `Within` (a `with` block)
put runs together, and `MethodsKeep` shows from them that every method starts
with no lock and ends with none. `OneStepOn` takes a run apart again, for the
step a thread makes. `LockInv` then says that each thread is in a stage from which
the rest of its method keeps the discipline, that a thread that owes the log a
word owes it what the flag says, and that when none does the log's last word is
the flag. Only the holder of the switch can owe one, so a reader in the switch
finds the two agree. After its write a method has only releases left, so an
exception there (`RaisingIsReturning`) leaves what a return leaves. A method whose
constraint asks its own registry never comes to the end; `Entangled` covers it, so
that types and `ReadersSeeTheRecord` need no hypothesis.

`NobodyWaitsInACircle` says that while calls are being made, some thread in one is
not waiting for a lock another holds: of all locks waited for take the last in
the order; its holder is in a call, and if it waited too, it would wait for a
later one. This is the safety half of `EveryCallReturns`.

### Policy loop and gate

*`InventoryPolicy`.* Revisions are never changed once made, so what was compiled
from one, decided under it and reported of it can be compared with it for ever.
`PolicyInv` says that a governor enforces exactly what some complete revision
compiles to, no older than the one its construction began with; `ActInv` that
every decision logged is the bundle's own and every answer within the bundle;
`ReportInv` that events tell what their entries say. The core is
`CompiledDecides`: the first match in the list of compiled rules (a block rule
per forbidden tool, a threshold pair per permitted one) is the decision the
bundle makes. The pairs are a `FlattenSeq` of a sequence of pairs, whose value
`FlattenedPairs` gives without induction.

*`DeploymentGate`.* `GateInv` says where in the file the run is, that every dict
behind it is sound, that results are those of the scenarios run (`Results`), and
that a tool's call count is the number of its allowed scenarios (`Counting`). A
scenario's outcome depends on the others only through that count, and the count
only matters to the cap; the counts of a shorter list of scenarios are not larger,
which gives `OutcomesAreFresh`.

*Lending.* `PaperInv` pins down every look a gate takes at its papers: `Bounded` has
`always` ⊆ `papers` ⊆ `ever`, `FoundSound` the same of the missing fields the
disclosure gate found, and `DecisionSound` of the decision that waits to be logged;
`EntrySound` carries it over to the entry, whose look at the fields is one more.
`RecordInv` adds the two properties of the log, which need each other: a disclosure
entry is in order because its applicant was past the credit gate, with the credit
permission as the latest entry (`ExecutedOnEvidence`), and an applicant is past a
gate only by a step that wrote the permission. Every step writes one entry
(`Writes`; so does a failed append that keeps it, which halts the workflow) or none
(`Quiet`).

### Only model-checked

* Liveness: `NothingPendingForever` and `EveryCallReturns`. Proving them needs
  `ENABLED` and well-founded induction, which the installed provers do not have.
  `NobodyWaitsInACircle` and `ResolutionsAreFinal` are the safety facts they
  rest on.
* The three refuted properties of section 6: what is proved is that they hold
  under the hypothesis whose failure the run shows (`GrantsOnApproval`,
  `CrashesRaiseNoAlarm`), or, for `persistent_log_write_error`, what remains true
  after a write error (`NothingLostQuietly`, `TamperingShows`).

Every invariant of the passing runs, the two action properties and the refinement
are proved.

## 6. Disagreements found

Each is a run that TLC ends with a counterexample, and an entry under
`findings` with the lines of the code and of the text it disagrees with.

| run | what happens |
|---|---|
| `governor_tightened` | a threshold lowered between `requires_approval` and `check_and_record` lets an above-threshold call through without an approval |
| `persistent_log_write_error` | after a failed write the in-memory chain keeps the entry, the next line links to it, and a reload reports tampering that never happened |
| `persistent_log_int_keys` | a payload with integer keys sorts differently before and after the JSON round trip: an untouched log fails its own verification |

Behaviour of the code a reader may not expect, which the models contain and the
passing properties are stated around:

* A call past the switch's check is granted while the switch is on;
  `HaltedCallsNeverAct` speaks of calls begun under the halt.
* A threshold *removed* between the two reads of `requires_approval` gives a
  refusal with neither a checkpoint nor a reason; `DenialExplained` and
  `NothingAboveTheCeiling` hold while scopes do not change (`ScopeChoices = {}`).
* An append that raises leaves the store changed, with no entry for good or, in a
  `PersistentAuditLog` whose write failed, with an entry the caller was told
  nothing of: a `tool_call_allowed` may be on record for a call that ended in an
  exception. `EvidenceComplete` and `EveryChargeIsOnRecord` speak of the callers
  that were told an answer, and allow exactly for the others.
* A retry of `report_event` after a lost answer stores the event twice.
* A config that lacks a required field ends in a `KeyError`, a traceback and exit
  code 1, the code of a governance gap, where `gate.py:35-38` and the package's
  README (lines 61-66) promise a `GateConfigError` and 2. It still never passes,
  which is what `FaultsNeverPass` states; that the code is not 2 it accepts.
* A credit report that stops being `retrieved` between the block rule's look and
  the allow rule's matches neither: the engine's default, REQUIRE_APPROVAL, is
  logged for a gate that means to answer BLOCK or ALLOW. Papers that change under
  a gate may be allowed although they were never complete at one moment, or leave
  a block on record with nothing missing. `DecidedOnOwnPapers` bounds what such an
  entry can mean.
* `verify` cannot see that lines are missing from the *end* of a file.

## 7. What is not modelled

* **Timestamps, reasons, notes, messages**: text in entries that no property
  tells apart; who resolved a checkpoint is kept, who engaged the switch is not.
* **Cryptography**: hashes and HMACs are injective and nobody else has the key;
  one change at a time is made to a file, not a chain re-signed with the key.
* **`add_rule` and hand-written conditions** after construction: the rule list
  is a constant of `Governor`, and grows rule by rule in `DeploymentGate`. This is
  why the policy engine is listed as partly modelled.
* **Floating point**: amounts and confidences are integers; NaN and rounding
  are out.
* **HTTP itself**: what can happen to an exchange is modelled, status codes,
  headers, timeouts in seconds and JSON text are not.
* **Reports and demos**: the gate's printed report, `invoice_agent_example.py` and
  `full_lifecycle_demo.py` (scripts that call the components in sequence), the
  lending demo's synthetic data and summary.
* **Crosswalk**: a constant table of references with no state.
