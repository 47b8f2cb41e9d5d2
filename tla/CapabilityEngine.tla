-------------------------- MODULE CapabilityEngine --------------------------
(***************************************************************************)
(* The capability engine of src/app/capability_engine.py: a manifest, a    *)
(* trust score per capability and a daily budget for each agent, saved to  *)
(* capabilities.json by every operation that changes them.                 *)
(*                                                                         *)
(* Trust and costs are in hundredths.  The code adds floats: a sum that    *)
(* should be exactly a threshold can be a little below it, or not.  The    *)
(* comparisons therefore take a rounding in 0..1 that the caller chooses,  *)
(* which matters only at the threshold itself.                             *)
(***************************************************************************)
EXTENDS Integers

CONSTANTS
    Agents,
    Capabilities,       \* CapabilityType
    HighRisk,           \* delete_file, restart_service, remove_route
    DailyBudget         \* 1000, 10.0 in the code

ASSUME EngineAssumption == HighRisk \subseteq Capabilities /\ DailyBudget \in Nat

VARIABLES
    manifests,          \* the capabilities of each agent, {} before it registers
    trust,
    spent,              \* spent_today
    saved               \* capabilities.json; ok is FALSE while it is cut short

engineVars == <<manifests, trust, spent, saved>>

Full       == 100
Rounding   == 0..1
Operations == {"write", "delete", "move", "restart", "reload"}
Words      == {"gateway", "auth", "config", "route", "chat", "memory"}
Paths      == {"none", "runtime", "forbidden", "outside"}

\* What the engines look at in a mutation request: size is its disk cost, names
\* are the words found in its target, path is where the target resolves to.
MutationKind ==
    [agent : Agents, capability : Capabilities, operation : Operations,
     size : 0..100, names : SUBSET Words, path : Paths, core : BOOLEAN,
     confidence : 0..100, token : BOOLEAN]

EngineType ==
    /\ manifests \in [Agents -> SUBSET Capabilities]
    /\ trust \in [Agents -> [Capabilities -> 0..Full]]
    /\ spent \in [Agents -> Nat]

\* Before any file exists: what _load_state() leaves.
EngineInit ==
    /\ manifests = [a \in Agents |-> {}]
    /\ trust = [a \in Agents |-> [c \in Capabilities |-> Full]]
    /\ spent = [a \in Agents |-> 0]
    /\ saved = [ok |-> TRUE, manifests |-> manifests, trust |-> trust, spent |-> spent]

SaveState ==
    saved' = [ok |-> TRUE, manifests |-> manifests', trust |-> trust', spent |-> spent']

LoadState ==
    /\ manifests' = saved.manifests
    /\ trust' = saved.trust
    /\ spent' = saved.spent
    /\ saved' = saved

-----------------------------------------------------------------------------
(* Checks and costs. *)

CheckPath(k) == k.path \in {"none", "runtime"}

RequiresApproval(a, c, r) == trust[a][c] < 70 + r
IsDisabled(a, c, r)       == trust[a][c] < 50 + r
IsOverBudget(a, b)        == spent[a] >= DailyBudget + b

\* Wrong on purpose, like the other definitions marked "Wrong": no budget.
CheckWithoutBudget(k, r, b) ==
    /\ k.capability \in manifests[k.agent]
    /\ ~IsDisabled(k.agent, k.capability, r)
    /\ RequiresApproval(k.agent, k.capability, r) => k.token
    /\ CheckPath(k)

\* A revoked capability is disabled as well, so it needs no conjunct of its own.
CheckCapability(k, r, b) ==
    /\ k.capability \in manifests[k.agent]
    /\ ~IsDisabled(k.agent, k.capability, r)
    /\ RequiresApproval(k.agent, k.capability, r) => k.token
    /\ CheckPath(k)
    /\ ~IsOverBudget(k.agent, b)

CpuCost(k) ==
    IF k.operation \in {"write", "move"} THEN 20
    ELSE IF k.operation = "restart" THEN 50 ELSE 10

BlastCost(k) ==
    IF "gateway" \in k.names THEN 80
    ELSE IF "auth" \in k.names THEN 90
    ELSE IF "config" \in k.names THEN 50 ELSE 20

RiskCost(k) == IF k.capability \in HighRisk THEN 60 ELSE 20

CalculateCost(k) == CpuCost(k) + k.size + BlastCost(k) + RiskCost(k)

\* The most a mutation can cost.
MaxCost == 300

-----------------------------------------------------------------------------
(* What changes the engine. *)

\* Wrong: registers a known agent anew.
RegisterAnew(a, capabilities) ==
    /\ manifests' = [manifests EXCEPT ![a] = capabilities]
    /\ trust' = [trust EXCEPT ![a] = [c \in Capabilities |-> Full]]
    /\ spent' = [spent EXCEPT ![a] = 0]
    /\ SaveState

\* An agent that is known is given its manifest back; no capabilities means all.
RegisterAgent(a, capabilities) ==
    /\ manifests[a] = {}
    /\ manifests' = [manifests EXCEPT ![a] = capabilities]
    /\ trust' = [trust EXCEPT ![a] = [c \in Capabilities |-> Full]]
    /\ spent' = [spent EXCEPT ![a] = 0]
    /\ SaveState

UpdateSuccess(t) == IF t < Full THEN t + 1 ELSE Full

UpdateFailure(t) == IF t > 10 THEN t - 10 ELSE 0

RecordSuccess(k) ==
    /\ trust' = [trust EXCEPT ![k.agent][k.capability] = UpdateSuccess(@)]
    /\ spent' = [spent EXCEPT ![k.agent] = @ + CalculateCost(k)]
    /\ UNCHANGED manifests
    /\ SaveState

\* Wrong: leaves the file for the next operation to write.
RecordUnsaved(k) ==
    /\ trust' = [trust EXCEPT ![k.agent][k.capability] = UpdateFailure(@)]
    /\ UNCHANGED <<manifests, spent, saved>>

\* record_failure() and record_rollback() take the same 0.10.
RecordFailure(k) ==
    /\ trust' = [trust EXCEPT ![k.agent][k.capability] = UpdateFailure(@)]
    /\ UNCHANGED <<manifests, spent>>
    /\ SaveState

ResetDailyBudgets ==
    /\ spent' = [a \in Agents |-> 0]
    /\ UNCHANGED <<manifests, trust>>
    /\ SaveState
=============================================================================
