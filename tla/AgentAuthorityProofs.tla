------------------------ MODULE AgentAuthorityProofs ------------------------
(***************************************************************************)
(* Theorems about AgentAuthority, for any finite set of requests, any      *)
(* kinds of mutations, any grammar and any budget.                         *)
(***************************************************************************)
EXTENDS AgentAuthority, FiniteSetTheorems, TLAPS

\* What a request has passed at the door stays true while it is in progress:
\* its path does not change and no manifest shrinks.
Admitted ==
    \A m \in Requests : pc[m] # "idle" =>
        /\ kind[m].capability \in manifests[kind[m].agent]
        /\ CheckPath(kind[m])

Inv == TypeOK /\ Durable /\ Admitted /\ RunsChecked

-----------------------------------------------------------------------------
(* Costs and sets of requests. *)

\* A mutation costs something, and not more than MaxCost.
LEMMA CostBounded ==
    ASSUME NEW k \in MutationKind
    PROVE  CalculateCost(k) \in 0..MaxCost
<1>1. k.size \in 0..100 BY DEF MutationKind
<1>2. CpuCost(k) \in 10..50 BY DEF CpuCost
<1>3. BlastCost(k) \in 20..90 BY DEF BlastCost
<1>4. RiskCost(k) \in 20..60 BY DEF RiskCost
<1>5. \A p \in 10..50, q \in 0..100, r \in 20..90, t \in 20..60 : p + q + r + t \in 0..300
  OBVIOUS
<1> QED BY <1>1, <1>2, <1>3, <1>4, <1>5, Zenon DEF CalculateCost, MaxCost

\* Requests in progress are finitely many, and no more than there are requests.
LEMMA SomeRequests ==
    ASSUME NEW S, S \subseteq Requests
    PROVE  /\ IsFiniteSet(S) /\ Cardinality(S) \in Nat
           /\ Cardinality(Requests) \in Nat
           /\ Cardinality(S) <= Cardinality(Requests)
<1>1. IsFiniteSet(Requests) BY AuthorityAssumption
<1>2. IsFiniteSet(S) /\ Cardinality(S) <= Cardinality(Requests) BY <1>1, FS_Subset
<1> QED BY <1>1, <1>2, FS_CardinalityType

\* One request more or less in a set of them.
LEMMA OneMore ==
    ASSUME NEW S, S \subseteq Requests, NEW m \in Requests, m \notin S
    PROVE  Cardinality(S \cup {m}) = Cardinality(S) + 1
BY SomeRequests, FS_AddElement

\* And one fewer takes one away.
LEMMA OneLess ==
    ASSUME NEW S, S \subseteq Requests, NEW m \in S
    PROVE  Cardinality(S \ {m}) = Cardinality(S) - 1
BY SomeRequests, FS_RemoveElement

\* What a request in progress is.
LEMMA InProgressKind ==
    ASSUME TypeOK, NEW m \in Requests, pc[m] # "idle"
    PROVE  /\ kind[m] \in Kinds /\ kind[m] \in MutationKind
           /\ kind[m].agent \in Agents /\ kind[m].capability \in Capabilities
<1>1. kind[m] \in Kinds BY DEF TypeOK
<1>2. kind[m] \in MutationKind BY <1>1, AuthorityAssumption
<1> QED BY <1>1, <1>2 DEF MutationKind

\* A request that enters joins the sets of its agent and capability only.
LEMMA Entering ==
    ASSUME TypeOK, NEW m \in Requests, NEW k \in Kinds, Enter(m, k), NEW a
    PROVE  /\ InProgress(a)' = IF k.agent = a THEN InProgress(a) \cup {m} ELSE InProgress(a)
           /\ m \notin InProgress(a)
           /\ \A c : ~(k.agent = a /\ k.capability = c) => Using(a, c)' = Using(a, c)
<1>1. pc[m] = "idle" BY DEF Enter
<1>2. \A n \in Requests : n # m => pc'[n] = pc[n] /\ kind'[n] = kind[n]
  BY DEF Enter, TypeOK
<1>3. pc'[m] = "governance" /\ kind'[m] = k BY DEF Enter, TypeOK
<1> QED BY <1>1, <1>2, <1>3 DEF InProgress, Using

\* A request that leaves, leaves all of them.
LEMMA Leaving ==
    ASSUME TypeOK, NEW m \in Requests, Leave(m), NEW a
    PROVE  /\ InProgress(a)' = InProgress(a) \ {m}
           /\ \A c : Using(a, c)' = Using(a, c) \ {m}
<1>1. \A n \in Requests : n # m => pc'[n] = pc[n] /\ kind'[n] = kind[n]
  BY DEF Leave, TypeOK
<1>2. pc'[m] = "idle" BY DEF Leave, TypeOK
<1> QED BY <1>1, <1>2 DEF InProgress, Using

\* The steps that keep all of them.
LEMMA Staying ==
    ASSUME TypeOK, NEW a,
           UNCHANGED requestVars \/ \E m \in Requests : GovernanceApproves(m)
    PROVE  InProgress(a)' = InProgress(a) /\ \A c : Using(a, c)' = Using(a, c)
<1>1. kind' = kind /\ \A n \in Requests : pc'[n] = "idle" <=> pc[n] = "idle"
  BY DEF requestVars, GovernanceApproves, TypeOK
<1> QED BY <1>1 DEF InProgress, Using

\* After a crash nothing is in progress.
LEMMA Forgotten ==
    ASSUME Forget, NEW a
    PROVE  InProgress(a)' = {} /\ \A c : Using(a, c)' = {}
BY DEF Forget, InProgress, Using

-----------------------------------------------------------------------------
(* The engine: each of its operations keeps its types and writes its file. *)

\* Trust stays between 0 and 1 whatever succeeds or fails.
LEMMA TrustRange ==
    ASSUME NEW t \in 0..Full
    PROVE  UpdateSuccess(t) \in 0..Full /\ UpdateFailure(t) \in 0..Full
BY DEF UpdateSuccess, UpdateFailure, Full

\* The four ways to change the engine.
EngineStep ==
    \/ \E k \in MutationKind : RecordSuccess(k) \/ RecordFailure(k)
    \/ \E a \in Agents, capabilities \in SUBSET Capabilities : RegisterAgent(a, capabilities)
    \/ ResetDailyBudgets
    \/ \E s \in Measurement : ExecuteActions(s)

\* Each of them ends in _save_state().
LEMMA EngineSaves ==
    ASSUME EngineStep
    PROVE  Durable'
<1>1. SaveState
  BY DEF EngineStep, RecordSuccess, RecordFailure, RegisterAgent, ResetDailyBudgets,
         ExecuteActions
<1> QED BY <1>1 DEF SaveState, Durable

\* Each keeps the types, and no manifest shrinks.
LEMMA EngineKeepsType ==
    ASSUME EngineType, EngineStep
    PROVE  EngineType' /\ \A a \in Agents : manifests[a] \subseteq manifests'[a]
<1>1. ASSUME NEW k \in MutationKind, RecordSuccess(k)
      PROVE  EngineType' /\ manifests' = manifests
  <2>1. k.agent \in Agents /\ k.capability \in Capabilities BY DEF MutationKind
  <2>2. CalculateCost(k) \in Nat BY CostBounded DEF MaxCost
  <2>3. trust' \in [Agents -> [Capabilities -> 0..Full]]
    BY <1>1, <2>1, TrustRange DEF RecordSuccess, EngineType
  <2>4. spent' \in [Agents -> Nat] BY <1>1, <2>1, <2>2 DEF RecordSuccess, EngineType
  <2> QED BY <1>1, <2>3, <2>4 DEF RecordSuccess, EngineType
<1>2. ASSUME NEW k \in MutationKind, RecordFailure(k)
      PROVE  EngineType' /\ manifests' = manifests
  <2>1. k.agent \in Agents /\ k.capability \in Capabilities BY DEF MutationKind
  <2>2. trust' \in [Agents -> [Capabilities -> 0..Full]]
    BY <1>2, <2>1, TrustRange DEF RecordFailure, EngineType
  <2> QED BY <1>2, <2>2 DEF RecordFailure, EngineType
<1>3. ASSUME NEW a \in Agents, NEW capabilities \in SUBSET Capabilities,
             RegisterAgent(a, capabilities)
      PROVE  EngineType' /\ \A b \in Agents : manifests[b] \subseteq manifests'[b]
  BY <1>3 DEF RegisterAgent, EngineType, Full
<1>4. ASSUME ResetDailyBudgets
      PROVE  EngineType' /\ manifests' = manifests
  BY <1>4 DEF ResetDailyBudgets, EngineType
<1>5. ASSUME NEW s \in Measurement, ExecuteActions(s)
      PROVE  EngineType' /\ manifests' = manifests
  <2>1. \A a \in Agents, c \in Capabilities : RevokeThenDowngrade(s, a, c) \in 0..Full
    BY TrustRange DEF RevokeThenDowngrade, EngineType, Full
  <2>2. trust' \in [Agents -> [Capabilities -> 0..Full]]
    BY <1>5, <2>1 DEF ExecuteActions, EngineType
  <2> QED BY <1>5, <2>2 DEF ExecuteActions, EngineType
<1> QED BY <1>1, <1>2, <1>3, <1>4, <1>5 DEF EngineStep

-----------------------------------------------------------------------------
(* The invariant. *)

\* What a step does to the engine: nothing, one of its operations, or a restart.
LEMMA EngineNext ==
    ASSUME Inv, [Next]_vars
    PROVE  \/ UNCHANGED engineVars
           \/ EngineStep
           \/ Crash /\ saved.ok
           \/ CrashInSave /\ saved.ok
<1>1. ASSUME NEW m \in Requests, Request(m)
      PROVE  UNCHANGED engineVars \/ EngineStep
  <2>1. ASSUME pc[m] # "idle" PROVE kind[m] \in MutationKind
    BY <2>1, InProgressKind DEF Inv
  <2>2. CASE GovernanceRejects(m) \/ Succeeds(m) \/ Fails(m)
    BY <2>1, <2>2 DEF GovernanceRejects, Succeeds, Fails, EngineStep
  <2>3. CASE \/ \E k \in Kinds : Enter(m, k)
             \/ GovernanceDefers(m) \/ GovernanceApproves(m) \/ NotRolledBack(m)
    BY <2>3 DEF Enter, GovernanceDefers, GovernanceApproves, NotRolledBack
  <2> QED BY <1>1, <2>2, <2>3 DEF Request
<1>2. CASE Endpoint
  BY <1>2 DEF Endpoint, Register, Decide, ResetBudgets, Evaluate, EngineStep
<1> QED BY <1>1, <1>2 DEF Next, vars

\* What a step does to the requests.
LEMMA RequestsNext ==
    ASSUME [Next]_vars
    PROVE  \/ UNCHANGED requestVars
           \/ \E m \in Requests, k \in Kinds : Enter(m, k)
           \/ \E m \in Requests : GovernanceApproves(m)
           \/ \E m \in Requests : pc[m] # "idle" /\ Leave(m)
           \/ Forget
<1>1. ASSUME NEW m \in Requests, Request(m)
      PROVE  \/ \E k \in Kinds : Enter(m, k)
             \/ GovernanceApproves(m)
             \/ pc[m] # "idle" /\ Leave(m)
  BY <1>1 DEF Request, GovernanceRejects, GovernanceDefers, Succeeds, Fails, NotRolledBack
<1>2. CASE Endpoint
  BY <1>2 DEF Endpoint, Register, Decide, ResetBudgets, Evaluate, requestVars
<1>3. CASE Crash \/ CrashInSave BY <1>3 DEF Crash, CrashInSave
<1> QED BY <1>1, <1>2, <1>3 DEF Next, vars

\* What waits for approval are requests.
LEMMA PendingNext ==
    ASSUME Inv, [Next]_vars
    PROVE  pending' \subseteq Requests
<1>1. pending \subseteq Requests BY DEF Inv, TypeOK
<1>2. ASSUME NEW m \in Requests, Request(m)
      PROVE  pending' \subseteq Requests
  BY <1>1, <1>2 DEF Request, Enter, GovernanceRejects, GovernanceDefers,
                    GovernanceApproves, Succeeds, Fails, NotRolledBack
<1>3. CASE Endpoint
  BY <1>1, <1>3 DEF Endpoint, Register, Decide, DecidePending, ResetBudgets, Evaluate
<1>4. CASE Crash \/ CrashInSave BY <1>4 DEF Crash, CrashInSave, Forget
<1> QED BY <1>1, <1>2, <1>3, <1>4 DEF Next, vars

\* The engine's part of the invariant; manifests never shrink.
LEMMA EngineInv ==
    ASSUME Inv, [Next]_vars
    PROVE  EngineType' /\ Durable' /\ \A a \in Agents : manifests[a] \subseteq manifests'[a]
<1>1. EngineType BY DEF Inv, TypeOK
<1>2. CASE UNCHANGED engineVars
  BY <1>1, <1>2 DEF Inv, engineVars, EngineType, Durable
<1>3. CASE EngineStep BY <1>1, <1>3, EngineKeepsType, EngineSaves
<1>4. CASE Crash /\ saved.ok
  BY <1>1, <1>4 DEF Inv, Crash, LoadState, EngineType, Durable
<1>5. CASE CrashInSave /\ saved.ok
  BY <1>1, <1>5 DEF Inv, CrashInSave, EngineType, Durable
<1> QED BY <1>2, <1>3, <1>4, <1>5, EngineNext

\* What a mutation that is approved fulfils.
Checked(k) ==
    /\ ~k.core /\ k.confidence >= 60
    /\ \/ k.token
       \/ /\ Cardinality(BlastRadius(k)) <= 2
          /\ Strict => k.capability \notin HighRisk

\* What governance approves has passed its rules.
LEMMA VerdictChecks ==
    ASSUME NEW k \in MutationKind, Verdict(k) = "approved"
    PROVE  Checked(k)
<1>1. ~Rejected(k) /\ ~NeedsHuman(k) BY DEF Verdict
<1>2. ~k.core /\ k.confidence >= 60 BY <1>1 DEF Rejected, MutationKind
<1>3. Cardinality(BlastRadius(k)) \in Nat
  <2>1. IsFiniteSet(Services \cup {"unknown"})
    <3>1. \A w : IsFiniteSet({w}) BY FS_Singleton
    <3>2. IsFiniteSet({"gateway"} \cup {"auth"}) BY <3>1, FS_Union
    <3>3. IsFiniteSet({"chat"} \cup {"memory"}) BY <3>1, FS_Union
    <3>4. IsFiniteSet(({"gateway"} \cup {"auth"}) \cup ({"chat"} \cup {"memory"}))
      BY <3>2, <3>3, FS_Union
    <3>5. Services = ({"gateway"} \cup {"auth"}) \cup ({"chat"} \cup {"memory"})
      BY DEF Services, Words
    <3> QED BY <3>1, <3>4, <3>5, FS_Union
  <2>2. BlastRadius(k) \subseteq Services \cup {"unknown"}
    BY DEF BlastRadius, Services, Words
  <2> QED BY <2>1, <2>2, FS_Subset, FS_CardinalityType
<1>4. k.token \/ (Cardinality(BlastRadius(k)) <= 2 /\ (Strict => k.capability \notin HighRisk))
  BY <1>1, <1>3 DEF NeedsHuman
<1> QED BY <1>2, <1>4 DEF Checked

\* The requests' part of the invariant: a request enters with a capability of its
\* agent and an allowed path, and runs only if the verdict on it is "approved".
LEMMA RequestsInv ==
    ASSUME Inv, [Next]_vars
    PROVE  /\ pc' \in [Requests -> {"idle", "governance", "running"}]
           /\ kind' \in [Requests -> Kinds \cup {NoKind}]
           /\ \A m \in Requests : pc'[m] = "idle" <=> kind'[m] = NoKind
           /\ Admitted'
           /\ RunsChecked'
<1> DEFINE New(m) == /\ kind'[m] \in Kinds
                     /\ kind'[m].capability \in manifests[kind'[m].agent]
                     /\ CheckPath(kind'[m])
                     /\ pc'[m] = "running" => Checked(kind'[m])
           Goal == /\ pc' \in [Requests -> {"idle", "governance", "running"}]
                   /\ kind' \in [Requests -> Kinds \cup {NoKind}]
                   /\ \A m \in Requests : /\ pc'[m] = "idle" <=> kind'[m] = NoKind
                                          /\ pc'[m] # "idle" => New(m)
<1>1. TypeOK /\ NoKind \notin Kinds BY AuthorityAssumption DEF Inv
<1>2. \A m \in Requests : pc[m] # "idle" =>
          /\ kind[m] \in Kinds
          /\ kind[m].capability \in manifests[kind[m].agent]
          /\ CheckPath(kind[m])
          /\ pc[m] = "running" => Checked(kind[m])
  BY InProgressKind DEF Inv, Admitted, RunsChecked, Checked
<1>3. ASSUME UNCHANGED requestVars
      PROVE  Goal
  BY <1>1, <1>2, <1>3 DEF requestVars, TypeOK
<1>4. ASSUME NEW m \in Requests, NEW k \in Kinds, Enter(m, k)
      PROVE  Goal
  <2>1. k.capability \in manifests[k.agent] /\ CheckPath(k)
    BY <1>4 DEF Enter, CheckCapability
  <2>2. /\ pc' = [pc EXCEPT ![m] = "governance"]
        /\ kind' = [kind EXCEPT ![m] = k]
    BY <1>4 DEF Enter
  <2>3. pc \in [Requests -> {"idle", "governance", "running"}]
        /\ kind \in [Requests -> Kinds \cup {NoKind}]
        /\ \A n \in Requests : pc[n] = "idle" <=> kind[n] = NoKind
    BY <1>1 DEF TypeOK
  <2>4. New(m) BY <2>1, <2>2, <2>3
  <2>5. \A n \in Requests \ {m} : pc'[n] = pc[n] /\ kind'[n] = kind[n] BY <2>2, <2>3
  <2>6. pc'[m] = "governance" /\ kind'[m] = k BY <2>2, <2>3
  <2>7. \A n \in Requests \ {m} : pc'[n] # "idle" => New(n) BY <1>2, <2>5
  <2> QED BY <1>1, <2>2, <2>3, <2>4, <2>5, <2>6, <2>7
<1>5. ASSUME NEW m \in Requests, GovernanceApproves(m)
      PROVE  Goal
  <2>1. kind' = kind /\ pc' = [pc EXCEPT ![m] = "running"] /\ pc[m] = "governance"
    BY <1>5 DEF GovernanceApproves
  <2>2. Checked(kind[m])
    BY <1>1, <1>5, <2>1, InProgressKind, VerdictChecks DEF GovernanceApproves
  <2> QED BY <1>1, <1>2, <2>1, <2>2 DEF TypeOK
<1>6. ASSUME NEW m \in Requests, Leave(m)
      PROVE  Goal
  BY <1>1, <1>2, <1>6 DEF Leave, TypeOK
<1>7. ASSUME Forget PROVE Goal BY <1>7 DEF Forget
<1>8. Goal
  <2> HIDE DEF Goal
  <2> QED BY <1>3, <1>4, <1>5, <1>6, <1>7, RequestsNext
<1>9. \A k \in Kinds : k.agent \in Agents
  BY AuthorityAssumption DEF MutationKind
<1>10. \A m \in Requests : pc'[m] # "idle" =>
           kind'[m].capability \in manifests'[kind'[m].agent]
  BY <1>8, <1>9, EngineInv
<1> QED BY <1>8, <1>10 DEF Admitted, RunsChecked, CheckPath, Checked

\* The initial state.
LEMMA InvInit == Init => Inv
<1> SUFFICES ASSUME Init PROVE Inv OBVIOUS
<1>1. NoKind \notin Kinds BY AuthorityAssumption
<1>2. TypeOK BY <1>1 DEF Init, EngineInit, TypeOK, EngineType, Full
<1>3. Durable BY DEF Init, EngineInit, Durable
<1>4. Admitted /\ RunsChecked BY DEF Init, Admitted, RunsChecked
<1> QED BY <1>2, <1>3, <1>4 DEF Inv

\* Every step keeps the invariant.
LEMMA InvNext == Inv /\ [Next]_vars => Inv'
BY EngineInv, RequestsInv, PendingNext DEF Inv, TypeOK

\* Every state has Inv.
LEMMA InvAlways == Spec => []Inv
BY InvInit, InvNext, PTL DEF Spec

\* Type correctness: trust stays between 0 and 1, and a request has a mutation
\* exactly while it is in progress.
THEOREM AuthorityTypeCorrect == Spec => []TypeOK
BY InvAlways, PTL DEF Inv

\* The file, while it is whole, holds what is in memory, whatever the operations
\* between two crashes.
THEOREM AuthorityIsDurable == Spec => []Durable
BY InvAlways, PTL DEF Inv

\* No request runs that the checks of either engine should have stopped; they
\* look at the target of an operation, not at what a move takes from where.
THEOREM RunningIsChecked == Spec => []RunsChecked
BY InvAlways, PTL DEF Inv

-----------------------------------------------------------------------------
(* The budget. *)

\* A request enters while the agent has spent its budget at most, and what it
\* spends when it succeeds it then no longer owes.
LEMMA OverspendNext ==
    ASSUME Inv, OverspendBounded, [Next]_vars
    PROVE  OverspendBounded'
<1> USE DEF MaxCost
<1> SUFFICES ASSUME NEW a \in Agents
             PROVE  spent'[a] + 300 * Cardinality(InProgress(a)')
                        <= DailyBudget + 300 * Cardinality(Requests)
  BY DEF OverspendBounded
<1>1. TypeOK BY DEF Inv
<1>2. spent[a] \in Nat /\ DailyBudget \in Nat
  BY <1>1, EngineAssumption DEF TypeOK, EngineType
<1>3. /\ Cardinality(InProgress(a)) \in Nat /\ Cardinality(Requests) \in Nat
      /\ InProgress(a) \subseteq Requests
  BY SomeRequests DEF InProgress
<1>4. spent[a] + 300 * Cardinality(InProgress(a)) <= DailyBudget + 300 * Cardinality(Requests)
  BY DEF OverspendBounded
\* Not spending more, with no more requests in progress, keeps the bound.
<1>5. ASSUME NEW n \in Nat, NEW s \in Nat,
             n <= Cardinality(InProgress(a)), s <= spent[a]
      PROVE  s + 300 * n <= DailyBudget + 300 * Cardinality(Requests)
  BY <1>2, <1>3, <1>4, <1>5
<1>6. CASE \E m \in Requests : GovernanceRejects(m) \/ GovernanceDefers(m) \/ Fails(m)
                                  \/ NotRolledBack(m)
  <2>1. PICK m \in Requests : Leave(m) /\ spent' = spent
    BY <1>6 DEF GovernanceRejects, GovernanceDefers, Fails, NotRolledBack, RecordFailure,
                engineVars
  <2>2. InProgress(a)' = InProgress(a) \ {m} BY <1>1, <2>1, Leaving
  <2>3. /\ Cardinality(InProgress(a) \ {m}) \in Nat
        /\ Cardinality(InProgress(a) \ {m}) <= Cardinality(InProgress(a))
    BY <1>3, SomeRequests, FS_Subset
  <2> QED BY <1>2, <1>5, <2>1, <2>2, <2>3
<1>7. ASSUME NEW m \in Requests, Succeeds(m)
      PROVE  spent'[a] + 300 * Cardinality(InProgress(a)')
                 <= DailyBudget + 300 * Cardinality(Requests)
  <2>1. /\ pc[m] # "idle" /\ Leave(m)
        /\ spent' = [spent EXCEPT ![kind[m].agent] = @ + CalculateCost(kind[m])]
    BY <1>7 DEF Succeeds, RecordSuccess
  <2>2. InProgress(a)' = InProgress(a) \ {m} BY <1>1, <2>1, Leaving
  <2>3. CASE kind[m].agent = a
    <3>1. m \in InProgress(a) BY <2>1, <2>3 DEF InProgress
    <3>2. Cardinality(InProgress(a)') = Cardinality(InProgress(a)) - 1
      BY <1>3, <2>2, <3>1, OneLess
    <3>3. CalculateCost(kind[m]) \in 0..300
      BY <1>1, <2>1, InProgressKind, CostBounded
    <3>4. spent'[a] = spent[a] + CalculateCost(kind[m])
      BY <1>1, <2>1, <2>3 DEF TypeOK, EngineType
    <3> QED BY <1>2, <1>3, <1>4, <3>2, <3>3, <3>4
  <2>4. CASE kind[m].agent # a
    <3>1. m \notin InProgress(a) BY <2>4 DEF InProgress
    <3>2. InProgress(a)' = InProgress(a) BY <2>2, <3>1
    <3>3. spent'[a] = spent[a] BY <1>1, <2>1, <2>4 DEF TypeOK, EngineType
    <3> QED BY <1>4, <3>2, <3>3
  <2> QED BY <2>3, <2>4
<1>8. ASSUME NEW m \in Requests, NEW k \in Kinds, Enter(m, k)
      PROVE  spent'[a] + 300 * Cardinality(InProgress(a)')
                 <= DailyBudget + 300 * Cardinality(Requests)
  <2>1. spent' = spent BY <1>8 DEF Enter, engineVars
  <2>2. CASE k.agent = a
    <3>1. \E b \in Rounding : ~(spent[a] >= DailyBudget + b)
      BY <1>8, <2>2 DEF Enter, CheckCapability, IsOverBudget
    <3>2. spent[a] <= DailyBudget BY <1>2, <3>1 DEF Rounding
    <3>3. InProgress(a)' \subseteq Requests /\ Cardinality(InProgress(a)') \in Nat
          /\ Cardinality(InProgress(a)') <= Cardinality(Requests)
      <4>1. InProgress(a)' = InProgress(a) \cup {m} BY <1>1, <1>8, <2>2, Entering
      <4> QED BY <1>3, <4>1, SomeRequests
    <3> QED BY <1>2, <1>3, <2>1, <3>2, <3>3
  <2>3. CASE k.agent # a
    <3>1. InProgress(a)' = InProgress(a) BY <1>1, <1>8, <2>3, Entering
    <3> QED BY <1>4, <2>1, <3>1
  <2> QED BY <2>2, <2>3
<1>9. CASE \/ \E m \in Requests : GovernanceApproves(m)
           \/ Endpoint \/ UNCHANGED vars
  <2>1. spent'[a] \in Nat /\ spent'[a] <= spent[a]
    <3>1. CASE \E b \in Agents, capabilities \in SUBSET Capabilities :
                  Register(b, capabilities)
      BY <1>1, <1>2, <3>1 DEF Register, RegisterAgent, TypeOK, EngineType
    <3>2. CASE ResetBudgets
      BY <1>1, <1>2, <3>2 DEF ResetBudgets, ResetDailyBudgets, TypeOK, EngineType
    <3>3. CASE spent' = spent BY <1>2, <3>3
    <3> QED BY <1>9, <3>1, <3>2, <3>3 DEF GovernanceApproves, Endpoint, Decide, Evaluate,
            ExecuteActions, engineVars, vars
  <2>2. InProgress(a)' = InProgress(a)
    <3>1. UNCHANGED requestVars \/ \E m \in Requests : GovernanceApproves(m)
      BY <1>9 DEF Endpoint, Register, Decide, ResetBudgets, Evaluate, requestVars, vars
    <3> QED BY <1>1, <3>1, Staying
  <2> QED BY <1>3, <1>5, <2>1, <2>2
<1>10. CASE saved.ok /\ (Crash \/ CrashInSave)
  <2>1. spent'[a] = spent[a]
    BY <1>10 DEF Inv, Durable, Crash, LoadState, CrashInSave
  <2>2. Cardinality(InProgress(a)') = 0
    BY <1>10, Forgotten, FS_EmptySet DEF Crash, CrashInSave
  <2> QED BY <1>2, <1>3, <1>5, <2>1, <2>2
<1> QED BY <1>6, <1>7, <1>8, <1>9, <1>10 DEF Next, Request

\* Nothing is owed at first.
LEMMA OverspendInit == Init => OverspendBounded
<1> USE DEF MaxCost
<1> SUFFICES ASSUME Init, NEW a \in Agents
             PROVE  spent[a] + 300 * Cardinality(InProgress(a))
                        <= DailyBudget + 300 * Cardinality(Requests)
  BY DEF OverspendBounded
<1>1. spent[a] = 0 BY DEF Init, EngineInit
<1>2. InProgress(a) = {} BY DEF Init, InProgress
<1>3. Cardinality(InProgress(a)) = 0 BY <1>2, FS_EmptySet
<1>4. Cardinality(Requests) \in Nat BY SomeRequests
<1> QED BY <1>1, <1>3, <1>4, EngineAssumption

\* An agent overspends by the mutations let in together, and not by more,
\* whatever the budget and however many they are.
THEOREM OverspendIsBounded == Spec => []OverspendBounded
BY InvAlways, OverspendInit, OverspendNext, PTL DEF Spec

-----------------------------------------------------------------------------
(* Trust. *)

\* A step that lets nobody in and raises no trust lowers the potential; one that
\* raises trust ends a request; and nobody is let in on a disabled capability.
LEMMA PotentialNext ==
    ASSUME Inv, [Next]_vars, NEW a \in Agents, NEW c \in Capabilities,
           c \in manifests[a], Potential(a, c) < 50
    PROVE  Potential(a, c)' < 50
<1>1. TypeOK BY DEF Inv
<1>2. trust[a][c] \in 0..100 BY <1>1 DEF TypeOK, EngineType, Full
<1>3. Using(a, c) \subseteq Requests /\ Cardinality(Using(a, c)) \in Nat
  BY SomeRequests DEF Using
<1>4. trust[a][c] + Cardinality(Using(a, c)) < 50 BY DEF Potential
<1>5. ASSUME NEW n \in Nat, NEW t \in 0..100,
             n <= Cardinality(Using(a, c)), t <= trust[a][c]
      PROVE  t + n < 50
  BY <1>2, <1>3, <1>4, <1>5
<1>6. \A t, u \in 0..100 : t <= u => UpdateFailure(t) \in 0..100 /\ UpdateFailure(t) <= u
  BY DEF UpdateFailure
<1>7. CASE \E m \in Requests : GovernanceRejects(m) \/ GovernanceDefers(m) \/ Fails(m)
                                  \/ NotRolledBack(m)
  <2>1. PICK m \in Requests : GovernanceRejects(m) \/ GovernanceDefers(m) \/ Fails(m)
                                  \/ NotRolledBack(m)
    BY <1>7
  <2>2. pc[m] # "idle" /\ Leave(m) /\ (trust' = trust \/ RecordFailure(kind[m]))
    BY <2>1 DEF GovernanceRejects, GovernanceDefers, Fails, NotRolledBack, engineVars
  <2>3. trust'[a][c] \in 0..100 /\ trust'[a][c] <= trust[a][c]
    <3>1. CASE trust' = trust BY <1>2, <3>1
    <3>2. CASE RecordFailure(kind[m])
      <4>1. trust' = [trust EXCEPT ![kind[m].agent][kind[m].capability] = UpdateFailure(@)]
        BY <3>2 DEF RecordFailure
      <4>2. trust'[a][c] = trust[a][c] \/ trust'[a][c] = UpdateFailure(trust[a][c])
        BY <1>1, <2>2, <4>1, InProgressKind DEF TypeOK, EngineType
      <4>3. trust[a][c] <= trust[a][c] BY <1>2
      <4> QED BY <1>2, <1>6, <4>2, <4>3
    <3> QED BY <2>2, <3>1, <3>2
  <2>4. Using(a, c)' = Using(a, c) \ {m} BY <1>1, <2>2, Leaving
  <2>5. /\ Cardinality(Using(a, c) \ {m}) \in Nat
        /\ Cardinality(Using(a, c) \ {m}) <= Cardinality(Using(a, c))
    BY <1>3, SomeRequests, FS_Subset
  <2> QED BY <1>5, <2>3, <2>4, <2>5 DEF Potential
<1>8. ASSUME NEW m \in Requests, Succeeds(m)
      PROVE  Potential(a, c)' < 50
  <2>1. /\ pc[m] # "idle" /\ Leave(m)
        /\ trust' = [trust EXCEPT ![kind[m].agent][kind[m].capability] = UpdateSuccess(@)]
    BY <1>8 DEF Succeeds, RecordSuccess
  <2>2. Using(a, c)' = Using(a, c) \ {m} BY <1>1, <2>1, Leaving
  <2>3. CASE kind[m].agent = a /\ kind[m].capability = c
    <3>1. m \in Using(a, c) BY <2>1, <2>3 DEF Using
    <3>2. Cardinality(Using(a, c)') = Cardinality(Using(a, c)) - 1
      BY <1>3, <2>2, <3>1, OneLess
    <3>3. trust'[a][c] = UpdateSuccess(trust[a][c])
      BY <1>1, <2>1, <2>3 DEF TypeOK, EngineType
    <3>4. trust'[a][c] = trust[a][c] + 1
      BY <1>2, <1>3, <1>4, <3>3 DEF UpdateSuccess, Full
    <3> QED BY <1>2, <1>3, <1>4, <3>2, <3>4 DEF Potential
  <2>4. CASE ~(kind[m].agent = a /\ kind[m].capability = c)
    <3>1. m \notin Using(a, c) BY <2>4 DEF Using
    <3>2. Using(a, c)' = Using(a, c) BY <2>2, <3>1
    <3>3. trust'[a][c] = trust[a][c]
      BY <1>1, <2>1, <2>4, InProgressKind DEF TypeOK, EngineType
    <3> QED BY <1>4, <3>2, <3>3 DEF Potential
  <2> QED BY <2>3, <2>4
<1>9. ASSUME NEW m \in Requests, NEW k \in Kinds, Enter(m, k)
      PROVE  Potential(a, c)' < 50
  <2>1. trust' = trust BY <1>9 DEF Enter, engineVars
  <2>2. ~(k.agent = a /\ k.capability = c)
    <3>1. \A r \in Rounding : IsDisabled(a, c, r)
      BY <1>2, <1>3, <1>4 DEF IsDisabled, Rounding
    <3> QED BY <1>9, <3>1 DEF Enter, CheckCapability
  <2>3. Using(a, c)' = Using(a, c) BY <1>1, <1>9, <2>2, Entering
  <2> QED BY <1>4, <2>1, <2>2, <2>3 DEF Potential
<1>10. CASE \/ \E m \in Requests : GovernanceApproves(m)
            \/ Endpoint \/ UNCHANGED vars
  <2>1. trust'[a][c] \in 0..100 /\ trust'[a][c] <= trust[a][c]
    <3>1. ASSUME NEW b \in Agents, NEW capabilities \in SUBSET Capabilities,
                 Register(b, capabilities)
          PROVE  trust'[a][c] = trust[a][c]
      BY <1>1, <3>1 DEF Register, RegisterAgent, TypeOK, EngineType
    <3>2. ASSUME NEW s \in Measurement, Evaluate(s)
          PROVE  trust'[a][c] \in 0..100 /\ trust'[a][c] <= trust[a][c]
      <4>1. trust'[a][c] = RevokeThenDowngrade(s, a, c)
        BY <1>1, <3>2 DEF Evaluate, ExecuteActions, TypeOK, EngineType
      <4>2. 0 <= trust[a][c] /\ trust[a][c] <= trust[a][c] BY <1>2
      <4>3. UpdateFailure(0) \in 0..100 /\ UpdateFailure(0) <= trust[a][c]
        BY <1>2, <4>2 DEF UpdateFailure
      <4>4. UpdateFailure(trust[a][c]) \in 0..100 /\ UpdateFailure(trust[a][c]) <= trust[a][c]
        BY <1>2, <4>2 DEF UpdateFailure
      <4> QED BY <1>2, <4>1, <4>2, <4>3, <4>4 DEF RevokeThenDowngrade
    <3>3. CASE trust' = trust BY <1>2, <3>3
    <3> QED BY <1>2, <1>10, <3>1, <3>2, <3>3 DEF GovernanceApproves, Endpoint, Decide,
            ResetBudgets, ResetDailyBudgets, engineVars, vars
  <2>2. Using(a, c)' = Using(a, c)
    <3>1. UNCHANGED requestVars \/ \E m \in Requests : GovernanceApproves(m)
      BY <1>10 DEF Endpoint, Register, Decide, ResetBudgets, Evaluate, requestVars, vars
    <3> QED BY <1>1, <3>1, Staying
  <2>3. Potential(a, c)' = trust'[a][c] + Cardinality(Using(a, c))
    BY <2>2 DEF Potential
  <2>4. Cardinality(Using(a, c)) <= Cardinality(Using(a, c)) BY <1>3
  <2>5. trust'[a][c] + Cardinality(Using(a, c)) < 50 BY <1>3, <1>5, <2>1, <2>4
  <2> QED BY <2>3, <2>5
<1>11. CASE saved.ok /\ (Crash \/ CrashInSave)
  <2>1. trust'[a][c] = trust[a][c]
    BY <1>11 DEF Inv, Durable, Crash, LoadState, CrashInSave
  <2>2. Cardinality(Using(a, c)') = 0
    BY <1>11, Forgotten, FS_EmptySet DEF Crash, CrashInSave
  <2> QED BY <1>2, <1>3, <1>5, <2>1, <2>2 DEF Potential
<1> QED BY <1>7, <1>8, <1>9, <1>10, <1>11 DEF Next, Request

\* A disabled capability comes back only through requests let in before: for any
\* number of agents and requests, through restarts and new registrations.
THEOREM DisabledStaysDisabled == Spec => StaysDisabled
<1>1. ASSUME Inv, [Next]_vars
      PROVE  [\A a \in Agents, c \in Capabilities :
                 c \in manifests[a] /\ Potential(a, c) < 50 =>
                     c \in manifests'[a] /\ Potential(a, c)' < 50]_vars
  BY <1>1, EngineInv, PotentialNext
<1> QED BY <1>1, InvAlways, PTL DEF Spec, StaysDisabled
=============================================================================
