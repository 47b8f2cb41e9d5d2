---------------------- MODULE AgentCoordinatorProofs ----------------------
(***************************************************************************)
(* Proofs for AgentCoordinator: type correctness, one execution at a time, *)
(* and the separation of planner, verifier and executor.                   *)
(***************************************************************************)
EXTENDS AgentCoordinator, TLAPS

\* Nobody has verified or executed a proposal that was not submitted, and an
\* approved one has been verified.
Verified ==
    \A p \in Proposals :
        LET q == proposal[p]
        IN  /\ q.status = "none" => q.verifier = NoAgent /\ q.executor = NoAgent
            /\ q.status = "approved" => q.verifier # NoAgent

\* A call that waits or runs is an agent's, and of a proposal that was verified.
CallsNamed ==
    \A x \in Executions : Busy(x) =>
        /\ call[x].by \in Agents
        /\ call[x].of \in Proposals
        /\ proposal[call[x].of].verifier # NoAgent

IInv == TypeOK /\ OneExecution /\ PlannerSeparate /\ Verified /\ CallsNamed

CallType == [pc : {"new", "waiting", "running", "done"},
             by : Agents \cup {NoAgent},
             of : Proposals \cup {"none"}]

ProposalType == [planner  : Agents \cup {NoAgent},
                 status   : {"none", "pending", "approved", "rejected"},
                 verifier : Agents \cup {NoAgent},
                 executor : Agents \cup {NoAgent}]

\* What a proposal must satisfy by itself.
ProposalOK(q) ==
    /\ q \in ProposalType
    /\ q.status = "none" <=> q.planner = NoAgent
    /\ q.verifier # NoAgent => q.verifier # q.planner
    /\ q.executor # NoAgent => q.executor # q.planner /\ q.verifier # NoAgent
    /\ q.status = "none" => q.verifier = NoAgent /\ q.executor = NoAgent
    /\ q.status = "approved" => q.verifier # NoAgent

\* What a call that waits or runs must satisfy, with the proposals ps.
BusyOK(c, ps) ==
    /\ c.by \in Agents
    /\ c.of \in Proposals
    /\ ps[c.of].verifier # NoAgent
    /\ c.by # ps[c.of].planner

\* The invariant, taken apart in this way.
Parts ==
    /\ role \in [Agents -> Roles \cup {"none"}]
    /\ DOMAIN proposal = Proposals
    /\ proposal = [p \in Proposals |-> proposal[p]]
    /\ \A p \in Proposals : ProposalOK(proposal[p])
    /\ queue \in Seq(Proposals)
    /\ call \in [Executions -> CallType]
    /\ lockQueue \in Seq(Executions)
    /\ \A x \in Executions : Busy(x) => BusyOK(call[x], proposal)
    /\ OneExecution

\* Both forms say the same.
LEMMA PartsAreInvariant == Parts <=> IInv
<1>1. Parts => IInv
  <2> SUFFICES ASSUME Parts PROVE IInv  OBVIOUS
  <2>1. proposal \in [Proposals -> ProposalType]  BY DEF Parts, ProposalOK
  <2>2. TypeOK  BY <2>1 DEF Parts, TypeOK, ProposalOK, ProposalType, CallType
  <2>3. PlannerSeparate  BY DEF Parts, PlannerSeparate, ProposalOK, BusyOK
  <2>4. Verified  BY DEF Parts, Verified, ProposalOK
  <2>5. CallsNamed  BY DEF Parts, CallsNamed, BusyOK
  <2> QED  BY <2>2, <2>3, <2>4, <2>5 DEF Parts, IInv
<1>2. IInv => Parts
  <2> SUFFICES ASSUME IInv PROVE Parts  OBVIOUS
  <2>1. proposal \in [Proposals -> ProposalType]  BY DEF IInv, TypeOK, ProposalType
  <2>2. ASSUME NEW p \in Proposals PROVE ProposalOK(proposal[p])
        BY <2>1 DEF IInv, TypeOK, PlannerSeparate, Verified, ProposalOK
  <2>3. ASSUME NEW x \in Executions, Busy(x) PROVE BusyOK(call[x], proposal)
        BY <2>3 DEF IInv, PlannerSeparate, CallsNamed, BusyOK
  <2>4. call \in [Executions -> CallType]  BY DEF IInv, TypeOK, CallType
  <2> QED  BY <2>1, <2>2, <2>3, <2>4 DEF Parts, IInv, TypeOK
<1> QED  BY <1>1, <1>2

\* A proposal changes, and no call: whoever is busy with it stays a stranger to
\* its planner, and it stays verified.
LEMMA ProposalChanges ==
    ASSUME Parts, NEW p \in Proposals, NEW q, ProposalOK(q),
           proposal' = [proposal EXCEPT ![p] = q],
           q.planner = proposal[p].planner \/ proposal[p].status = "none",
           proposal[p].verifier # NoAgent => q.verifier # NoAgent,
           UNCHANGED <<call, lockQueue>>,
           role' \in [Agents -> Roles \cup {"none"}], queue' \in Seq(Proposals)
    PROVE  Parts'
<1>1. proposal'[p] = q /\ \A r \in Proposals \ {p} : proposal'[r] = proposal[r]
      BY DEF Parts
<1>2. /\ DOMAIN proposal' = Proposals
      /\ proposal' = [r \in Proposals |-> proposal'[r]]
      BY DEF Parts
<1>3. \A r \in Proposals : ProposalOK(proposal'[r])  BY <1>1 DEF Parts
<1>4. ASSUME NEW x \in Executions, Busy(x)' PROVE BusyOK(call[x], proposal')
  <2>1. BusyOK(call[x], proposal)  BY <1>4 DEF Parts, Busy
  <2>2. proposal[p].status = "none" => call[x].of # p
        BY <2>1 DEF Parts, ProposalOK, BusyOK
  <2> QED  BY <1>1, <2>1, <2>2 DEF BusyOK
<1>5. OneExecution'  BY DEF Parts, OneExecution, Busy
<1> QED  BY <1>2, <1>3, <1>4, <1>5 DEF Parts

\* A planner submits: a proposal by an agent, unverified.
LEMMA SubmitKeeps ==
    ASSUME Parts, NEW a \in Agents, NEW p \in Proposals, SubmitProposal(a, p)
    PROVE  Parts'
<1> DEFINE q == [proposal[p] EXCEPT !.planner = a, !.status = "pending"]
<1>1. ProposalOK(proposal[p]) /\ proposal[p] \in ProposalType  BY DEF Parts, ProposalOK
<1>2. proposal[p].status = "none"  BY DEF SubmitProposal
<1>3. /\ q \in ProposalType /\ q.planner = a /\ q.status = "pending"
      /\ q.verifier = proposal[p].verifier /\ q.executor = proposal[p].executor
      BY <1>1 DEF ProposalType
<1>4. proposal' = [proposal EXCEPT ![p] = q]  BY DEF SubmitProposal
<1> HIDE DEF q
<1>5. ProposalOK(q)  BY <1>1, <1>2, <1>3, CoordinatorAssumption DEF ProposalOK
<1>6. queue' \in Seq(Proposals)  BY DEF SubmitProposal, Parts
<1>7. UNCHANGED <<role, call, lockQueue>>  BY DEF SubmitProposal
<1> QED  BY <1>2, <1>3, <1>4, <1>5, <1>6, <1>7, ProposalChanges DEF Parts

\* A verdict, by another agent than the planner.
LEMMA VerifyKeeps ==
    ASSUME Parts, NEW a \in Agents, NEW p \in Proposals,
           NEW v \in {"approved", "rejected"}, VerifyProposal(a, p, v)
    PROVE  Parts'
<1> DEFINE q == [proposal[p] EXCEPT !.status = v, !.verifier = a]
<1>1. ProposalOK(proposal[p]) /\ proposal[p] \in ProposalType  BY DEF Parts, ProposalOK
<1>2. proposal[p].status # "none" /\ a # proposal[p].planner  BY DEF VerifyProposal
<1>3. /\ q \in ProposalType /\ q.planner = proposal[p].planner /\ q.status = v
      /\ q.verifier = a /\ q.executor = proposal[p].executor
      BY <1>1 DEF ProposalType
<1>4. proposal' = [proposal EXCEPT ![p] = q]  BY DEF VerifyProposal
<1> HIDE DEF q
<1>5. ProposalOK(q)  BY <1>1, <1>2, <1>3, CoordinatorAssumption DEF ProposalOK
<1>6. q.verifier # NoAgent  BY <1>3, CoordinatorAssumption
<1>7. UNCHANGED <<role, queue, call, lockQueue>>  BY DEF VerifyProposal
<1> QED  BY <1>3, <1>4, <1>5, <1>6, <1>7, ProposalChanges DEF Parts

\* A call passes the checks: it runs, if the lock is free, or is queued.
LEMMA ExecuteKeeps ==
    ASSUME Parts, NEW x \in Executions, NEW a \in Agents, NEW p \in Proposals,
           ExecuteProposal(x, a, p)
    PROVE  Parts'
<1> DEFINE q == [proposal[p] EXCEPT !.executor = IF lockQueue = <<>> THEN a ELSE @]
           c == [pc |-> IF lockQueue = <<>> THEN "running" ELSE "waiting", by |-> a, of |-> p]
<1>1. ProposalOK(proposal[p]) /\ proposal[p] \in ProposalType  BY DEF Parts, ProposalOK
<1>2. /\ call[x].pc = "new" /\ proposal[p].status = "approved"
      /\ a # proposal[p].planner
      BY DEF ExecuteProposal
<1>3. /\ q \in ProposalType /\ q.planner = proposal[p].planner
      /\ q.status = proposal[p].status /\ q.verifier = proposal[p].verifier
      /\ q.executor = proposal[p].executor \/ q.executor = a
      BY <1>1 DEF ProposalType
<1>4. c \in CallType /\ c.by = a /\ c.of = p
      /\ c.pc \in {"waiting", "running"} /\ (c.pc = "running" => lockQueue = <<>>)
      BY DEF CallType
<1>5. /\ proposal' = [proposal EXCEPT ![p] = q]
      /\ call' = [call EXCEPT ![x] = c]
      /\ lockQueue' = Append(lockQueue, x)
      BY DEF ExecuteProposal, Enter
<1>6. UNCHANGED <<role, queue>>  BY DEF ExecuteProposal
<1> HIDE DEF q, c
<1>7. ProposalOK(q)  BY <1>1, <1>2, <1>3 DEF ProposalOK
<1>8. proposal'[p] = q /\ \A r \in Proposals \ {p} : proposal'[r] = proposal[r]
      BY <1>5 DEF Parts
<1>9. call'[x] = c /\ \A y \in Executions \ {x} : call'[y] = call[y]
      BY <1>5 DEF Parts
<1>10. /\ DOMAIN proposal' = Proposals
       /\ proposal' = [r \in Proposals |-> proposal'[r]]
       /\ \A r \in Proposals : ProposalOK(proposal'[r])
       BY <1>5, <1>7, <1>8 DEF Parts
<1>11. call' \in [Executions -> CallType] /\ lockQueue' \in Seq(Executions)
       BY <1>4, <1>5 DEF Parts
<1>12. ASSUME NEW y \in Executions, Busy(y)' PROVE BusyOK(call'[y], proposal')
  <2>1. CASE y = x
    <3>1. proposal[p].verifier # NoAgent  BY <1>1, <1>2 DEF ProposalOK
    <3> QED  BY <1>2, <1>3, <1>4, <1>8, <1>9, <2>1, <3>1 DEF BusyOK
  <2>2. CASE y # x
    <3>1. BusyOK(call[y], proposal)  BY <1>9, <1>12, <2>2 DEF Parts, Busy
    <3> QED  BY <1>3, <1>8, <1>9, <2>2, <3>1 DEF BusyOK
  <2> QED  BY <2>1, <2>2
<1>13. OneExecution'
  <2> DEFINE n == Len(lockQueue)
  <2>1. n \in Nat /\ lockQueue \in Seq(Executions) /\ DOMAIN lockQueue = 1..n
        BY DEF Parts
  <2>2. /\ DOMAIN lockQueue' = 1..(n + 1) /\ lockQueue'[n + 1] = x
        /\ \A i \in 1..n : lockQueue'[i] = lockQueue[i]
        BY <1>5, <2>1
  <2>3. ~Busy(x) /\ Busy(x)'  BY <1>2, <1>4, <1>9 DEF Busy
  <2>4. \A i \in 1..n : lockQueue[i] # x /\ lockQueue[i] \in Executions
        BY <2>1, <2>3 DEF Parts, OneExecution
  <2>5. \A y \in Executions \ {x} : Busy(y)' <=> Busy(y)  BY <1>9 DEF Busy
  <2>6. \A i, j \in DOMAIN lockQueue' : i # j => lockQueue'[i] # lockQueue'[j]
        BY <2>1, <2>2, <2>4 DEF Parts, OneExecution
  <2>7. ASSUME NEW y \in Executions
        PROVE  Busy(y)' <=> \E i \in DOMAIN lockQueue' : lockQueue'[i] = y
    <3>1. CASE y = x  BY <2>1, <2>2, <2>3, <3>1
    <3>2. CASE y # x  BY <2>1, <2>2, <2>5, <3>2 DEF Parts, OneExecution
    <3> QED  BY <3>1, <3>2
  <2>8. ASSUME NEW y \in Executions, call'[y].pc = "running" PROVE y = Head(lockQueue')
    <3>1. CASE y = x
      <4>1. n = 0  BY <1>4, <1>9, <2>8, <3>1
      <4> QED  BY <1>5, <2>1, <3>1, <4>1
    <3>2. CASE y # x
      <4>1. y = Head(lockQueue) /\ Busy(y)  BY <1>9, <2>8, <3>2 DEF Parts, OneExecution, Busy
      <4>2. lockQueue # <<>>  BY <4>1 DEF Parts, OneExecution
      <4> QED  BY <1>5, <2>1, <4>1, <4>2
    <3> QED  BY <3>1, <3>2
  <2> QED  BY <2>6, <2>7, <2>8 DEF OneExecution
<1> QED  BY <1>6, <1>10, <1>11, <1>12, <1>13 DEF Parts

\* The first of the queue runs.
LEMMA AcquireKeeps ==
    ASSUME Parts, NEW x \in Executions, Acquire(x)
    PROVE  Parts'
<1> DEFINE p == call[x].of
           a == call[x].by
           q == [proposal[p] EXCEPT !.executor = a]
           c == [call[x] EXCEPT !.pc = "running"]
<1>1. BusyOK(call[x], proposal) /\ Busy(x)  BY DEF Parts, Acquire, Busy
<1>2. /\ p \in Proposals /\ a \in Agents /\ proposal[p].verifier # NoAgent
      /\ a # proposal[p].planner
      BY <1>1 DEF BusyOK
<1>3. ProposalOK(proposal[p]) /\ proposal[p] \in ProposalType  BY <1>2 DEF Parts, ProposalOK
<1>4. call[x] \in CallType  BY DEF Parts
<1>5. /\ q \in ProposalType /\ q.planner = proposal[p].planner
      /\ q.status = proposal[p].status /\ q.verifier = proposal[p].verifier
      /\ q.executor = a
      BY <1>2, <1>3 DEF ProposalType
<1>6. c \in CallType /\ c.by = a /\ c.of = p /\ c.pc = "running"
      BY <1>4 DEF CallType
<1>7. /\ proposal' = [proposal EXCEPT ![p] = q]
      /\ call' = [call EXCEPT ![x] = c]
      /\ Head(lockQueue) = x
      /\ UNCHANGED <<role, queue, lockQueue>>
      BY DEF Acquire
<1> HIDE DEF q, c, p, a
<1>8. ProposalOK(q)  BY <1>2, <1>3, <1>5 DEF ProposalOK
<1>9. proposal'[p] = q /\ \A r \in Proposals \ {p} : proposal'[r] = proposal[r]
      BY <1>2, <1>7 DEF Parts
<1>10. call'[x] = c /\ \A y \in Executions \ {x} : call'[y] = call[y]
       BY <1>7 DEF Parts
<1>11. /\ DOMAIN proposal' = Proposals
       /\ proposal' = [r \in Proposals |-> proposal'[r]]
       /\ \A r \in Proposals : ProposalOK(proposal'[r])
       BY <1>2, <1>7, <1>8, <1>9 DEF Parts
<1>12. call' \in [Executions -> CallType]  BY <1>6, <1>7 DEF Parts
<1>13. ASSUME NEW y \in Executions, Busy(y)' PROVE BusyOK(call'[y], proposal')
  <2>1. CASE y = x  BY <1>2, <1>5, <1>6, <1>9, <1>10, <2>1 DEF BusyOK
  <2>2. CASE y # x
    <3>1. BusyOK(call[y], proposal)  BY <1>10, <1>13, <2>2 DEF Parts, Busy
    <3> QED  BY <1>5, <1>9, <1>10, <2>2, <3>1 DEF BusyOK
  <2> QED  BY <2>1, <2>2
<1>14. OneExecution'
  <2>1. \A y \in Executions : Busy(y)' <=> Busy(y)  BY <1>1, <1>6, <1>10 DEF Busy
  <2>2. \A y \in Executions : call'[y].pc = "running" => y = Head(lockQueue)
        BY <1>7, <1>10 DEF Parts, OneExecution
  <2> QED  BY <1>7, <2>1, <2>2 DEF Parts, OneExecution
<1> QED  BY <1>7, <1>11, <1>12, <1>13, <1>14 DEF Parts

\* The running call leaves the queue.
LEMMA FinishKeeps ==
    ASSUME Parts, NEW x \in Executions, Finish(x)
    PROVE  Parts'
<1> DEFINE c == [call[x] EXCEPT !.pc = "done"]
<1>1. call[x].pc = "running" /\ Busy(x)  BY DEF Finish, Busy
<1>2. c \in CallType /\ c.pc = "done"  BY DEF Parts, CallType
<1>3. /\ call' = [call EXCEPT ![x] = c]
      /\ lockQueue' = Tail(lockQueue)
      /\ UNCHANGED <<role, proposal, queue>>
      BY DEF Finish
<1> HIDE DEF c
<1>4. call'[x] = c /\ \A y \in Executions \ {x} : call'[y] = call[y]
      BY <1>3 DEF Parts
<1>5. x = Head(lockQueue) /\ lockQueue # <<>> /\ lockQueue \in Seq(Executions)
      BY <1>1 DEF Parts, OneExecution
<1>6. /\ DOMAIN lockQueue = 1..Len(lockQueue) /\ Len(lockQueue) \in Nat \ {0}
      /\ DOMAIN lockQueue' = 1..(Len(lockQueue) - 1)
      /\ \A i \in 1..(Len(lockQueue) - 1) : lockQueue'[i] = lockQueue[i + 1]
      /\ lockQueue[1] = x
      /\ lockQueue' \in Seq(Executions)
      BY <1>3, <1>5
<1>7. ~Busy(x)' /\ \A y \in Executions \ {x} : Busy(y)' <=> Busy(y)
      BY <1>2, <1>4 DEF Busy
<1>8. \A i \in DOMAIN lockQueue' :
          i \in Nat /\ i + 1 \in DOMAIN lockQueue /\ i + 1 # 1 /\ lockQueue'[i] = lockQueue[i + 1]
       BY <1>6
<1>9. \A i, j \in DOMAIN lockQueue : i # j => lockQueue[i] # lockQueue[j]
       BY DEF Parts, OneExecution
<1>10. ASSUME NEW y \in Executions, Busy(y)' PROVE BusyOK(call'[y], proposal')
  <2>1. y # x  BY <1>7, <1>10
  <2>2. BusyOK(call[y], proposal)  BY <1>7, <1>10, <2>1 DEF Parts
  <2> QED  BY <1>3, <1>4, <2>1, <2>2 DEF BusyOK
<1>11. OneExecution'
  <2>1. ASSUME NEW i \in DOMAIN lockQueue', NEW j \in DOMAIN lockQueue', i # j
        PROVE  lockQueue'[i] # lockQueue'[j]
    <3>1. i + 1 # j + 1  BY <1>8, <2>1
    <3> QED  BY <1>8, <1>9, <3>1
  <2>2. ASSUME NEW y \in Executions
        PROVE  Busy(y)' <=> \E i \in DOMAIN lockQueue' : lockQueue'[i] = y
    <3>1. CASE y = x
      <4>1. \A i \in DOMAIN lockQueue' : lockQueue'[i] # x
        <5>1. 1 \in DOMAIN lockQueue  BY <1>6
        <5> QED  BY <1>6, <1>8, <1>9, <5>1
      <4> QED  BY <1>7, <3>1, <4>1
    <3>2. CASE y # x
      <4>1. Busy(y) <=> \E i \in DOMAIN lockQueue : lockQueue[i] = y
            BY DEF Parts, OneExecution
      <4>2. ASSUME NEW i \in DOMAIN lockQueue, lockQueue[i] = y
            PROVE  \E j \in DOMAIN lockQueue' : lockQueue'[j] = y
        <5>1. i # 1  BY <1>6, <3>2, <4>2
        <5>2. i - 1 \in DOMAIN lockQueue' /\ lockQueue'[i - 1] = lockQueue[i]
              BY <1>6, <5>1
        <5> QED  BY <4>2, <5>2
      <4>3. ASSUME NEW j \in DOMAIN lockQueue', lockQueue'[j] = y
            PROVE  \E i \in DOMAIN lockQueue : lockQueue[i] = y
        <5>1. j + 1 \in DOMAIN lockQueue /\ lockQueue[j + 1] = y  BY <1>6, <4>3
        <5> QED  BY <5>1
      <4> QED  BY <1>7, <3>2, <4>1, <4>2, <4>3
    <3> QED  BY <3>1, <3>2
  <2>3. \A y \in Executions : call'[y].pc # "running"
    <3>1. \A y \in Executions : call[y].pc = "running" => y = x
          BY <1>5 DEF Parts, OneExecution
    <3> QED  BY <1>2, <1>4, <3>1
  <2> QED  BY <2>1, <2>2, <2>3 DEF OneExecution
<1>12. call' \in [Executions -> CallType]  BY <1>2, <1>3 DEF Parts
<1>13. /\ DOMAIN proposal' = Proposals
       /\ proposal' = [p \in Proposals |-> proposal'[p]]
       /\ \A p \in Proposals : ProposalOK(proposal'[p])
       BY <1>3 DEF Parts
<1> QED  BY <1>3, <1>6, <1>10, <1>11, <1>12, <1>13 DEF Parts

\* Steps that leave the proposals and the calls alone.
LEMMA OthersKeep ==
    ASSUME Parts, UNCHANGED <<proposal, call, lockQueue>>,
           role' \in [Agents -> Roles \cup {"none"}], queue' \in Seq(Proposals)
    PROVE  Parts'
BY DEF Parts, OneExecution, Busy

\* At first there is nothing.
LEMMA InitInv == Init => Parts
<1> SUFFICES ASSUME Init PROVE Parts  OBVIOUS
<1>1. \A p \in Proposals : ProposalOK(proposal[p])
      BY DEF Init, ProposalOK, ProposalType
<1>2. OneExecution  BY DEF Init, OneExecution, Busy
<1>3. \A x \in Executions : ~Busy(x)  BY DEF Init, Busy
<1>4. call \in [Executions -> CallType]  BY DEF Init, CallType
<1>5. queue \in Seq(Proposals) /\ lockQueue \in Seq(Executions)  BY DEF Init
<1>6. role \in [Agents -> Roles \cup {"none"}]  BY DEF Init
<1>7. DOMAIN proposal = Proposals /\ proposal = [p \in Proposals |-> proposal[p]]  BY DEF Init
<1> QED  BY <1>1, <1>2, <1>3, <1>4, <1>5, <1>6, <1>7 DEF Parts

\* Every step keeps the invariant.
LEMMA StepInv == Parts /\ [Next]_vars => Parts'
<1> SUFFICES ASSUME Parts, [Next]_vars PROVE Parts'  OBVIOUS
<1>1. ASSUME NEW a \in Agents, NEW r \in Roles, RegisterAgent(a, r) PROVE Parts'
  <2>1. role' \in [Agents -> Roles \cup {"none"}]  BY <1>1 DEF RegisterAgent, Parts
  <2> QED  BY <1>1, <2>1, OthersKeep DEF RegisterAgent, Parts
<1>2. CASE GetNextProposal
  <2>1. queue' \in Seq(Proposals)  BY <1>2 DEF GetNextProposal, Parts
  <2> QED  BY <1>2, <2>1, OthersKeep DEF GetNextProposal, Parts
<1>3. CASE UNCHANGED vars
      BY <1>3, OthersKeep DEF vars, Parts
<1>4. CASE Next
      BY <1>1, <1>2, <1>4, SubmitKeeps, VerifyKeeps, ExecuteKeeps, AcquireKeeps, FinishKeeps
      DEF Next
<1> QED  BY <1>3, <1>4

\* The invariant always holds.
LEMMA Invariance == Spec => []IInv
<1>1. Spec => []Parts  BY InitInv, StepInv, PTL DEF Spec
<1> QED  BY <1>1, PartsAreInvariant, PTL

\* Type correctness of the coordinator.
THEOREM TypeCorrect == Spec => []TypeOK
<1>1. IInv => TypeOK  BY DEF IInv
<1> QED  BY Invariance, <1>1, PTL

\* For any number of agents, proposals and calls, executions run one at a
\* time, each queued for the lock once.
THEOREM ExecutionsAreExclusive == Spec => []OneExecution
<1>1. IInv => OneExecution  BY DEF IInv
<1> QED  BY Invariance, <1>1, PTL

\* Whatever roles agents are given in between, none verifies or executes what
\* it has planned, and nothing is executed that nobody verified.
THEOREM PlannersAreSeparate == Spec => []PlannerSeparate
<1>1. IInv => PlannerSeparate  BY DEF IInv
<1> QED  BY Invariance, <1>1, PTL
=============================================================================
