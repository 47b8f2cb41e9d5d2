-------------------------- MODULE AgentCoordinator --------------------------
(***************************************************************************)
(* The coordinator of src/app/agent_coordinator.py: agents with one role   *)
(* each, proposals that one agent plans, another verifies and a third      *)
(* executes.  Only execute_proposal awaits: it checks the proposal, waits  *)
(* for the execution lock (an asyncio.Lock, first come first served), and  *)
(* awaits the execution, so calls of the others come in between.           *)
(***************************************************************************)
EXTENDS Naturals, Sequences

CONSTANTS
    Agents,
    Proposals,          \* bound: the proposals submitted in a behaviour
    Executions,         \* bound: the calls of execute_proposal
    NoAgent

ASSUME CoordinatorAssumption == NoAgent \notin Agents

VARIABLES
    role,               \* the role of each registered agent
    proposal,           \* the proposals: who did what
    queue,              \* proposal_queue
    call,               \* the calls of execute_proposal
    lockQueue           \* execution_lock: its holder, then the waiting calls

vars == <<role, proposal, queue, call, lockQueue>>

Roles == {"planner", "executor", "verifier", "auditor"}

TypeOK ==
    /\ role \in [Agents -> Roles \cup {"none"}]
    /\ proposal \in [Proposals -> [planner  : Agents \cup {NoAgent},
                                   status   : {"none", "pending", "approved", "rejected"},
                                   verifier : Agents \cup {NoAgent},
                                   executor : Agents \cup {NoAgent}]]
    /\ \A p \in Proposals : proposal[p].status = "none" <=> proposal[p].planner = NoAgent
    /\ queue \in Seq(Proposals)
    /\ call \in [Executions -> [pc : {"new", "waiting", "running", "done"},
                                by : Agents \cup {NoAgent},
                                of : Proposals \cup {"none"}]]
    /\ lockQueue \in Seq(Executions)

Init ==
    /\ role = [a \in Agents |-> "none"]
    /\ proposal = [p \in Proposals |-> [planner  |-> NoAgent, status   |-> "none",
                                        verifier |-> NoAgent, executor |-> NoAgent]]
    /\ queue = <<>>
    /\ call = [x \in Executions |-> [pc |-> "new", by |-> NoAgent, of |-> "none"]]
    /\ lockQueue = <<>>

-----------------------------------------------------------------------------
\* An agent may be registered again, with another role.
RegisterAgent(a, r) ==
    /\ role' = [role EXCEPT ![a] = r]
    /\ UNCHANGED <<proposal, queue, call, lockQueue>>

SubmitProposal(a, p) ==
    /\ role[a] = "planner"
    /\ proposal[p].status = "none"
    /\ proposal' = [proposal EXCEPT ![p].planner = a, ![p].status = "pending"]
    /\ queue' = Append(queue, p)
    /\ UNCHANGED <<role, call, lockQueue>>

\* The status is not looked at: a verdict may be given again, and changed.
VerifyProposal(a, p, verdict) ==
    /\ role[a] = "verifier"
    /\ proposal[p].status # "none"
    /\ a # proposal[p].planner
    /\ proposal' = [proposal EXCEPT ![p].status = verdict, ![p].verifier = a]
    /\ UNCHANGED <<role, queue, call, lockQueue>>

\* get_next_proposal(); with an empty queue it times out and returns None.
GetNextProposal ==
    /\ queue # <<>>
    /\ queue' = Tail(queue)
    /\ UNCHANGED <<role, proposal, call, lockQueue>>

-----------------------------------------------------------------------------
(* execute_proposal *)

\* async with self.execution_lock: a free lock is taken without yielding to
\* the event loop, so the execution begins in the step of the checks.
Enter(x, a, p) ==
    /\ call' = [call EXCEPT ![x] = [pc |-> IF lockQueue = <<>> THEN "running" ELSE "waiting",
                                    by |-> a, of |-> p]]
    /\ proposal' = [proposal EXCEPT ![p].executor = IF lockQueue = <<>> THEN a ELSE @]
    /\ lockQueue' = Append(lockQueue, x)

\* Wrong on purpose, like the other definitions marked "Wrong": only the
\* verifier is kept out.
ExecuteByPlanner(x, a, p) ==
    /\ call[x].pc = "new"
    /\ role[a] = "executor"
    /\ proposal[p].status = "approved"
    /\ a # proposal[p].verifier
    /\ Enter(x, a, p)
    /\ UNCHANGED <<role, queue>>

\* All the checks are made before the lock.
ExecuteProposal(x, a, p) ==
    /\ call[x].pc = "new"
    /\ role[a] = "executor"
    /\ proposal[p].status = "approved"
    /\ a \notin {proposal[p].planner, proposal[p].verifier}
    /\ Enter(x, a, p)
    /\ UNCHANGED <<role, queue>>

\* Wrong: does not wait for its turn.
AcquireAnyway(x) ==
    /\ call[x].pc = "waiting"
    /\ call' = [call EXCEPT ![x].pc = "running"]
    /\ proposal' = [proposal EXCEPT ![call[x].of].executor = call[x].by]
    /\ UNCHANGED <<role, queue, lockQueue>>

\* The lock was released by the call before this one.
Acquire(x) ==
    /\ call[x].pc = "waiting"
    /\ Head(lockQueue) = x
    /\ call' = [call EXCEPT ![x].pc = "running"]
    /\ proposal' = [proposal EXCEPT ![call[x].of].executor = call[x].by]
    /\ UNCHANGED <<role, queue, lockQueue>>

\* Wrong: keeps the lock.
FinishHolding(x) ==
    /\ call[x].pc = "running"
    /\ call' = [call EXCEPT ![x].pc = "done"]
    /\ UNCHANGED <<role, proposal, queue, lockQueue>>

\* executor_func has returned, or raised.
Finish(x) ==
    /\ call[x].pc = "running"
    /\ call' = [call EXCEPT ![x].pc = "done"]
    /\ lockQueue' = Tail(lockQueue)
    /\ UNCHANGED <<role, proposal, queue>>

Next ==
    \/ \E a \in Agents, r \in Roles : RegisterAgent(a, r)
    \/ \E a \in Agents, p \in Proposals : SubmitProposal(a, p)
    \/ \E a \in Agents, p \in Proposals, v \in {"approved", "rejected"} :
          VerifyProposal(a, p, v)
    \/ GetNextProposal
    \/ \E x \in Executions, a \in Agents, p \in Proposals : ExecuteProposal(x, a, p)
    \/ \E x \in Executions : Acquire(x) \/ Finish(x)

\* The event loop wakes the first waiter, and executions end: the mutation
\* executor bounds each of its waits.
Spec == /\ Init /\ [][Next]_vars
        /\ \A x \in Executions : WF_vars(Acquire(x) \/ Finish(x))

-----------------------------------------------------------------------------
(* Properties. *)

Busy(x) == call[x].pc \in {"waiting", "running"}

\* "Only one execution at a time": the lock is held by the one running call,
\* and every waiting call is queued for it once.
OneExecution ==
    /\ \A x \in Executions : call[x].pc = "running" => x = Head(lockQueue)
    /\ \A x \in Executions : Busy(x) <=> \E i \in DOMAIN lockQueue : lockQueue[i] = x
    /\ \A i, j \in DOMAIN lockQueue : i # j => lockQueue[i] # lockQueue[j]

\* However agents are registered again in between: no agent verifies or
\* executes what it has planned, and nothing is executed that nobody verified.
PlannerSeparate ==
    /\ \A p \in Proposals :
          LET q == proposal[p]
          IN  /\ q.verifier # NoAgent => q.verifier # q.planner
              /\ q.executor # NoAgent => q.executor # q.planner /\ q.verifier # NoAgent
    /\ \A x \in Executions : Busy(x) => call[x].by # proposal[call[x].of].planner

\* A call that passes the checks is executed and returns.
Served == \A x \in Executions : call[x].pc = "waiting" ~> call[x].pc = "done"
=============================================================================
