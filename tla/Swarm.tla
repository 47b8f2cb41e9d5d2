------------------------------- MODULE Swarm -------------------------------
(***************************************************************************)
(* One swarm: DISDProtocol of src/app/disd_protocol.py on its router       *)
(* (src/app/disd_router.py), or, with the same protocol inherited, on the  *)
(* enhanced router of src/app/enhanced_disd_router.py and the receipts of  *)
(* src/app/cryptographic_receipt.py.  Both run in the service; they share  *)
(* nothing.                                                                *)
(*                                                                         *)
(* A broadcast goes to the agents registered when it begins, one after the *)
(* other, with an await for each that is still registered by then; after   *)
(* the last the handlers of this very protocol run, and then what the      *)
(* caller does with the result, all in one turn.  Senders are the calls of *)
(* the endpoints and the two background loops.  The order of a dict is     *)
(* left open.                                                              *)
(*                                                                         *)
(* A proposal never gets that far: its validation takes the method         *)
(* is_expired for its value, so it is stored, refused and removed again in *)
(* one turn, and there is nothing to vote on, commit, abort or clean up.   *)
(***************************************************************************)
EXTENDS Integers, FiniteSets

CONSTANTS
    Agents,
    Seeds,              \* agents an embedding program registers directly
    Calls,              \* bound: the calls of the endpoints in a behaviour
    Sweeper, Beater,    \* _cleanup_loop() and _heartbeat_loop()
    NoAgent

Senders == Calls \cup {Sweeper, Beater}

ASSUME SwarmAssumption ==
    /\ IsFiniteSet(Agents)
    /\ Seeds \subseteq Agents
    /\ NoAgent \notin Agents
    /\ Sweeper \notin Calls /\ Beater \notin Calls /\ Sweeper # Beater

VARIABLES
    router,             \* which router, and which receipts
    members,            \* the agents in self.members, and of these:
    local,              \*   those with an endpoint,
    paused,             \*   those with a status other than "active",
    lapsed,             \*   those without a heartbeat for 30 s
    endpoints,          \* the agents in agent_endpoints
    message,            \* what each sender is broadcasting
    listed,             \* the inactive members the sweep has yet to remove
    round,              \* of the heartbeat loop: the members when it began,
                        \*   and those visited
    entries,            \* the receipts in the chain of the (only) epoch
    answer,             \* of each call
    seeded              \* history: the agents registered directly

memberVars  == <<members, local, paused, lapsed>>
receiptVars == <<router, entries>>
vars == <<memberVars, endpoints, message, listed, round, receiptVars, answer, seeded>>

Message == [kind    : {"none", "join", "leave", "heartbeat"},
            agent   : Agents \cup {NoAgent},
            local   : BOOLEAN,                  \* a join with an endpoint
            paused  : BOOLEAN,                  \* the status of a heartbeat
            at      : Agents \cup {NoAgent},    \* the delivery awaited
            todo    : SUBSET Agents,            \* the targets after it
            reached : BOOLEAN]                  \* delivered_count > 0

TypeOK ==
    /\ router \in {"basic", "mock", "production"}
    /\ members \subseteq Agents
    /\ local \subseteq members /\ paused \subseteq members /\ lapsed \subseteq members
    /\ endpoints \subseteq Agents
    /\ message \in [Senders -> Message]
    /\ listed \subseteq Agents
    /\ round \in [size : Nat, done : SUBSET Agents]
    /\ entries \in 0..1
    /\ answer \in [Calls -> {"none", "waits", "true", "false"}]
    /\ seeded \subseteq Seeds

Silent == [kind |-> "none", agent |-> NoAgent, local |-> FALSE, paused |-> FALSE,
           at |-> NoAgent, todo |-> {}, reached |-> FALSE]

NoRound == [size |-> 0, done |-> {}]

Init ==
    /\ router \in {"basic", "mock", "production"}
    /\ members = {} /\ local = {} /\ paused = {} /\ lapsed = {}
    /\ endpoints = {}
    /\ message = [p \in Senders |-> Silent]
    /\ listed = {}
    /\ round = NoRound
    /\ entries = 0
    /\ answer = [c \in Calls |-> "none"]
    /\ seeded = {}

-----------------------------------------------------------------------------
(* Members. *)

\* Wrong: looks at the status only.
InactivePaused == paused

\* not is_active()
Inactive == paused \cup lapsed

\* The member a, new or overwritten.
Added(a, withEndpoint) ==
    /\ members' = members \cup {a}
    /\ local'   = IF withEndpoint THEN local \cup {a} ELSE local \ {a}
    /\ paused'  = paused \ {a}
    /\ lapsed'  = lapsed \ {a}
    /\ endpoints' = IF withEndpoint THEN endpoints \cup {a} ELSE endpoints

\* Wrong: the routes stay.
RemovedRouted(D) ==
    /\ members' = members \ D /\ local' = local \ D
    /\ paused' = paused \ D   /\ lapsed' = lapsed \ D
    /\ UNCHANGED endpoints

\* The members among D are gone, and their routes with them.
Removed(D) ==
    /\ members' = members \ D /\ local' = local \ D
    /\ paused' = paused \ D   /\ lapsed' = lapsed \ D
    /\ endpoints' = endpoints \ (D \cap members)

\* Wrong: adds a member that nobody has heard of.
JoinedAnyway(m, heard) == Added(m.agent, m.local)

\* The local handler adds the agent if it is no member yet, and join_swarm()
\* adds it, or overwrites it, if the message has reached somebody.
Joined(m, heard) ==
    IF m.reached \/ (heard /\ m.agent \notin members)
    THEN Added(m.agent, m.local)
    ELSE UNCHANGED <<memberVars, endpoints>>

\* Only the local handler does something; the status is that of the message.
Beaten(m, heard) ==
    /\ IF heard /\ m.agent \in members
       THEN /\ lapsed' = lapsed \ {m.agent}
            /\ paused' = IF m.paused THEN paused \cup {m.agent} ELSE paused \ {m.agent}
       ELSE UNCHANGED <<lapsed, paused>>
    /\ UNCHANGED <<members, local, endpoints>>

\* The end of a broadcast for those who are not the sweep; heard: it had a
\* target, so the local handlers have run.
Handled(m, heard) ==
    \/ m.kind = "join"      /\ Joined(m, heard)
    \/ m.kind = "leave"     /\ Removed({m.agent})
    \/ m.kind = "heartbeat" /\ Beaten(m, heard)

-----------------------------------------------------------------------------
(* Receipts. *)

\* append_receipt() takes the chain hash over the entries themselves and the new
\* hash, which raises unless there are none.
CanAppend == entries = 0

\* The signature is verified against the second it is verified in, which may be
\* another than that of the receipt, and the entry is written to the disk, which
\* may fail, after it has been appended.
FailsInProduction == router = "production" /\ entries' \in {entries, 1}

\* What becomes of a delivery once its await is over.
Receipt(ok) ==
    \/ router = "basic" /\ ok /\ UNCHANGED entries
    \/ router # "basic" /\ ok /\ CanAppend /\ entries' = entries + 1
    \/ router # "basic" /\ ~ok /\ ~CanAppend /\ UNCHANGED entries
    \/ FailsInProduction /\ ~ok

-----------------------------------------------------------------------------
(* Broadcasts. *)

\* Message m awaits its delivery to one of the targets T.
Sent(m, T) ==
    {[m EXCEPT !.at = a, !.todo = T \ {a}] : a \in T}

ToJoin(a, withEndpoint) == [Silent EXCEPT !.kind = "join", !.agent = a, !.local = withEndpoint]
ToLeave(a)              == [Silent EXCEPT !.kind = "leave", !.agent = a]
ToBeat(a, isPaused)     == [Silent EXCEPT !.kind = "heartbeat", !.agent = a, !.paused = isPaused]

\* A call sends m to the targets T.  Without any it ends at once: only a leave
\* has then an effect, and an answer that says so.
Call(c, m, T) ==
    /\ answer[c] = "none"
    /\ IF T = {}
       THEN /\ Handled(m, FALSE)
            /\ answer' = [answer EXCEPT ![c] =
                             IF m.kind = "leave" /\ m.agent \in members
                             THEN "true" ELSE "false"]
            /\ UNCHANGED message
       ELSE /\ \E s \in Sent(m, T) : message' = [message EXCEPT ![c] = s]
            /\ answer' = [answer EXCEPT ![c] = "waits"]
            /\ UNCHANGED <<memberVars, endpoints>>
    /\ UNCHANGED <<listed, round, receiptVars, seeded>>

\* The call returns.  A leave finds that the local handler has removed the
\* member already, or that there is none, and answers FALSE either way.
CallEnds(c, m) ==
    /\ Handled(m, TRUE)
    /\ message' = [message EXCEPT ![c] = Silent]
    /\ answer' = [answer EXCEPT ![c] = IF m.kind # "leave" /\ m.reached
                                       THEN "true" ELSE "false"]
    /\ UNCHANGED <<listed, round>>

\* The sweep goes on to the next member it has listed, whatever became of it
\* meanwhile; with no route left, to all of them in this turn.
SweepsOn(m) ==
    LET alone == endpoints \ ({m.agent} \cap members) = {}
    IN  /\ Removed(IF alone THEN listed \cup {m.agent} ELSE {m.agent})
        /\ IF listed = {} \/ alone
           THEN listed' = {} /\ message' = [message EXCEPT ![Sweeper] = Silent]
           ELSE \E b \in listed : \E s \in Sent(ToLeave(b), endpoints') :
                    /\ listed' = listed \ {b}
                    /\ message' = [message EXCEPT ![Sweeper] = s]
        /\ UNCHANGED <<round, answer>>

\* The heartbeat loop goes on to another member with an endpoint, unless the
\* number of members is not what it was: then the iteration raises.
BeatsOn(m) ==
    /\ Beaten(m, TRUE)
    /\ LET done == round.done \cap members
           next == IF Cardinality(members) # round.size \/ endpoints = {} THEN {}
                   ELSE local \ done
       IN  IF next = {}
           THEN round' = NoRound /\ message' = [message EXCEPT ![Beater] = Silent]
           ELSE \E b \in next : \E s \in Sent(ToBeat(b, b \in paused'), endpoints) :
                    /\ round' = [round EXCEPT !.done = done \cup {b}]
                    /\ message' = [message EXCEPT ![Beater] = s]
    /\ UNCHANGED <<listed, answer>>

\* Sender p is resumed after an await: the delivery counts or fails, and the
\* next target that is still registered is awaited.
Deliver(p) ==
    /\ message[p].kind # "none"
    /\ \E ok \in BOOLEAN :
        /\ Receipt(ok)
        /\ LET m    == [message[p] EXCEPT !.reached = @ \/ ok]
               rest == m.todo \cap endpoints
           IN  IF rest # {}
               THEN /\ \E a \in rest :
                           message' = [message EXCEPT ![p] =
                                          [m EXCEPT !.at = a, !.todo = @ \ {a}]]
                    /\ UNCHANGED <<memberVars, endpoints, listed, round, answer>>
               ELSE CASE p = Sweeper -> SweepsOn(m)
                      [] p = Beater  -> BeatsOn(m)
                      [] OTHER       -> CallEnds(p, m)
    /\ UNCHANGED <<router, seeded>>

-----------------------------------------------------------------------------
(* The endpoints; /enhanced-disd has only the first and the last. *)

Join(c) ==
    \E a \in Agents, withEndpoint \in BOOLEAN : Call(c, ToJoin(a, withEndpoint), endpoints)

Leave(c) ==
    /\ router = "basic"
    /\ \E a \in Agents : Call(c, ToLeave(a), endpoints)

\* broadcast-message, or send-message to one agent; both take heartbeats only.
SendHeartbeat(c) ==
    /\ router = "basic"
    /\ \E a \in Agents, isPaused \in BOOLEAN :
        \E T \in {endpoints} \cup {{t} \cap endpoints : t \in Agents} :
            Call(c, ToBeat(a, isPaused), T)

\* propose, and vote on a proposal that there cannot be
ProposeOrVote(c) ==
    /\ answer[c] = "none"
    /\ answer' = [answer EXCEPT ![c] = "false"]
    /\ UNCHANGED <<memberVars, endpoints, message, listed, round, receiptVars, seeded>>

-----------------------------------------------------------------------------
(* The loops, and what surrounds the swarm. *)

\* A round of the cleanup: it lists the inactive members in one turn.
Sweep ==
    /\ message[Sweeper].kind = "none"
    /\ Inactive # {}
    /\ IF endpoints = {}
       THEN Removed(Inactive) /\ UNCHANGED <<message, listed>>
       ELSE /\ \E b \in Inactive : \E s \in Sent(ToLeave(b), endpoints) :
                   /\ listed' = Inactive \ {b}
                   /\ message' = [message EXCEPT ![Sweeper] = s]
            /\ UNCHANGED <<memberVars, endpoints>>
    /\ UNCHANGED <<round, receiptVars, answer, seeded>>

\* A round of heartbeats, with the status the member has by now.
Beat ==
    /\ message[Beater].kind = "none"
    /\ \E b \in local : \E s \in Sent(ToBeat(b, b \in paused), endpoints) :
        /\ round' = [size |-> Cardinality(members), done |-> {b}]
        /\ message' = [message EXCEPT ![Beater] = s]
    /\ UNCHANGED <<memberVars, endpoints, listed, receiptVars, answer, seeded>>

HeartbeatLapses ==
    /\ \E a \in members \ lapsed : lapsed' = lapsed \cup {a}
    /\ UNCHANGED <<members, local, paused, endpoints, message, listed, round,
                   receiptVars, answer, seeded>>

\* register_agent() called from outside: nothing in the service does.
RegisterAgent ==
    /\ \E a \in Seeds \ seeded : seeded' = seeded \cup {a} /\ endpoints' = endpoints \cup {a}
    /\ UNCHANGED <<memberVars, message, listed, round, receiptVars, answer>>

Request(c) == Join(c) \/ Leave(c) \/ SendHeartbeat(c) \/ ProposeOrVote(c)

Next ==
    \/ \E c \in Calls : Request(c)
    \/ \E p \in Senders : Deliver(p)
    \/ Sweep \/ Beat \/ HeartbeatLapses \/ RegisterAgent

\* Sleeps end, and so do those of the two loops.
Fairness == (\A p \in Senders : WF_vars(Deliver(p))) /\ WF_vars(Sweep) /\ WF_vars(Beat)

Spec == Init /\ [][Next]_vars /\ Fairness

-----------------------------------------------------------------------------
(* Properties. *)

\* A join is broadcast to the agents that are registered, and only a join
\* registers one: without an agent registered from outside the swarm stays
\* empty for good, whatever is called.
EmptyUnlessSeeded == seeded = {} => members = {} /\ endpoints = {}

\* The two tables agree, whatever is joined, left, rejoined and swept at once:
\* a member with an endpoint has a route, and a route belongs to a member or
\* to an agent registered from outside.
RoutesMatchMembers ==
    /\ local \subseteq endpoints
    /\ endpoints \subseteq members \cup seeded

\* A member that has no heartbeat, or is not active, is again or is removed.
StaleRemoved ==
    \A a \in Agents : (a \in lapsed \cup paused) ~> (a \notin lapsed \cup paused)
=============================================================================
