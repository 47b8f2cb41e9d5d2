---------------------------- MODULE SwarmProofs ----------------------------
(***************************************************************************)
(* Proofs for Swarm: type correctness, that the swarm stays empty without  *)
(* an agent registered from outside, and that the two tables agree.        *)
(***************************************************************************)
EXTENDS Swarm, FiniteSetTheorems, TLAPS

\* Why a swarm without a registered agent stays empty: nobody is being sent
\* anything.
NothingUnderway == seeded = {} => \A p \in Senders : message[p].kind = "none"

\* A message under way is about an agent.
MessagesNamed ==
    \A p \in Senders : message[p].kind # "none" => message[p].agent \in Agents

IInv ==
    /\ TypeOK
    /\ EmptyUnlessSeeded /\ NothingUnderway
    /\ RoutesMatchMembers
    /\ MessagesNamed

\* What the members and routes must satisfy, apart from the messages.
TablesOK(ms, lo, pa, la, en, se) ==
    /\ ms \subseteq Agents
    /\ lo \subseteq ms /\ pa \subseteq ms /\ la \subseteq ms
    /\ en \subseteq Agents
    /\ lo \subseteq en
    /\ en \subseteq ms \cup se

Tables      == TablesOK(members, local, paused, lapsed, endpoints, seeded)
TablesAfter == TablesOK(members', local', paused', lapsed', endpoints', seeded)

\* An agent that is added keeps the tables in order.
LEMMA AddedKeepsTables ==
    ASSUME NEW a \in Agents, NEW e \in BOOLEAN, Tables, Added(a, e)
    PROVE  TablesAfter
BY DEF Tables, TablesAfter, TablesOK, Added

\* Members that are removed take their routes along.
LEMMA RemovedKeepsTables ==
    ASSUME NEW D, Tables, Removed(D)
    PROVE  TablesAfter
BY DEF Tables, TablesAfter, TablesOK, Removed

\* A heartbeat concerns a member only.
LEMMA BeatenKeepsTables ==
    ASSUME NEW m, NEW heard \in BOOLEAN, Tables, Beaten(m, heard)
    PROVE  TablesAfter
BY DEF Tables, TablesAfter, TablesOK, Beaten

\* So does what happens at the end of a broadcast.
LEMMA HandledKeepsTables ==
    ASSUME NEW m \in Message, m.agent \in Agents, NEW heard \in BOOLEAN, Tables, Handled(m, heard)
    PROVE  TablesAfter
<1>1. CASE m.kind = "join" /\ Joined(m, heard)
  <2>0. m.local \in BOOLEAN  BY DEF Message
  <2>1. CASE Added(m.agent, m.local)  BY <2>0, <2>1, AddedKeepsTables
  <2>2. CASE UNCHANGED <<memberVars, endpoints>>
        BY <2>2 DEF Tables, TablesAfter, memberVars
  <2> QED  BY <1>1, <2>1, <2>2 DEF Joined
<1>2. CASE m.kind = "leave" /\ Removed({m.agent})  BY <1>2, RemovedKeepsTables
<1>3. CASE m.kind = "heartbeat" /\ Beaten(m, heard)  BY <1>3, BeatenKeepsTables
<1> QED  BY <1>1, <1>2, <1>3 DEF Handled

\* The invariant in terms of the tables.
LEMMA TablesInInvariant ==
    IInv <=> /\ Tables
             /\ router \in {"basic", "mock", "production"}
             /\ message \in [Senders -> Message]
             /\ listed \subseteq Agents
             /\ round \in [size : Nat, done : SUBSET Agents]
             /\ entries \in 0..1
             /\ answer \in [Calls -> {"none", "waits", "true", "false"}]
             /\ seeded \subseteq Seeds
             /\ EmptyUnlessSeeded /\ NothingUnderway /\ MessagesNamed
BY DEF IInv, TypeOK, RoutesMatchMembers, Tables, TablesOK

\* A message sent to a target is a message, and not silent.
LEMMA SentIsMessage ==
    ASSUME NEW m \in Message, NEW T \in SUBSET Agents, NEW s \in Sent(m, T)
    PROVE  s \in Message /\ s.kind = m.kind /\ s.agent = m.agent /\ T # {}
<1>1. PICK a \in T : s = [m EXCEPT !.at = a, !.todo = T \ {a}]  BY DEF Sent
<1>2. a \in Agents /\ T \ {a} \in SUBSET Agents  OBVIOUS
<1> QED  BY <1>1, <1>2 DEF Message

\* What the senders send.
LEMMA NewMessages ==
    ASSUME NEW a \in Agents, NEW b \in BOOLEAN
    PROVE  /\ ToJoin(a, b) \in Message /\ ToJoin(a, b).agent = a /\ ToJoin(a, b).kind = "join"
           /\ ToLeave(a) \in Message /\ ToLeave(a).agent = a /\ ToLeave(a).kind = "leave"
           /\ ToBeat(a, b) \in Message /\ ToBeat(a, b).agent = a
           /\ ToBeat(a, b).kind = "heartbeat"
           /\ ~ToJoin(a, b).reached /\ ~ToLeave(a).reached /\ ~ToBeat(a, b).reached
BY DEF ToJoin, ToLeave, ToBeat, Silent, Message

\* A silent sender has a message, of no kind.
LEMMA SilentIsMessage == Silent \in Message /\ Silent.kind = "none"
BY DEF Silent, Message

\* The messages stay in order when one sender changes its own.
LEMMA MessageReplaced ==
    ASSUME NEW p \in Senders, NEW s \in Message,
           message \in [Senders -> Message], MessagesNamed, NothingUnderway,
           message' = [message EXCEPT ![p] = s],
           s.kind # "none" => s.agent \in Agents /\ seeded' # {},
           seeded' = seeded
    PROVE  message' \in [Senders -> Message] /\ MessagesNamed' /\ NothingUnderway'
BY DEF MessagesNamed, NothingUnderway

\* A broadcast without targets adds nobody.
LEMMA UnheardAddsNobody ==
    ASSUME NEW m \in Message, ~m.reached, Handled(m, FALSE)
    PROVE  members' \subseteq members /\ endpoints' \subseteq endpoints
BY DEF Handled, Joined, Removed, Beaten, memberVars

\* A call of an endpoint.
LEMMA CallKeepsInvariant ==
    ASSUME NEW c \in Calls, NEW m \in Message, m.agent \in Agents, m.kind # "none",
           ~m.reached, NEW T \in SUBSET endpoints, IInv, Call(c, m, T)
    PROVE  IInv'
<1> USE DEF receiptVars
<1>1. CASE T = {}
  <2>1. Handled(m, FALSE) /\ UNCHANGED message  BY <1>1 DEF Call
  <2>2. Tables  BY TablesInInvariant
  <2>3. UNCHANGED <<listed, round, router, entries, seeded>>  BY DEF Call
  <2>4. TablesAfter  BY <2>1, <2>2, HandledKeepsTables
  <2>5. members' \subseteq members /\ endpoints' \subseteq endpoints
        BY <2>1, UnheardAddsNobody
  <2>6. EmptyUnlessSeeded'  BY <2>3, <2>5 DEF IInv, EmptyUnlessSeeded
  <2>7. answer' \in [Calls -> {"none", "waits", "true", "false"}]
    <3>1. answer \in [Calls -> {"none", "waits", "true", "false"}]  BY DEF IInv, TypeOK
    <3>2. answer' = [answer EXCEPT ![c] = "true"] \/ answer' = [answer EXCEPT ![c] = "false"]
          BY <1>1 DEF Call
    <3> QED  BY <3>1, <3>2
  <2>8. (NothingUnderway /\ MessagesNamed)'
        BY <2>1, <2>3 DEF IInv, NothingUnderway, MessagesNamed
  <2> QED
      BY <2>1, <2>3, <2>4, <2>6, <2>7, <2>8
      DEF IInv, TypeOK, RoutesMatchMembers, TablesAfter, TablesOK
<1>2. CASE T # {}
  <2>1. PICK s \in Sent(m, T) : message' = [message EXCEPT ![c] = s]
        BY <1>2 DEF Call
  <2>2. /\ answer' = [answer EXCEPT ![c] = "waits"]
        /\ UNCHANGED <<memberVars, endpoints, listed, round, router, entries, seeded>>
        BY <1>2 DEF Call
  <2>3. T \in SUBSET Agents  BY DEF IInv, TypeOK
  <2>4. s \in Message /\ s.agent \in Agents  BY <2>1, <2>3, SentIsMessage
  <2>5. seeded' # {}  BY <1>2, <2>2 DEF IInv, EmptyUnlessSeeded
  <2>6. message' \in [Senders -> Message] /\ MessagesNamed' /\ NothingUnderway'
    <3>1. message \in [Senders -> Message] /\ MessagesNamed /\ NothingUnderway
          BY DEF IInv, TypeOK
    <3> QED  BY <2>1, <2>2, <2>4, <2>5, <3>1, MessageReplaced DEF Senders
  <2>7. answer' \in [Calls -> {"none", "waits", "true", "false"}]
        BY <2>2 DEF IInv, TypeOK
  <2> QED
      BY <2>2, <2>6, <2>7
      DEF IInv, TypeOK, RoutesMatchMembers, EmptyUnlessSeeded, memberVars
<1> QED  BY <1>1, <1>2

\* What one delivery does to the chain.
LEMMA ReceiptKeepsType ==
    ASSUME NEW ok \in BOOLEAN, Receipt(ok), IInv, router' = router
    PROVE  entries' \in 0..1
BY DEF Receipt, CanAppend, FailsInProduction, IInv, TypeOK

\* Once an agent is registered from outside, these parts are all there is.
LEMMA SeededInvariant ==
    ASSUME Tables', seeded' # {}, seeded' \subseteq Seeds,
           router' \in {"basic", "mock", "production"},
           message' \in [Senders -> Message], MessagesNamed',
           listed' \subseteq Agents, round' \in [size : Nat, done : SUBSET Agents],
           entries' \in 0..1,
           answer' \in [Calls -> {"none", "waits", "true", "false"}]
    PROVE  IInv'
<1>1. TypeOK'  BY DEF TypeOK, Tables, TablesOK
<1>2. RoutesMatchMembers'
  <2>1. local' \subseteq endpoints' /\ endpoints' \subseteq members' \cup seeded'
        BY DEF Tables, TablesOK
  <2> QED  BY <2>1 DEF RoutesMatchMembers
<1>3. EmptyUnlessSeeded' /\ NothingUnderway'  BY DEF EmptyUnlessSeeded, NothingUnderway
<1> QED  BY <1>1, <1>2, <1>3 DEF IInv

\* The number of members is a number.
LEMMA MembersCounted ==
    ASSUME TypeOK
    PROVE  Cardinality(members) \in Nat
<1>1. IsFiniteSet(Agents) /\ members \subseteq Agents  BY SwarmAssumption DEF TypeOK
<1>2. IsFiniteSet(members)  BY <1>1, FS_Subset
<1> QED  BY <1>2, FS_CardinalityType

\* What one sender's new message does, when an agent is registered.
LEMMA MessageKept ==
    ASSUME NEW p \in Senders, NEW s \in Message, IInv,
           s.kind # "none" => s.agent \in Agents,
           message' = [message EXCEPT ![p] = s]
    PROVE  message' \in [Senders -> Message] /\ MessagesNamed'
BY DEF IInv, TypeOK, MessagesNamed

\* The call at the end of its broadcast.
LEMMA CallEndsKeeps ==
    ASSUME NEW c \in Calls, NEW m \in Message, m.agent \in Agents, IInv, CallEnds(c, m)
    PROVE  /\ TablesOK(members', local', paused', lapsed', endpoints', seeded)
           /\ message' \in [Senders -> Message] /\ MessagesNamed'
           /\ listed' \subseteq Agents /\ round' \in [size : Nat, done : SUBSET Agents]
           /\ answer' \in [Calls -> {"none", "waits", "true", "false"}]
<1>1. Handled(m, TRUE) /\ UNCHANGED <<listed, round>>  BY DEF CallEnds
<1>2. TablesOK(members', local', paused', lapsed', endpoints', seeded)
  <2>1. Tables  BY TablesInInvariant
  <2>2. CASE m.kind = "join" /\ Joined(m, TRUE)
    <3>1. CASE Added(m.agent, m.local)
          BY <2>1, <3>1 DEF Tables, TablesOK, Added
    <3>2. CASE UNCHANGED <<memberVars, endpoints>>
          BY <2>1, <3>2 DEF Tables, memberVars
    <3> QED  BY <2>2, <3>1, <3>2 DEF Joined
  <2>3. CASE m.kind = "leave" /\ Removed({m.agent})
        BY <2>1, <2>3 DEF Tables, TablesOK, Removed
  <2>4. CASE m.kind = "heartbeat" /\ Beaten(m, TRUE)
        BY <2>1, <2>4 DEF Tables, TablesOK, Beaten
  <2> QED  BY <1>1, <2>2, <2>3, <2>4 DEF Handled
<1>3. message' \in [Senders -> Message] /\ MessagesNamed'
  <2>1. message' = [message EXCEPT ![c] = Silent]  BY DEF CallEnds
  <2> QED  BY <2>1, SilentIsMessage, MessageKept DEF Senders
<1>4. answer' \in [Calls -> {"none", "waits", "true", "false"}]
  <2>1. answer' = [answer EXCEPT ![c] = "true"] \/ answer' = [answer EXCEPT ![c] = "false"]
        BY DEF CallEnds
  <2> QED  BY <2>1 DEF IInv, TypeOK
<1> QED  BY <1>1, <1>2, <1>3, <1>4 DEF IInv, TypeOK

\* The sweep, going on.
LEMMA SweepsOnKeeps ==
    ASSUME NEW m \in Message, m.agent \in Agents, IInv, SweepsOn(m)
    PROVE  /\ TablesOK(members', local', paused', lapsed', endpoints', seeded)
           /\ message' \in [Senders -> Message] /\ MessagesNamed'
           /\ listed' \subseteq Agents /\ round' \in [size : Nat, done : SUBSET Agents]
           /\ answer' \in [Calls -> {"none", "waits", "true", "false"}]
<1>1. TablesOK(members', local', paused', lapsed', endpoints', seeded)
  <2>1. PICK D : Removed(D)  BY DEF SweepsOn
  <2> QED  BY <2>1, TablesInInvariant DEF Tables, TablesOK, Removed
<1>2. UNCHANGED <<round, answer>>  BY DEF SweepsOn
<1>3. /\ listed' \subseteq Agents
      /\ message' \in [Senders -> Message] /\ MessagesNamed'
  <2>1. CASE listed' = {} /\ message' = [message EXCEPT ![Sweeper] = Silent]
        BY <2>1, SilentIsMessage, MessageKept DEF Senders
  <2>2. CASE \E b \in listed : \E s \in Sent(ToLeave(b), endpoints') :
                 /\ listed' = listed \ {b}
                 /\ message' = [message EXCEPT ![Sweeper] = s]
    <3>0. PICK b \in listed : \E s \in Sent(ToLeave(b), endpoints') :
                 /\ listed' = listed \ {b}
                 /\ message' = [message EXCEPT ![Sweeper] = s]
          BY <2>2
    <3>1. PICK s \in Sent(ToLeave(b), endpoints') :
                 /\ listed' = listed \ {b}
                 /\ message' = [message EXCEPT ![Sweeper] = s]
          BY <3>0
    <3>2. b \in Agents /\ endpoints' \in SUBSET Agents
          BY <1>1 DEF IInv, TypeOK, TablesOK
    <3>3. ToLeave(b) \in Message /\ ToLeave(b).agent = b  BY <3>2, NewMessages
    <3>4. s \in Message /\ s.agent = b  BY <3>2, <3>3, SentIsMessage
    <3>5. message' \in [Senders -> Message] /\ MessagesNamed'
          BY <3>1, <3>2, <3>4, MessageKept DEF Senders
    <3> QED  BY <3>1, <3>5 DEF IInv, TypeOK
  <2> QED  BY <2>1, <2>2 DEF SweepsOn
<1> QED  BY <1>1, <1>2, <1>3 DEF IInv, TypeOK

\* The heartbeat loop, going on.
LEMMA BeatsOnKeeps ==
    ASSUME NEW m \in Message, m.agent \in Agents, IInv, BeatsOn(m)
    PROVE  /\ TablesOK(members', local', paused', lapsed', endpoints', seeded)
           /\ message' \in [Senders -> Message] /\ MessagesNamed'
           /\ listed' \subseteq Agents /\ round' \in [size : Nat, done : SUBSET Agents]
           /\ answer' \in [Calls -> {"none", "waits", "true", "false"}]
<1>1. Beaten(m, TRUE) /\ UNCHANGED <<listed, answer>>  BY DEF BeatsOn
<1>2. TablesOK(members', local', paused', lapsed', endpoints', seeded)
      BY <1>1, TablesInInvariant DEF Tables, TablesOK, Beaten
<1>3. /\ round' \in [size : Nat, done : SUBSET Agents]
      /\ message' \in [Senders -> Message] /\ MessagesNamed'
  <2> DEFINE done == round.done \cap members
  <2>1. CASE round' = NoRound /\ message' = [message EXCEPT ![Beater] = Silent]
    <3>1. message' \in [Senders -> Message] /\ MessagesNamed'
          BY <2>1, SilentIsMessage, MessageKept DEF Senders
    <3> QED  BY <2>1, <3>1 DEF NoRound
  <2>2. CASE \E b \in local : \E s \in Sent(ToBeat(b, b \in paused'), endpoints) :
                 /\ round' = [round EXCEPT !.done = done \cup {b}]
                 /\ message' = [message EXCEPT ![Beater] = s]
    <3>0. PICK b \in local : \E s \in Sent(ToBeat(b, b \in paused'), endpoints) :
                 /\ round' = [round EXCEPT !.done = done \cup {b}]
                 /\ message' = [message EXCEPT ![Beater] = s]
          BY <2>2
    <3>1. PICK s \in Sent(ToBeat(b, b \in paused'), endpoints) :
                 /\ round' = [round EXCEPT !.done = done \cup {b}]
                 /\ message' = [message EXCEPT ![Beater] = s]
          BY <3>0
    <3>2. b \in Agents /\ endpoints \in SUBSET Agents  BY DEF IInv, TypeOK
    <3> DEFINE isPaused == b \in paused'
    <3>3. isPaused \in BOOLEAN  OBVIOUS
    <3>4. ToBeat(b, isPaused) \in Message /\ ToBeat(b, isPaused).agent = b
      <4> HIDE DEF isPaused
      <4> QED  BY <3>2, <3>3, NewMessages
    <3>5. s \in Message /\ s.agent = b  BY <3>1, <3>2, <3>4, SentIsMessage
    <3>6. message' \in [Senders -> Message] /\ MessagesNamed'
          BY <3>1, <3>2, <3>5, MessageKept DEF Senders
    <3>7. done \cup {b} \in SUBSET Agents  BY <3>2 DEF IInv, TypeOK
    <3>8. round' \in [size : Nat, done : SUBSET Agents]
          BY <3>1, <3>7 DEF IInv, TypeOK
    <3> QED  BY <3>6, <3>8
  <2> QED  BY <2>1, <2>2 DEF BeatsOn
<1> QED  BY <1>1, <1>2, <1>3 DEF IInv, TypeOK

\* A sender's message, its delivery over, is still one.
LEMMA DeliveredIsMessage ==
    ASSUME NEW p \in Senders, NEW ok \in BOOLEAN, message \in [Senders -> Message]
    PROVE  /\ [message[p] EXCEPT !.reached = @ \/ ok] \in Message
           /\ [message[p] EXCEPT !.reached = @ \/ ok].agent = message[p].agent
<1>1. message[p] \in Message  OBVIOUS
<1>2. message[p].reached \in BOOLEAN  BY <1>1 DEF Message
<1>3. (message[p].reached \/ ok) \in BOOLEAN  OBVIOUS
<1> QED  BY <1>1, <1>3 DEF Message

\* A delivery, and the turn it ends in.
LEMMA DeliverKeeps ==
    ASSUME NEW p \in Senders, IInv, Deliver(p)
    PROVE  IInv'
<1>1. PICK ok \in BOOLEAN :
        /\ Receipt(ok)
        /\ LET m    == [message[p] EXCEPT !.reached = @ \/ ok]
               rest == m.todo \cap endpoints
           IN  IF rest # {}
               THEN /\ \E a \in rest :
                           message' = [message EXCEPT ![p] =
                                          [m EXCEPT !.at = a, !.todo = @ \ {a}]]
                    /\ UNCHANGED <<memberVars, endpoints, listed, round, answer>>
               ELSE CASE p = Sweeper -> SweepsOn(m)
                      [] p = Beater  -> BeatsOn(m)
                      [] OTHER       -> CallEnds(p, m)
      BY DEF Deliver
<1> DEFINE m    == [message[p] EXCEPT !.reached = @ \/ ok]
           rest == m.todo \cap endpoints
           Parts == /\ TablesOK(members', local', paused', lapsed', endpoints', seeded)
                    /\ message' \in [Senders -> Message] /\ MessagesNamed'
                    /\ listed' \subseteq Agents /\ round' \in [size : Nat, done : SUBSET Agents]
                    /\ answer' \in [Calls -> {"none", "waits", "true", "false"}]
<1>2. message[p].kind # "none" /\ UNCHANGED <<router, seeded>>  BY DEF Deliver
<1>3. seeded' # {} /\ seeded' \subseteq Seeds
      BY <1>2 DEF IInv, NothingUnderway, TypeOK
<1>4. m \in Message /\ m.agent \in Agents
  <2>1. message \in [Senders -> Message]  BY DEF IInv, TypeOK
  <2>2. message[p].agent \in Agents  BY <1>2 DEF IInv, MessagesNamed
  <2> QED  BY <2>1, <2>2, DeliveredIsMessage
<1>5. entries' \in 0..1
      BY <1>1, <1>2, ReceiptKeepsType
<1>6. ASSUME rest # {} PROVE Parts
  <2>1. PICK a \in rest : message' = [message EXCEPT ![p] =
                                          [m EXCEPT !.at = a, !.todo = @ \ {a}]]
        BY <1>1, <1>6
  <2>2. UNCHANGED <<memberVars, endpoints, listed, round, answer>>
        BY <1>1, <1>6
  <2> DEFINE s == [m EXCEPT !.at = a, !.todo = @ \ {a}]
  <2> HIDE DEF m
  <2>3. a \in Agents  BY DEF IInv, TypeOK
  <2>4. m.todo \ {a} \in SUBSET Agents  BY <1>4 DEF Message
  <2>5. s \in Message /\ s.agent = m.agent  BY <1>4, <2>3, <2>4 DEF Message
  <2> HIDE DEF s
  <2>6. message' = [message EXCEPT ![p] = s]  BY <2>1 DEF s
  <2>7. message' \in [Senders -> Message] /\ MessagesNamed'
        BY <1>4, <2>5, <2>6, MessageKept
  <2>8. Tables  BY TablesInInvariant
  <2> QED  BY <2>2, <2>7, <2>8 DEF Tables, IInv, TypeOK, memberVars
<1>7. ASSUME rest = {} PROVE Parts
  <2>1. CASE p = Sweeper
    <3>1. SweepsOn(m)  BY <1>1, <1>7, <2>1, SwarmAssumption
    <3> HIDE DEF m
    <3> QED  BY <1>4, <3>1, SweepsOnKeeps
  <2>2. CASE p = Beater /\ p # Sweeper
    <3>1. BeatsOn(m)  BY <1>1, <1>7, <2>2
    <3> HIDE DEF m
    <3> QED  BY <1>4, <3>1, BeatsOnKeeps
  <2>3. CASE p # Beater /\ p # Sweeper
    <3>1. CallEnds(p, m) /\ p \in Calls  BY <1>1, <1>7, <2>3 DEF Senders
    <3> HIDE DEF m
    <3> QED  BY <1>4, <3>1, CallEndsKeeps
  <2> QED  BY <2>1, <2>2, <2>3
<1>8. Parts  BY <1>6, <1>7
<1>9. router' \in {"basic", "mock", "production"}  BY <1>2 DEF IInv, TypeOK
<1>10. Tables'  BY <1>2, <1>8 DEF Tables, TablesOK
<1> QED  BY <1>3, <1>5, <1>8, <1>9, <1>10, SeededInvariant

\* A round of the cleanup begins.
LEMMA SweepKeeps ==
    ASSUME IInv, Sweep
    PROVE  IInv'
<1>0. UNCHANGED <<round, router, entries, answer, seeded>>
      BY DEF Sweep, receiptVars
<1>1. CASE endpoints = {}
  <2>1. Removed(Inactive) /\ UNCHANGED <<message, listed>>  BY <1>1 DEF Sweep
  <2>2. members' \subseteq members /\ endpoints' \subseteq endpoints  BY <2>1 DEF Removed
  <2>3. TablesAfter  BY <2>1, RemovedKeepsTables, TablesInInvariant
  <2>4. EmptyUnlessSeeded'  BY <1>0, <2>2 DEF IInv, EmptyUnlessSeeded
  <2>5. (NothingUnderway /\ MessagesNamed)'
        BY <1>0, <2>1 DEF IInv, NothingUnderway, MessagesNamed
  <2>6. TypeOK'  BY <1>0, <2>1, <2>3 DEF IInv, TypeOK, TablesAfter, TablesOK
  <2>7. RoutesMatchMembers'
    <3>1. local' \subseteq endpoints' /\ endpoints' \subseteq members' \cup seeded'
          BY <1>0, <2>3 DEF TablesAfter, TablesOK
    <3> QED  BY <3>1 DEF RoutesMatchMembers
  <2> QED  BY <2>4, <2>5, <2>6, <2>7 DEF IInv
<1>2. CASE endpoints # {}
  <2>1. PICK b \in Inactive : \E s \in Sent(ToLeave(b), endpoints) :
            /\ listed' = Inactive \ {b}
            /\ message' = [message EXCEPT ![Sweeper] = s]
        BY <1>2 DEF Sweep
  <2>2. PICK s \in Sent(ToLeave(b), endpoints) :
            /\ listed' = Inactive \ {b}
            /\ message' = [message EXCEPT ![Sweeper] = s]
        BY <2>1
  <2>3. UNCHANGED <<memberVars, endpoints>>  BY <1>2 DEF Sweep
  <2>4. Inactive \subseteq Agents /\ endpoints \in SUBSET Agents
        BY DEF IInv, TypeOK, Inactive
  <2>5. ToLeave(b) \in Message /\ ToLeave(b).agent = b  BY <2>4, NewMessages
  <2>6. s \in Message /\ s.agent = b  BY <2>4, <2>5, SentIsMessage
  <2>7. message' \in [Senders -> Message] /\ MessagesNamed'
        BY <2>2, <2>4, <2>6, MessageKept DEF Senders
  <2>8. Tables'
    <3>1. Tables  BY TablesInInvariant
    <3> QED  BY <1>0, <2>3, <3>1 DEF Tables, TablesOK, memberVars
  <2>9. seeded' # {}  BY <1>0, <1>2 DEF IInv, EmptyUnlessSeeded
  <2>10. listed' \subseteq Agents  BY <2>2, <2>4
  <2> QED  BY <1>0, <2>7, <2>8, <2>9, <2>10, SeededInvariant DEF IInv, TypeOK
<1> QED  BY <1>1, <1>2

\* A round of heartbeats begins.
LEMMA BeatKeeps ==
    ASSUME IInv, Beat
    PROVE  IInv'
<1>1. PICK b \in local : \E s \in Sent(ToBeat(b, b \in paused), endpoints) :
          /\ round' = [size |-> Cardinality(members), done |-> {b}]
          /\ message' = [message EXCEPT ![Beater] = s]
      BY DEF Beat
<1>2. PICK s \in Sent(ToBeat(b, b \in paused), endpoints) :
          /\ round' = [size |-> Cardinality(members), done |-> {b}]
          /\ message' = [message EXCEPT ![Beater] = s]
      BY <1>1
<1>3. UNCHANGED <<memberVars, endpoints, listed, router, entries, answer, seeded>>
      BY DEF Beat, receiptVars
<1>4. b \in Agents /\ endpoints \in SUBSET Agents  BY DEF IInv, TypeOK
<1> DEFINE isPaused == b \in paused
<1>5. ToBeat(b, isPaused) \in Message /\ ToBeat(b, isPaused).agent = b
  <2>1. isPaused \in BOOLEAN  OBVIOUS
  <2> HIDE DEF isPaused
  <2> QED  BY <1>4, <2>1, NewMessages
<1>6. s \in Message /\ s.agent = b  BY <1>2, <1>4, <1>5, SentIsMessage
<1>7. message' \in [Senders -> Message] /\ MessagesNamed'
      BY <1>2, <1>4, <1>6, MessageKept DEF Senders
<1>8. round' \in [size : Nat, done : SUBSET Agents]
      BY <1>2, <1>4, MembersCounted DEF IInv
<1>9. Tables'
  <2>1. Tables  BY TablesInInvariant
  <2> QED  BY <1>3, <2>1 DEF Tables, TablesOK, memberVars
<1>10. seeded' # {}
  <2>1. members # {}  BY DEF IInv, TypeOK
  <2> QED  BY <1>3, <2>1 DEF IInv, EmptyUnlessSeeded
<1> QED  BY <1>3, <1>7, <1>8, <1>9, <1>10, SeededInvariant DEF IInv, TypeOK

\* A heartbeat is missed.
LEMMA LapseKeeps ==
    ASSUME IInv, HeartbeatLapses
    PROVE  IInv'
BY DEF IInv, TypeOK, EmptyUnlessSeeded, NothingUnderway, RoutesMatchMembers, MessagesNamed,
       HeartbeatLapses, receiptVars

\* An agent is registered from outside.
LEMMA RegisterKeeps ==
    ASSUME IInv, RegisterAgent
    PROVE  IInv'
<1>1. PICK a \in Seeds \ seeded :
          seeded' = seeded \cup {a} /\ endpoints' = endpoints \cup {a}
      BY DEF RegisterAgent
<1>2. UNCHANGED <<memberVars, message, listed, round, receiptVars, answer>>
      BY DEF RegisterAgent
<1>3. a \in Agents /\ seeded' \subseteq Seeds /\ seeded' # {}
      BY <1>1, SwarmAssumption DEF IInv, TypeOK
<1>4. Tables'
  <2>1. Tables  BY TablesInInvariant
  <2> QED  BY <1>1, <1>2, <1>3, <2>1 DEF Tables, TablesOK, memberVars
<1>5. MessagesNamed'
      BY <1>2 DEF IInv, MessagesNamed, receiptVars
<1> QED  BY <1>2, <1>3, <1>4, <1>5, SeededInvariant DEF IInv, TypeOK, receiptVars

\* Every call of an endpoint.
LEMMA RequestKeeps ==
    ASSUME NEW c \in Calls, IInv, Request(c)
    PROVE  IInv'
<1>0. endpoints \in SUBSET Agents  BY DEF IInv, TypeOK
<1>1. CASE Join(c)
  <2>1. PICK a \in Agents, e \in BOOLEAN : Call(c, ToJoin(a, e), endpoints)
        BY <1>1 DEF Join
  <2>2. /\ ToJoin(a, e) \in Message /\ ToJoin(a, e).agent \in Agents
        /\ ToJoin(a, e).kind # "none" /\ ~ToJoin(a, e).reached
        BY NewMessages
  <2> QED  BY <2>1, <2>2, CallKeepsInvariant
<1>2. CASE Leave(c)
  <2>1. PICK a \in Agents : Call(c, ToLeave(a), endpoints)  BY <1>2 DEF Leave
  <2>2. /\ ToLeave(a) \in Message /\ ToLeave(a).agent \in Agents
        /\ ToLeave(a).kind # "none" /\ ~ToLeave(a).reached
        BY NewMessages
  <2> QED  BY <2>1, <2>2, CallKeepsInvariant
<1>3. CASE SendHeartbeat(c)
  <2>1. PICK a \in Agents, e \in BOOLEAN :
            \E T \in {endpoints} \cup {{t} \cap endpoints : t \in Agents} :
                Call(c, ToBeat(a, e), T)
        BY <1>3 DEF SendHeartbeat
  <2>2. PICK T \in {endpoints} \cup {{t} \cap endpoints : t \in Agents} :
            Call(c, ToBeat(a, e), T)
        BY <2>1
  <2>3. T \in SUBSET endpoints  OBVIOUS
  <2>4. /\ ToBeat(a, e) \in Message /\ ToBeat(a, e).agent \in Agents
        /\ ToBeat(a, e).kind # "none" /\ ~ToBeat(a, e).reached
        BY NewMessages
  <2> QED  BY <2>2, <2>3, <2>4, CallKeepsInvariant
<1>4. CASE ProposeOrVote(c)
      BY <1>4 DEF IInv, TypeOK, EmptyUnlessSeeded, NothingUnderway, RoutesMatchMembers,
                  MessagesNamed, ProposeOrVote, memberVars, receiptVars
<1> QED  BY <1>1, <1>2, <1>3, <1>4 DEF Request

\* The invariant holds at first: there is nothing.
LEMMA InitInv == Init => IInv
BY SilentIsMessage
   DEF Init, IInv, TypeOK, EmptyUnlessSeeded, NothingUnderway, RoutesMatchMembers,
       MessagesNamed, NoRound

\* Every step keeps it.
LEMMA StepInv == IInv /\ [Next]_vars => IInv'
<1> SUFFICES ASSUME IInv, [Next]_vars PROVE IInv'  OBVIOUS
<1>1. CASE Next
  <2>1. ASSUME NEW c \in Calls, Request(c) PROVE IInv'  BY <2>1, RequestKeeps
  <2>2. ASSUME NEW p \in Senders, Deliver(p) PROVE IInv'  BY <2>2, DeliverKeeps
  <2> QED  BY <1>1, <2>1, <2>2, SweepKeeps, BeatKeeps, LapseKeeps, RegisterKeeps DEF Next
<1>2. CASE UNCHANGED vars
      BY <1>2 DEF IInv, TypeOK, EmptyUnlessSeeded, NothingUnderway, RoutesMatchMembers,
                  MessagesNamed, vars, memberVars, receiptVars
<1> QED  BY <1>1, <1>2

\* The invariant always holds.
LEMMA Invariance == Spec => []IInv
BY InitInv, StepInv, PTL DEF Spec

\* Type correctness, for every set of agents and every number of calls.
THEOREM TypeCorrect == Spec => []TypeOK
<1>1. IInv => TypeOK  BY DEF IInv
<1> QED  BY Invariance, <1>1, PTL

\* Without an agent registered from outside the swarm stays empty, however
\* many join calls are made and loops run.
THEOREM StaysEmpty == Spec => []EmptyUnlessSeeded
<1>1. IInv => EmptyUnlessSeeded  BY DEF IInv
<1> QED  BY Invariance, <1>1, PTL

\* The members of disd_protocol.py and the routes of disd_router.py agree after
\* every turn of every interleaving of calls, sweeps and heartbeats.
THEOREM TablesAgree == Spec => []RoutesMatchMembers
<1>1. IInv => RoutesMatchMembers  BY DEF IInv
<1> QED  BY Invariance, <1>1, PTL
=============================================================================
