-------------------------- MODULE MCAgentAuthority --------------------------
(* AgentAuthority for TLC: requests are interchangeable, and an agent asks    *)
(* for an update, one that governance rejects, one that touches three         *)
(* services, with a token and without, and a delete, which is high-risk.      *)
EXTENDS AgentAuthority, TLC

CONSTANTS agent, update_file, delete_file

RequestSymmetry == Permutations(Requests)

Update == [agent |-> agent, capability |-> update_file, operation |-> "write",
           size |-> 100, names |-> {"auth"}, path |-> "runtime", core |-> FALSE,
           confidence |-> 90, token |-> FALSE]
Wide     == [Update EXCEPT !.names = {"auth", "chat", "config"}]
Granted  == [Wide EXCEPT !.token = TRUE]
Doubtful == [Update EXCEPT !.confidence = 50]
Delete   == [Update EXCEPT !.capability = delete_file, !.operation = "delete"]

MCKinds == {Update, Doubtful, Wide, Granted, Delete}

MCGrammar ==
    [c \in {update_file, delete_file} |->
        [requires |-> {"snapshot", "confidence"}, confidence |-> 50,
         allowed |-> {"runtime"}, denied |-> {}]]
=============================================================================
