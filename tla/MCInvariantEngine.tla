------------------------- MODULE MCInvariantEngine -------------------------
(***************************************************************************)
(* InvariantEngine for TLC: a graph that satisfies everything, one that a  *)
(* path satisfies where the checks ask for an edge, and two that fail the  *)
(* other checks, so that calls with different graphs can be told apart.    *)
(***************************************************************************)
EXTENDS InvariantEngine

MCNodes == {"route", "middle", "handler", "agent"}

Sound ==
    [nodes |-> MCNodes,
     edges |-> {<<"route", "handler">>, <<"route", "middle">>},
     type  |-> [route |-> "route", middle |-> "other", handler |-> "handler",
                agent |-> "agent"],
     auth  |-> {"route"}, priv |-> {"handler"}, core |-> {"middle"},
     broken |-> FALSE, cycling |-> FALSE]

MCGraphs ==
    {Sound,
     [Sound EXCEPT !.edges = {<<"route", "middle">>, <<"middle", "handler">>},
                   !.auth  = {"route", "middle"}],
     [Sound EXCEPT !.nodes = {"route", "middle", "agent"},
                   !.edges = {<<"route", "handler">>, <<"agent", "middle">>},
                   !.broken = TRUE],
     [Sound EXCEPT !.edges = @ \cup {<<"middle", "handler">>}, !.cycling = TRUE]}
=============================================================================
