-------------------------- MODULE InvariantEngine --------------------------
(***************************************************************************)
(* check_all_invariants() of src/app/invariant_engine.py, as the mutation  *)
(* executor and POST /invariants/check call it, one action for each turn   *)
(* between two HTTP requests to the analysis service.                      *)
(*                                                                         *)
(* The service is external: an analysis gets a new id, its graph does not  *)
(* change, and any request may fail.  A graph is what the checks read of   *)
(* its nodes and edges, with the two other answers about the analysis:     *)
(* is there a broken connection of a route, and a cycle without breaker.   *)
(***************************************************************************)
EXTENDS Integers, Sequences

CONSTANTS
    Calls,              \* bound: the calls in a behaviour
    Nodes,
    Graphs              \* bound: what an analysis may find

GraphType ==
    [nodes   : SUBSET Nodes,
     edges   : SUBSET (Nodes \X Nodes),     \* their ends need not be nodes
     type    : [Nodes -> {"route", "handler", "agent", "other"}],
     auth    : SUBSET Nodes,                \* requires_auth
     priv    : SUBSET Nodes,                \* privileged
     core    : SUBSET Nodes,                \* layer "core"
     broken  : BOOLEAN,
     cycling : BOOLEAN]

ASSUME GraphsAssumption == Graphs \subseteq GraphType

Invariants == {"reachability", "no_orphan_handlers", "auth_boundary",
               "no_cycles", "capability_isolation"}

VARIABLES
    analyses,           \* the graphs of the analyses made; an id is an index
    last_analysis_id,   \* 0 is None
    invariant_results,  \* what GET /invariants/results shows
    call                \* the calls of check_all_invariants()

vars == <<analyses, last_analysis_id, invariant_results, call>>

\* "broken" is the second request of the check of reachability.
Points == {"new", "analyze", "broken", "done"} \cup Invariants

TypeOK ==
    /\ analyses \in Seq(Graphs)
    /\ last_analysis_id \in 0..Len(analyses)
    /\ invariant_results \in [Invariants -> {"none", "passed", "failed"}]
    /\ call \in [Calls -> [pc     : Points,
                           since  : Nat,    \* analyses made before the call
                           id     : Nat,
                           failed : SUBSET Invariants,
                           answer : {"none", "skipped", "passed", "failed"}]]

Init ==
    /\ analyses = <<>>
    /\ last_analysis_id = 0
    /\ invariant_results = [i \in Invariants |-> "none"]
    /\ call = [x \in Calls |-> [pc |-> "new", since |-> 0, id |-> 0,
                                failed |-> {}, answer |-> "none"]]

-----------------------------------------------------------------------------
(* What the checks compute. *)

OfType(g, t) == {n \in g.nodes : g.type[n] = t}

\* has_handler: an edge, not a path
RoutesHandled(g) ==
    \A r \in OfType(g, "route") : \E h \in OfType(g, "handler") : <<r, h>> \in g.edges

HandlersRouted(g) ==
    \A h \in OfType(g, "handler") : \E r \in OfType(g, "route") : <<r, h>> \in g.edges

\* An end that is no node is neither authenticated, privileged, agent nor core.
AuthBoundary(g) ==
    \A e \in g.edges : e[2] \in g.nodes \cap g.priv => e[1] \in g.nodes \cap g.auth

Isolation(g) ==
    \A e \in g.edges : e[1] \in OfType(g, "agent") => e[2] \notin g.nodes \cap g.core

\* The violations of the second request come on top of those of the first; an
\* answer other than 200 to it lists none.
Passes(i, g, listed) ==
    CASE i = "reachability"         -> RoutesHandled(g) /\ ~(listed /\ g.broken)
      [] i = "no_orphan_handlers"   -> HandlersRouted(g)
      [] i = "auth_boundary"        -> AuthBoundary(g)
      [] i = "no_cycles"            -> ~g.cycling
      [] i = "capability_isolation" -> Isolation(g)

\* get_analysis_result(analysis_id): analysis_id or self.last_analysis_id
Analysis(x) == analyses[IF call[x].id # 0 THEN call[x].id ELSE last_analysis_id]

\* Where the call goes after a check.
After(i) ==
    CASE i = "reachability"         -> "no_orphan_handlers"
      [] i = "no_orphan_handlers"   -> "auth_boundary"
      [] i = "auth_boundary"        -> "no_cycles"
      [] i = "no_cycles"            -> "capability_isolation"
      [] i = "capability_isolation" -> "done"

\* Call x goes on after check i, or answers after the last.
Proceed(x, i, failed) ==
    call' = [call EXCEPT ![x].pc = After(i),
                         ![x].failed = failed,
                         ![x].answer = IF After(i) # "done" THEN "none"
                                       ELSE IF failed = {} THEN "passed" ELSE "failed"]

-----------------------------------------------------------------------------
(* The turns. *)

CheckAllInvariants(x) ==
    /\ call[x].pc = "new"
    /\ call' = [call EXCEPT ![x].pc = "analyze", ![x].since = Len(analyses)]
    /\ UNCHANGED <<analyses, last_analysis_id, invariant_results>>

\* analyze_runtime() raises: every check counts as passed.
Skip(x) ==
    /\ call[x].pc = "analyze"
    /\ call' = [call EXCEPT ![x].pc = "done", ![x].answer = "skipped"]
    /\ UNCHANGED <<analyses, last_analysis_id, invariant_results>>

AnalyzeRuntime(x) ==
    /\ call[x].pc = "analyze"
    /\ \E g \in Graphs : analyses' = Append(analyses, g)
    /\ last_analysis_id' = Len(analyses')
    /\ call' = [call EXCEPT ![x].pc = "reachability", ![x].id = Len(analyses')]
    /\ UNCHANGED invariant_results

\* An answer without an id: every check raises at once, in the same turn.
AnalyzeUnnamed(x) ==
    /\ call[x].pc = "analyze"
    /\ last_analysis_id' = 0
    /\ call' = [call EXCEPT ![x].pc = "done", ![x].failed = Invariants,
                            ![x].answer = "failed"]
    /\ UNCHANGED <<analyses, invariant_results>>

\* The first of the two requests of the check of reachability.
ReadAnalysis(x) ==
    /\ call[x].pc = "reachability"
    /\ call' = [call EXCEPT ![x].pc = "broken"]
    /\ UNCHANGED <<analyses, last_analysis_id, invariant_results>>

\* Wrong: checks against the results shown by now.
CheckShown(x, i) ==
    /\ call[x].pc = IF i = "reachability" THEN "broken" ELSE i
    /\ \E listed \in IF i = "reachability" THEN BOOLEAN ELSE {TRUE} :
        LET passed == Passes(i, Analysis(x), listed)
        IN  /\ invariant_results' =
                   [invariant_results EXCEPT ![i] = IF passed THEN "passed" ELSE "failed"]
            /\ Proceed(x, i, {j \in Invariants : invariant_results'[j] = "failed"})
    /\ UNCHANGED <<analyses, last_analysis_id>>

Check(x, i) ==
    /\ call[x].pc = IF i = "reachability" THEN "broken" ELSE i
    /\ \E listed \in IF i = "reachability" THEN BOOLEAN ELSE {TRUE} :
        LET passed == Passes(i, Analysis(x), listed)
        IN  /\ invariant_results' =
                   [invariant_results EXCEPT ![i] = IF passed THEN "passed" ELSE "failed"]
            /\ Proceed(x, i, IF passed THEN call[x].failed ELSE call[x].failed \cup {i})
    /\ UNCHANGED <<analyses, last_analysis_id>>

\* Wrong: enters the failure into the table.
CheckRaisesShown(x, i) ==
    /\ call[x].pc \in IF i = "reachability" THEN {"reachability", "broken"} ELSE {i}
    /\ Proceed(x, i, call[x].failed \cup {i})
    /\ invariant_results' = [invariant_results EXCEPT ![i] = "failed"]
    /\ UNCHANGED <<analyses, last_analysis_id>>

\* Wrong: makes the check again until it gets its answers.
CheckRetries(x, i) ==
    /\ call[x].pc \in IF i = "reachability" THEN {"reachability", "broken"} ELSE {i}
    /\ call' = [call EXCEPT ![x].pc = i]
    /\ UNCHANGED <<analyses, last_analysis_id, invariant_results>>

\* A request fails: the check has failed, and the table keeps what it had.
CheckRaises(x, i) ==
    /\ call[x].pc \in IF i = "reachability" THEN {"reachability", "broken"} ELSE {i}
    /\ Proceed(x, i, call[x].failed \cup {i})
    /\ UNCHANGED <<analyses, last_analysis_id, invariant_results>>

\* What the service does to a call that waits for it.
Resumed(x) ==
    \/ Skip(x) \/ AnalyzeRuntime(x) \/ AnalyzeUnnamed(x) \/ ReadAnalysis(x)
    \/ \E i \in Invariants : Check(x, i) \/ CheckRaises(x, i)

Next == \E x \in Calls : CheckAllInvariants(x) \/ Resumed(x)

\* Every request has a timeout, so every wait ends.
Spec == Init /\ [][Next]_vars /\ \A x \in Calls : WF_vars(Resumed(x))

-----------------------------------------------------------------------------
(* Properties. *)

\* There is a path from a to b: b is in every set of nodes that has a and all
\* that an edge leads to from within.
Path(g, a, b) ==
    \A S \in SUBSET Nodes :
        a \in S /\ (\A e \in g.edges : e[1] \in S => e[2] \in S) => b \in S

\* The five invariants as their docstrings state them.
Documented(g) ==
    /\ \A r \in OfType(g, "route") : \E h \in OfType(g, "handler") : Path(g, r, h)
    /\ \A h \in OfType(g, "handler") : \E r \in OfType(g, "route") : Path(g, r, h)
    /\ ~\E e \in g.edges : /\ e[1] \notin g.nodes \cap g.auth
                           /\ e[2] \in g.nodes \cap g.priv
    /\ ~g.cycling
    /\ ~\E e \in g.edges : /\ e[1] \in OfType(g, "agent")
                           /\ e[2] \in g.nodes \cap g.core

\* A mutation is let through, other than for want of the service, only if one
\* and the same analysis, begun after the mutation had been applied, satisfies
\* every documented invariant, whatever other calls analyse, check and show
\* meanwhile.
VerdictSound ==
    \A x \in Calls : call[x].answer = "passed" =>
        \E k \in call[x].since + 1 .. Len(analyses) : Documented(analyses[k])

\* What GET /invariants/results shows of an invariant was measured in some
\* analysis: a check that could not be made shows neither success nor failure.
ShownWasMeasured ==
    \A i \in Invariants :
        /\ invariant_results[i] = "passed" =>
               \E k \in DOMAIN analyses, listed \in BOOLEAN : Passes(i, analyses[k], listed)
        /\ invariant_results[i] = "failed" =>
               \E k \in DOMAIN analyses : ~Passes(i, analyses[k], TRUE)

\* Every call that has begun is answered, whichever requests fail.
Answered == \A x \in Calls : call[x].pc = "analyze" ~> call[x].pc = "done"
=============================================================================
