----------------------- MODULE InvariantEngineProofs -----------------------
(***************************************************************************)
(* Proofs for InvariantEngine: type correctness, that a call passes only   *)
(* on an analysis of its own that satisfies everything, and that what the  *)
(* service shows was measured.                                             *)
(***************************************************************************)
EXTENDS InvariantEngine, TLAPS

\* The checks a call has behind it.
Made(pc) ==
    CASE pc = "no_orphan_handlers"   -> {"reachability"}
      [] pc = "auth_boundary"        -> {"reachability", "no_orphan_handlers"}
      [] pc = "no_cycles"            -> {"reachability", "no_orphan_handlers", "auth_boundary"}
      [] pc = "capability_isolation" -> Invariants \ {"capability_isolation"}
      [] pc = "done"                 -> Invariants
      [] OTHER                       -> {}

Checking == {"broken"} \cup Invariants

\* Call c holds the id of an analysis made since it began, which has passed
\* all checks behind it but those that count as failed.
OnOneAnalysis(c, as) ==
    /\ c.id \in c.since + 1 .. Len(as)
    /\ \A i \in Made(c.pc) \ c.failed : Passes(i, as[c.id], FALSE)

\* Why a verdict is sound.
CallOK(c, as) ==
    /\ c.since <= Len(as)
    /\ c.pc # "done" => c.answer = "none"
    /\ c.answer = "passed" => c.failed = {}
    /\ c.pc \in Checking \/ c.answer = "passed" => OnOneAnalysis(c, as)

CallsOK == \A x \in Calls : CallOK(call[x], analyses)

IInv == TypeOK /\ CallsOK /\ ShownWasMeasured

CallType ==
    [pc     : Points,
     since  : Nat,
     id     : Nat,
     failed : SUBSET Invariants,
     answer : {"none", "skipped", "passed", "failed"}]

-----------------------------------------------------------------------------
\* A broken connection can only make a check fail.
LEMMA PassesUnlisted ==
    ASSUME NEW i \in Invariants, NEW g, NEW listed \in BOOLEAN
    PROVE  /\ Passes(i, g, listed) => Passes(i, g, FALSE)
           /\ Passes(i, g, TRUE) => Passes(i, g, listed)
           /\ Passes(i, g, listed) \in BOOLEAN
BY DEF Passes, Invariants, RoutesHandled, HandlersRouted, AuthBoundary, Isolation

\* An edge is a path.
LEMMA EdgeIsPath ==
    ASSUME NEW g, NEW a, NEW b, <<a, b>> \in g.edges
    PROVE  Path(g, a, b)
<1>1. /\ <<a, b>>[1] = a
      /\ <<a, b>>[2] = b
      OBVIOUS
<1> QED  BY <1>1 DEF Path

\* The checks imply what the docstrings say.
LEMMA ChecksImplyDocumented ==
    ASSUME NEW g, \A i \in Invariants : Passes(i, g, FALSE)
    PROVE  Documented(g)
<1>1. RoutesHandled(g)
  <2>1. Passes("reachability", g, FALSE)  BY DEF Invariants
  <2> QED  BY <2>1 DEF Passes
<1>2. HandlersRouted(g)
  <2>1. Passes("no_orphan_handlers", g, FALSE)  BY DEF Invariants
  <2> QED  BY <2>1 DEF Passes
<1>3. AuthBoundary(g)
  <2>1. Passes("auth_boundary", g, FALSE)  BY DEF Invariants
  <2> QED  BY <2>1 DEF Passes
<1>4. ~g.cycling
  <2>1. Passes("no_cycles", g, FALSE)  BY DEF Invariants
  <2> QED  BY <2>1 DEF Passes
<1>5. Isolation(g)
  <2>1. Passes("capability_isolation", g, FALSE)  BY DEF Invariants
  <2> QED  BY <2>1 DEF Passes
<1>6. \A r \in OfType(g, "route") : \E h \in OfType(g, "handler") : Path(g, r, h)
      BY <1>1, EdgeIsPath DEF RoutesHandled
<1>7. \A h \in OfType(g, "handler") : \E r \in OfType(g, "route") : Path(g, r, h)
      BY <1>2, EdgeIsPath DEF HandlersRouted
<1> QED  BY <1>3, <1>4, <1>5, <1>6, <1>7 DEF Documented, AuthBoundary, Isolation

\* The order of the checks.
LEMMA Order ==
    ASSUME NEW i \in Invariants
    PROVE  /\ After(i) \in Points
           /\ Made(After(i)) = Made(i) \cup {i}
           /\ After(i) = "done" \/ After(i) \in Checking
           /\ Made("reachability") = {} /\ Made("broken") = {} /\ Made("done") = Invariants
BY DEF After, Made, Invariants, Points, Checking

\* An analysis keeps its id, and its graph, when more are made.
LEMMA AnalysesGrow ==
    ASSUME NEW c \in CallType, analyses \in Seq(Graphs), NEW g \in Graphs,
           CallOK(c, analyses)
    PROVE  CallOK(c, Append(analyses, g))
<1> DEFINE as == Append(analyses, g)
<1>1. Len(as) = Len(analyses) + 1 /\ \A k \in 1..Len(analyses) : as[k] = analyses[k]
      OBVIOUS
<1>2. Len(analyses) \in Nat /\ c.since \in Nat /\ c.id \in Nat  BY DEF CallType
<1>3. ASSUME OnOneAnalysis(c, analyses) PROVE OnOneAnalysis(c, as)
  <2>1. c.id \in c.since + 1 .. Len(analyses)  BY <1>3 DEF OnOneAnalysis
  <2>2. c.id \in 1..Len(analyses) /\ c.id \in c.since + 1 .. Len(as)  BY <1>1, <1>2, <2>1
  <2>3. as[c.id] = analyses[c.id]  BY <1>1, <2>2
  <2> HIDE DEF as
  <2> QED  BY <1>3, <2>2, <2>3 DEF OnOneAnalysis
<1>4. c.since <= Len(as)  BY <1>1, <1>2 DEF CallOK
<1> HIDE DEF as
<1>5. CallOK(c, as)  BY <1>3, <1>4 DEF CallOK
<1> QED  BY <1>5 DEF as

\* What is shown was measured still when more analyses are made.
LEMMA MeasuredStays ==
    ASSUME NEW g \in Graphs, analyses \in Seq(Graphs), ShownWasMeasured,
           analyses' = Append(analyses, g), UNCHANGED invariant_results
    PROVE  ShownWasMeasured'
<1>1. DOMAIN analyses \subseteq DOMAIN analyses'  OBVIOUS
<1>2. \A k \in DOMAIN analyses : analyses'[k] = analyses[k]  OBVIOUS
<1> QED  BY <1>1, <1>2 DEF ShownWasMeasured

-----------------------------------------------------------------------------
\* A step that changes one call and no analysis.
LEMMA CallReplaced ==
    ASSUME NEW x \in Calls, NEW c \in CallType, TypeOK, CallsOK,
           call' = [call EXCEPT ![x] = c], analyses' = analyses, CallOK(c, analyses)
    PROVE  call' \in [Calls -> CallType] /\ CallsOK'
<1>1. call \in [Calls -> CallType]  BY DEF TypeOK, CallType
<1>2. call'[x] = c /\ \A y \in Calls \ {x} : call'[y] = call[y]  BY <1>1
<1> QED  BY <1>1, <1>2 DEF CallsOK

\* A call begins: it has no answer, and makes no check.
LEMMA BeginKeeps ==
    ASSUME NEW x \in Calls, IInv, CheckAllInvariants(x)
    PROVE  IInv'
<1> DEFINE c == [call[x] EXCEPT !.pc = "analyze", !.since = Len(analyses)]
<1>1. call[x] \in CallType /\ Len(analyses) \in Nat  BY DEF IInv, TypeOK, CallType
<1>2. c \in CallType  BY <1>1 DEF CallType, Points
<1>3. call' = [call EXCEPT ![x] = c] /\ UNCHANGED <<analyses, last_analysis_id, invariant_results>>
      BY DEF CheckAllInvariants
<1>4. CallOK(c, analyses)
  <2>1. call[x].answer = "none"  BY DEF CheckAllInvariants, IInv, CallsOK, CallOK
  <2>2. c.answer = "none" /\ c.pc = "analyze" /\ c.since = Len(analyses)
        BY <1>1, <2>1 DEF CallType
  <2> QED  BY <1>1, <2>2 DEF CallOK, Checking, Invariants
<1> HIDE DEF c
<1>5. call' \in [Calls -> CallType] /\ CallsOK'
      BY <1>2, <1>3, <1>4, CallReplaced DEF IInv
<1>6. ShownWasMeasured'  BY <1>3 DEF IInv, ShownWasMeasured
<1> QED  BY <1>3, <1>5, <1>6 DEF IInv, TypeOK, CallType

\* A call that is let through without a check.
LEMMA SkipKeeps ==
    ASSUME NEW x \in Calls, IInv, Skip(x)
    PROVE  IInv'
<1> DEFINE c == [call[x] EXCEPT !.pc = "done", !.answer = "skipped"]
<1>1. call[x] \in CallType  BY DEF IInv, TypeOK, CallType
<1>2. c \in CallType  BY <1>1 DEF CallType, Points
<1>3. call' = [call EXCEPT ![x] = c] /\ UNCHANGED <<analyses, last_analysis_id, invariant_results>>
      BY DEF Skip
<1>4. CallOK(c, analyses)
  <2>1. c.answer = "skipped" /\ c.pc = "done" /\ c.since = call[x].since
        BY <1>1 DEF CallType
  <2>2. call[x].since <= Len(analyses)  BY DEF IInv, CallsOK, CallOK
  <2> QED  BY <2>1, <2>2 DEF CallOK, Checking, Invariants
<1> HIDE DEF c
<1>5. call' \in [Calls -> CallType] /\ CallsOK'
      BY <1>2, <1>3, <1>4, CallReplaced DEF IInv
<1>6. ShownWasMeasured'  BY <1>3 DEF IInv, ShownWasMeasured
<1> QED  BY <1>3, <1>5, <1>6 DEF IInv, TypeOK, CallType

\* An analysis without an id fails every check.
LEMMA UnnamedKeeps ==
    ASSUME NEW x \in Calls, IInv, AnalyzeUnnamed(x)
    PROVE  IInv'
<1> DEFINE c == [call[x] EXCEPT !.pc = "done", !.failed = Invariants, !.answer = "failed"]
<1>1. call[x] \in CallType  BY DEF IInv, TypeOK, CallType
<1>2. c \in CallType  BY <1>1 DEF CallType, Points
<1>3. call' = [call EXCEPT ![x] = c] /\ UNCHANGED <<analyses, invariant_results>>
      /\ last_analysis_id' = 0
      BY DEF AnalyzeUnnamed
<1>4. CallOK(c, analyses)
  <2>1. c.answer = "failed" /\ c.pc = "done" /\ c.since = call[x].since
        BY <1>1 DEF CallType
  <2>2. call[x].since <= Len(analyses)  BY DEF IInv, CallsOK, CallOK
  <2> QED  BY <2>1, <2>2 DEF CallOK, Checking, Invariants
<1> HIDE DEF c
<1>5. call' \in [Calls -> CallType] /\ CallsOK'
      BY <1>2, <1>3, <1>4, CallReplaced DEF IInv
<1>6. ShownWasMeasured'  BY <1>3 DEF IInv, ShownWasMeasured
<1> QED  BY <1>3, <1>5, <1>6 DEF IInv, TypeOK, CallType

\* An analysis: the call holds its id, and it is newer than the call.
LEMMA AnalyzeKeeps ==
    ASSUME NEW x \in Calls, IInv, AnalyzeRuntime(x)
    PROVE  IInv'
<1>1. PICK g \in Graphs : analyses' = Append(analyses, g)  BY DEF AnalyzeRuntime
<1> DEFINE c == [call[x] EXCEPT !.pc = "reachability", !.id = Len(analyses')]
<1>2. call \in [Calls -> CallType] /\ analyses \in Seq(Graphs)  BY DEF IInv, TypeOK, CallType
<1>3. /\ analyses' \in Seq(Graphs) /\ Len(analyses') = Len(analyses) + 1
      /\ Len(analyses) \in Nat
      BY <1>1, <1>2
<1>4. c \in CallType
  <2>1. call[x] \in CallType /\ Len(analyses') \in Nat  BY <1>2, <1>3
  <2> QED  BY <2>1 DEF CallType, Points, Invariants
<1>5. call' = [call EXCEPT ![x] = c] /\ UNCHANGED invariant_results
      /\ last_analysis_id' = Len(analyses')
      BY DEF AnalyzeRuntime
<1>6. CallOK(c, analyses')
  <2>1. call[x].answer = "none"  BY DEF AnalyzeRuntime, IInv, CallsOK, CallOK
  <2>2. c.answer = "none" /\ c.pc = "reachability" /\ c.id = Len(analyses')
        /\ c.since = call[x].since
        BY <1>2, <2>1 DEF CallType
  <2>3. call[x].since \in Nat  BY <1>2 DEF CallType
  <2>4. call[x].since <= Len(analyses)  BY DEF IInv, CallsOK, CallOK
  <2>5. c.id \in c.since + 1 .. Len(analyses')  BY <1>3, <2>2, <2>3, <2>4
  <2>6. Made(c.pc) = {}  BY <2>2 DEF Made
  <2> HIDE DEF c
  <2>7. OnOneAnalysis(c, analyses')  BY <2>5, <2>6 DEF OnOneAnalysis
  <2>8. c.since <= Len(analyses')  BY <1>3, <2>2, <2>3, <2>4
  <2> QED  BY <2>2, <2>7, <2>8 DEF CallOK
<1>7. \A y \in Calls : CallOK(call[y], analyses')
      BY <1>1, <1>2, AnalysesGrow DEF IInv, CallsOK
<1> HIDE DEF c
<1>8. CallsOK'
  <2>1. call'[x] = c /\ \A y \in Calls \ {x} : call'[y] = call[y]  BY <1>2, <1>5
  <2> QED  BY <1>6, <1>7, <2>1 DEF CallsOK
<1>9. ShownWasMeasured'
      BY <1>1, <1>2, <1>5, MeasuredStays DEF IInv
<1>10. call' \in [Calls -> CallType]  BY <1>2, <1>4, <1>5
<1> QED  BY <1>3, <1>5, <1>8, <1>9, <1>10 DEF IInv, TypeOK, CallType

\* The first answer of the check of reachability.
LEMMA ReadKeeps ==
    ASSUME NEW x \in Calls, IInv, ReadAnalysis(x)
    PROVE  IInv'
<1> DEFINE c == [call[x] EXCEPT !.pc = "broken"]
<1>1. call[x] \in CallType  BY DEF IInv, TypeOK, CallType
<1>2. c \in CallType  BY <1>1 DEF CallType, Points
<1>3. call' = [call EXCEPT ![x] = c] /\ UNCHANGED <<analyses, last_analysis_id, invariant_results>>
      BY DEF ReadAnalysis
<1>4. CallOK(c, analyses)
  <2>1. /\ c.pc = "broken" /\ c.since = call[x].since /\ c.id = call[x].id
        /\ c.failed = call[x].failed /\ c.answer = call[x].answer
        BY <1>1 DEF CallType
  <2>2. CallOK(call[x], analyses) /\ call[x].pc = "reachability"
        BY DEF IInv, CallsOK, ReadAnalysis
  <2>3. OnOneAnalysis(call[x], analyses)  BY <2>2 DEF CallOK, Checking, Invariants
  <2>4. Made(c.pc) = {}  BY <2>1 DEF Made
  <2> HIDE DEF c
  <2>5. OnOneAnalysis(c, analyses)  BY <2>1, <2>3, <2>4 DEF OnOneAnalysis
  <2> QED  BY <2>1, <2>2, <2>5 DEF CallOK
<1> HIDE DEF c
<1>5. call' \in [Calls -> CallType] /\ CallsOK'
      BY <1>2, <1>3, <1>4, CallReplaced DEF IInv
<1>6. ShownWasMeasured'  BY <1>3 DEF IInv, ShownWasMeasured
<1> QED  BY <1>3, <1>5, <1>6 DEF IInv, TypeOK, CallType

\* A call that makes a check is on an analysis that exists.
LEMMA CheckingIsOnAnalysis ==
    ASSUME NEW x \in Calls, NEW i \in Invariants, IInv,
           call[x].pc \in IF i = "reachability" THEN {"reachability", "broken"} ELSE {i}
    PROVE  /\ OnOneAnalysis(call[x], analyses)
           /\ call[x].id \in DOMAIN analyses /\ call[x].id # 0
           /\ Made(call[x].pc) = Made(i)
<1>1. call[x] \in CallType /\ analyses \in Seq(Graphs)  BY DEF IInv, TypeOK, CallType
<1>2. call[x].pc \in Checking  BY DEF Checking, Invariants
<1>3. OnOneAnalysis(call[x], analyses)  BY <1>2 DEF IInv, CallsOK, CallOK
<1>4. call[x].id \in call[x].since + 1 .. Len(analyses)  BY <1>3 DEF OnOneAnalysis
<1>5. call[x].since \in Nat /\ Len(analyses) \in Nat /\ DOMAIN analyses = 1..Len(analyses)
      BY <1>1 DEF CallType
<1>6. call[x].id \in DOMAIN analyses /\ call[x].id # 0  BY <1>4, <1>5
<1>7. Made(call[x].pc) = Made(i)
  <2>1. CASE i = "reachability"
    <3>1. call[x].pc = "reachability" \/ call[x].pc = "broken"  BY <2>1
    <3> QED  BY <2>1, <3>1 DEF Made
  <2>2. CASE i # "reachability"  BY <2>2
  <2> QED  BY <2>1, <2>2
<1> QED  BY <1>3, <1>6, <1>7

\* A check is behind the call, passed or counted as failed.
LEMMA ProceedKeeps ==
    ASSUME NEW x \in Calls, NEW i \in Invariants, NEW F \in SUBSET Invariants, IInv,
           call[x].pc \in IF i = "reachability" THEN {"reachability", "broken"} ELSE {i},
           call[x].failed \subseteq F,
           i \notin F => Passes(i, analyses[call[x].id], FALSE),
           Proceed(x, i, F), analyses' = analyses
    PROVE  call' \in [Calls -> CallType] /\ CallsOK'
<1> DEFINE a == IF After(i) # "done" THEN "none"
                ELSE IF F = {} THEN "passed" ELSE "failed"
           c == [call[x] EXCEPT !.pc = After(i), !.failed = F, !.answer = a]
<1>1. call[x] \in CallType  BY DEF IInv, TypeOK, CallType
<1>2. /\ a \in {"none", "passed", "failed"}
      /\ After(i) # "done" => a = "none"
      /\ a = "passed" => F = {}
      OBVIOUS
<1>3. call' = [call EXCEPT ![x].pc = After(i), ![x].failed = F, ![x].answer = a]
      BY DEF Proceed
<1> HIDE DEF a
<1>4. /\ c.pc = After(i) /\ c.failed = F /\ c.answer = a
      /\ c.since = call[x].since /\ c.id = call[x].id
      BY <1>1 DEF CallType
<1>5. c \in CallType
  <2>1. After(i) \in Points  BY Order
  <2> QED  BY <1>1, <1>2, <2>1 DEF CallType
<1>6. OnOneAnalysis(call[x], analyses) /\ Made(call[x].pc) = Made(i)
      BY CheckingIsOnAnalysis
<1>7. Made(c.pc) = Made(i) \cup {i}  BY <1>4, Order
<1> HIDE DEF c
<1>8. OnOneAnalysis(c, analyses)
  <2>1. c.id \in c.since + 1 .. Len(analyses)  BY <1>4, <1>6 DEF OnOneAnalysis
  <2>2. ASSUME NEW j \in Made(c.pc) \ c.failed PROVE Passes(j, analyses[c.id], FALSE)
    <3>1. CASE j = i  BY <1>4, <2>2, <3>1
    <3>2. CASE j # i
      <4>1. j \in Made(call[x].pc) \ call[x].failed  BY <1>4, <1>6, <1>7, <2>2, <3>2
      <4> QED  BY <1>4, <1>6, <4>1 DEF OnOneAnalysis
    <3> QED  BY <3>1, <3>2
  <2> QED  BY <2>1, <2>2 DEF OnOneAnalysis
<1>9. call[x].since <= Len(analyses)  BY DEF IInv, CallsOK, CallOK
<1>10. CallOK(c, analyses)  BY <1>2, <1>4, <1>8, <1>9 DEF CallOK
<1>11. call' = [call EXCEPT ![x] = c]  BY <1>3 DEF c
<1> QED  BY <1>5, <1>10, <1>11, CallReplaced DEF IInv

\* A check that could not be made.
LEMMA RaisesKeeps ==
    ASSUME NEW x \in Calls, NEW i \in Invariants, IInv, CheckRaises(x, i)
    PROVE  IInv'
<1> DEFINE F == call[x].failed \cup {i}
<1>1. UNCHANGED <<analyses, last_analysis_id, invariant_results>> /\ Proceed(x, i, F)
      BY DEF CheckRaises
<1>2. call[x].failed \subseteq Invariants  BY DEF IInv, TypeOK
<1>3. call[x].pc \in IF i = "reachability" THEN {"reachability", "broken"} ELSE {i}
      BY DEF CheckRaises
<1>4. F \in SUBSET Invariants /\ call[x].failed \subseteq F /\ i \in F  BY <1>2
<1> HIDE DEF F
<1>5. call' \in [Calls -> CallType] /\ CallsOK'
      BY <1>1, <1>3, <1>4, ProceedKeeps
<1>6. ShownWasMeasured'  BY <1>1 DEF IInv, ShownWasMeasured
<1> QED  BY <1>1, <1>5, <1>6 DEF IInv, TypeOK, CallType

\* A check that was made: its outcome is counted and shown.
LEMMA CheckKeeps ==
    ASSUME NEW x \in Calls, NEW i \in Invariants, IInv, Check(x, i)
    PROVE  IInv'
<1> DEFINE g == Analysis(x)
           pcs == IF i = "reachability" THEN {"reachability", "broken"} ELSE {i}
<1>1. PICK listed \in BOOLEAN :
        /\ invariant_results' =
               [invariant_results EXCEPT ![i] = IF Passes(i, g, listed) THEN "passed" ELSE "failed"]
        /\ Proceed(x, i, IF Passes(i, g, listed) THEN call[x].failed ELSE call[x].failed \cup {i})
  <2>1. CASE i = "reachability"  BY <2>1 DEF Check
  <2>2. CASE i # "reachability"  BY <2>2 DEF Check
  <2> QED  BY <2>1, <2>2
<1>2. UNCHANGED <<analyses, last_analysis_id>>  BY DEF Check
<1>3. call[x].pc \in pcs  BY DEF Check
<1>4. call[x].id \in DOMAIN analyses /\ call[x].id # 0  BY <1>3, CheckingIsOnAnalysis
<1>5. g = analyses[call[x].id]  BY <1>4 DEF Analysis
<1> DEFINE passed == Passes(i, g, listed)
           F == IF passed THEN call[x].failed ELSE call[x].failed \cup {i}
           r == IF passed THEN "passed" ELSE "failed"
<1> HIDE DEF g
<1>6. passed \in BOOLEAN /\ (passed => Passes(i, g, FALSE)) /\ (Passes(i, g, TRUE) => passed)
      BY PassesUnlisted
<1>7. call[x].failed \subseteq Invariants  BY DEF IInv, TypeOK
<1>8. invariant_results' = [invariant_results EXCEPT ![i] = r] /\ Proceed(x, i, F)
      BY <1>1
<1> HIDE DEF passed
<1>9. F \in SUBSET Invariants /\ call[x].failed \subseteq F /\ (i \notin F => passed)
      BY <1>7
<1>10. i \notin F => Passes(i, analyses[call[x].id], FALSE)  BY <1>5, <1>6, <1>9
<1>11. r \in {"passed", "failed"} /\ (r = "passed" => passed) /\ (r = "failed" => ~passed)
      OBVIOUS
<1> HIDE DEF F, r, pcs
<1>12. call' \in [Calls -> CallType] /\ CallsOK'
      BY <1>2, <1>3, <1>8, <1>9, <1>10, ProceedKeeps DEF pcs
<1>13. invariant_results' \in [Invariants -> {"none", "passed", "failed"}]
      BY <1>8, <1>11 DEF IInv, TypeOK
<1>14. ShownWasMeasured'
  <2> SUFFICES ASSUME NEW j \in Invariants
      PROVE  /\ invariant_results'[j] = "passed" =>
                    \E k \in DOMAIN analyses, b \in BOOLEAN : Passes(j, analyses[k], b)
             /\ invariant_results'[j] = "failed" =>
                    \E k \in DOMAIN analyses : ~Passes(j, analyses[k], TRUE)
      BY <1>2 DEF ShownWasMeasured
  <2>1. CASE j # i
    <3>1. invariant_results'[j] = invariant_results[j]  BY <1>8, <2>1 DEF IInv, TypeOK
    <3> QED  BY <3>1 DEF IInv, ShownWasMeasured
  <2>2. CASE j = i
    <3>1. invariant_results'[j] = r  BY <1>8, <2>2 DEF IInv, TypeOK
    <3>2. r = "passed" => Passes(j, analyses[call[x].id], FALSE)
          BY <1>5, <1>6, <1>11, <2>2
    <3>3. r = "failed" => ~Passes(j, analyses[call[x].id], TRUE)
          BY <1>5, <1>6, <1>11, <2>2
    <3> QED  BY <1>4, <3>1, <3>2, <3>3
  <2> QED  BY <2>1, <2>2
<1> QED  BY <1>2, <1>12, <1>13, <1>14 DEF IInv, TypeOK, CallType

-----------------------------------------------------------------------------
\* At first no call has begun, and nothing is shown.
LEMMA InitInv == Init => IInv
<1> SUFFICES ASSUME Init PROVE IInv  OBVIOUS
<1>1. analyses \in Seq(Graphs) /\ Len(analyses) = 0  BY DEF Init
<1>2. ASSUME NEW x \in Calls PROVE CallOK(call[x], analyses)
      BY <1>1 DEF Init, CallOK, Checking, Invariants
<1>3. TypeOK  BY <1>1 DEF Init, TypeOK, Points
<1>4. ShownWasMeasured  BY DEF Init, ShownWasMeasured
<1> QED  BY <1>2, <1>3, <1>4 DEF IInv, CallsOK

\* Every turn keeps the invariant.
LEMMA StepInv == IInv /\ [Next]_vars => IInv'
<1> SUFFICES ASSUME IInv, [Next]_vars PROVE IInv'  OBVIOUS
<1>1. ASSUME NEW x \in Calls, CheckAllInvariants(x) \/ Resumed(x) PROVE IInv'
      BY <1>1, BeginKeeps, SkipKeeps, AnalyzeKeeps, UnnamedKeeps, ReadKeeps, CheckKeeps,
         RaisesKeeps
      DEF Resumed
<1>2. CASE UNCHANGED vars
      BY <1>2 DEF IInv, TypeOK, CallsOK, ShownWasMeasured, vars
<1> QED  BY <1>1, <1>2 DEF Next

\* The invariant always holds.
LEMMA Invariance == Spec => []IInv
BY InitInv, StepInv, PTL DEF Spec

\* Type correctness, for all graphs the analyses may find.
THEOREM TypeCorrect == Spec => []TypeOK
<1>1. IInv => TypeOK  BY DEF IInv
<1> QED  BY Invariance, <1>1, PTL

\* check_all_invariants() says "passed" only of one analysis, made since the
\* call began, that satisfies the five invariants as documented: for any
\* number of concurrent calls and whatever their analyses find.
THEOREM VerdictIsSound == Spec => []VerdictSound
<1>1. IInv => VerdictSound
  <2> SUFFICES ASSUME IInv, NEW x \in Calls, call[x].answer = "passed"
               PROVE  \E k \in call[x].since + 1 .. Len(analyses) : Documented(analyses[k])
      BY DEF VerdictSound
  <2>1. CallOK(call[x], analyses) /\ call[x].pc \in Points  BY DEF IInv, CallsOK, TypeOK
  <2>2. call[x].pc = "done" /\ call[x].failed = {} /\ OnOneAnalysis(call[x], analyses)
        BY <2>1 DEF CallOK
  <2>3. \A i \in Invariants : Passes(i, analyses[call[x].id], FALSE)
        BY <2>2 DEF OnOneAnalysis, Made
  <2>4. Documented(analyses[call[x].id])  BY <2>3, ChecksImplyDocumented
  <2> QED  BY <2>2, <2>4 DEF OnOneAnalysis
<1> QED  BY Invariance, <1>1, PTL

\* GET /invariants/results shows of no invariant what was not measured.
THEOREM ShownIsMeasured == Spec => []ShownWasMeasured
<1>1. IInv => ShownWasMeasured  BY DEF IInv
<1> QED  BY Invariance, <1>1, PTL
=============================================================================
