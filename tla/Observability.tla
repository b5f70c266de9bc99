--------------------------- MODULE Observability ---------------------------
(***************************************************************************)
(* inspect_consistency (anban/runtime/observability.py): what the trace     *)
(* command reports about the rows of one Run after any restart.  d is a     *)
(* database state of RunPersistence.                                        *)
(***************************************************************************)
EXTENDS RunPersistence

Numbered(d, P(_)) == {n \in DOMAIN d.events : P(d.events[n])}

RowExists(d, r) ==
  IF r \in Artifact THEN \E b \in d.artifacts : b.id = r
                    ELSE d.status[r] # Absent

RowIds(d) == {b.id : b \in d.artifacts}
CalledIn(d) == {i \in Invocation : d.status[i] # Absent}

SequenceIssues(d) ==
  IF DOMAIN d.events = 1 .. Cardinality(DOMAIN d.events)
    THEN {} ELSE {"event_sequence_invalid"}

CorrelationIssues(d) ==
  {"event_row_missing" : n \in Numbered(d, LAMBDA e : ~RowExists(d, e.on))}

ArtifactIssues(d) ==
  LET announced == Numbered(d, LAMBDA e : e.is = "artifact.created")
      of(i) == Cardinality({b \in d.artifacts : b.invocation = i})
  IN (IF /\ Cardinality(announced) = Cardinality(d.artifacts)
         /\ {d.events[n].on : n \in announced} = RowIds(d)
        THEN {} ELSE {"artifact_event_count_mismatch"})
     \cup {"capability_artifact_count_mismatch" :
             n \in Numbered(d, LAMBDA e : /\ e.on \in Invocation /\ e.is \in Terminal
                                          /\ e.counts # <<of(e.on)>>)}

TerminalIssues(d) ==
  LET finals == Numbered(d, LAMBDA e : e.is \in {"run.final", "run.error"})
      requested == Cardinality(Numbered(d, LAMBDA e : e.is = "model.requested"))
      Mismatch(k, expected, issue) ==
        {issue : n \in {m \in finals : d.events[m].counts[k] # expected}}
  IN IF Cardinality(finals) # 1 THEN {"terminal_event_count_invalid"}
     ELSE Mismatch(1, requested, "model_turn_count_mismatch")
            \cup Mismatch(2, Cardinality(CalledIn(d)), "capability_call_count_mismatch")
            \cup Mismatch(3, Cardinality(d.artifacts), "artifact_count_mismatch")

\* The rows that are not terminal, by kind; a final event of the wrong kind.
IncompleteIssues(d) ==
  LET open(S) == \E r \in S : d.status[r] \notin Terminal \cup {Absent}
  IN (IF d.status[Task] \notin Terminal THEN {"task_incomplete"} ELSE {})
       \cup (IF d.status[Run] \notin Terminal THEN {"run_incomplete"} ELSE {})
       \cup (IF open(Node) \/ \A n \in Node : d.status[n] = Absent
               THEN {"node_incomplete"} ELSE {})
       \cup (IF open(Invocation) THEN {"invocation_incomplete"} ELSE {})
       \cup (IF \E n \in DOMAIN d.events :
                  d.events[n].is = (IF d.status[Run] = "succeeded" THEN "run.final"
                                                                 ELSE "run.error")
               THEN {} ELSE {"terminal_event_missing"})

InspectConsistency(d) ==
  SequenceIssues(d) \cup CorrelationIssues(d) \cup ArtifactIssues(d)
    \cup TerminalIssues(d) \cup IncompleteIssues(d)

=============================================================================
