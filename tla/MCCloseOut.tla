----------------------------- MODULE MCCloseOut ------------------------------
(* CloseOut on runs that are back in Verify by a loop from Ship: a diff     *)
(* whose secret scan was waived, and an assessment whose Frame was forced.  *)
EXTENDS CloseOut, TLC

By(auto, kind, data) == Event(kind, 0, auto, data)
Hand(kind, data) == By(FALSE, kind, data)
Hook(kind, data) == By(TRUE, kind, data)

Clean(agent, scope) ==
  Hook("verdict", [agent |-> agent, scope |-> scope, status |-> "clean"])

MCDiff ==
  [evs |-> << Hand("risk", [signals |-> {}]),
              Hand("requirement", [rid |-> "r1", acs |-> {"ac1"}, status |-> "baselined"]),
              Hand("assumption", [status |-> "validated", high_risk |-> TRUE]),
              Hand("approval", [gate |-> "scope", approved_refs |->
                                  {<<"req", "r1">>, <<"assumption", 3>>}]),
              Hand("scope-boundary", [out_of_scope |-> {"vendor.go"}]),
              Hand("waiver", [item |-> "verify.security-baseline"]),
              Hook("test-run", [ac |-> "ac1", exit |-> 0, grounded |-> TRUE]),
              Hand("ac-verdict", [ac |-> "ac1", status |-> "pass"]),
              Hand("artifact", [path |-> "pr.md", role |-> "delivery", status |-> "present"]),
              Clean("adversary", "red-team"),
              Clean("design-conformance-reviewer", ""),
              Clean("auditor", "") >>,
   disk |-> [f \in {"pr.md"} |-> {}]]

MCAssessment ==
  [evs |-> << Event("phase", 0, FALSE, [action |-> "force", phase |-> "frame"]),
              Hand("finding", [fid |-> "F-1"]),
              Hand("artifact", [path |-> "report.md", role |-> "deliverable-report",
                                status |-> "present"]),
              Clean("lens-reviewer", ""),
              Clean("auditor", "") >>,
   disk |-> [f \in {"report.md"} |-> {"F-1"}]]

MCPrior == [diff |-> MCDiff, assessment |-> MCAssessment]

MCWrite(auto, kind, data) == [auto |-> auto, kind |-> kind, data |-> data]

MCFollowup == MCWrite(FALSE, "followup", [status |-> "open"])
MCVendor   == MCWrite(TRUE, "edit", [path |-> "vendor.go"])

MCWrites ==
  [diff |->
     { MCWrite(FALSE, "requirement", [rid |-> "r2", acs |-> {"ac2"}, status |-> "baselined"]),
       MCVendor },
   assessment |->
     { MCWrite(FALSE, "finding", [fid |-> "F-2"]), MCFollowup }]

MCResolved == MCWrite(FALSE, "trace-finding", [status |-> "resolved"])
MCNextRun  == MCWrite(FALSE, "followup", [status |-> "next-run"])

MCUpdates ==
  [diff |->
     { MCWrite(FALSE, "assumption", [status |-> "invalidated"]),
       MCWrite(FALSE, "ac-verdict", [status |-> "fail"]),
       MCResolved },
   assessment |->
     { MCFollowup, MCNextRun, MCResolved }]

MCGating ==
  {"critic", "adversary", "design-conformance-reviewer", "lens-reviewer", "auditor"}

MCSymmetry == Permutations(Proc)

\* The callers of these logs and updates keep to what the theorems assume.
ASSUME CallersKeep == Kept

=============================================================================
