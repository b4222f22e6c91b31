---------------------------- MODULE MCWorkflowRun ----------------------------
(***************************************************************************)
(* Up to three affected work items: all of them in one assignment, or      *)
(* split over two in two ways, one item alone, or none.                    *)
(***************************************************************************)
EXTENDS WorkflowRun, TLC

CONSTANTS lint, test, build, ci1, ci2

ItemSet == {lint, test, build}
AssignmentSet == {ci1, ci2}

MCLayouts ==
    { ci1 :> << >>               @@ ci2 :> << >>,
      ci1 :> <<lint>>            @@ ci2 :> << >>,
      ci1 :> <<lint, test>>      @@ ci2 :> <<build>>,
      ci1 :> <<build>>           @@ ci2 :> <<lint, test>> }
==============================================================================
