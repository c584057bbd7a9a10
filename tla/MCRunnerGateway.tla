-------------------------- MODULE MCRunnerGateway --------------------------
(***************************************************************************)
(* Small instances of RunnerGateway for TLC.  A cfg picks one value for    *)
(* each constant.                                                          *)
(***************************************************************************)
EXTENDS RunnerGateway, TLC

CONSTANTS a, b, p, q, d1, d2, c1, c2

Reg(t, n, principal, cert, on) ==
    [tenant_id |-> t, runner_id |-> n, principal_id |-> principal, cert |-> cert,
     enabled |-> on]

TaskRec(t, j, seconds, materials, max) ==
    [tenant_id |-> t, job_id |-> j, lease_seconds |-> seconds,
     materials |-> materials, authorized |-> TRUE, well_formed |-> TRUE,
     maximum_input_bytes |-> 2, maximum_output_bytes |-> max]

Body(streams, outputs, projected, outcome, ok) ==
    [artifacts |-> streams \cup outputs, outputs |-> outputs, projected |-> projected,
     claimed_outcome |-> outcome, conformant |-> ok]

TwoRunners == {Reg(a, 1, p, 1, TRUE), Reg(a, 2, q, 2, TRUE)}

\* Beside the two runners: one whose certificate is already bound, one disabled.
RunnersWithConflict == {Reg(a, 1, p, 1, TRUE), Reg(a, 2, q, 1, TRUE), Reg(a, 3, p, 3, FALSE)}

RunnerPerTenant == {Reg(a, 1, p, 1, TRUE), Reg(b, 1, q, 2, TRUE)}

OneRunner == {Reg(a, 1, p, 1, TRUE)}

TwoTasks == {TaskRec(a, 1, 1, {}, 0), TaskRec(a, 2, 1, {}, 0)}

\* The first of them may be one of which no job can be built.
TasksWithUnbuilt == TwoTasks \cup {[TaskRec(a, 1, 1, {}, 0) EXCEPT !.well_formed = FALSE]}

OneTask == {TaskRec(a, 1, 1, {d1}, 3)}

\* Room for one of the two artifacts only, and for both of them.
TightTask == {TaskRec(a, 1, 1, {}, 2)}

TaskPerTenant == {TaskRec(a, 1, 1, {}, 0), TaskRec(b, 1, 1, {}, 0)}

Sizes == [d \in Digest |-> IF d = d1 THEN 1 ELSE 2]

PlainBodies == {Body({}, {}, {}, "success", TRUE), Body({}, {}, {}, "failure", FALSE)}

ArtifactBodies ==
    {Body({}, {d1, d2}, {d1, d2}, "success", TRUE), Body({}, {d1}, {d1}, "failure", TRUE),
     Body({d2}, {}, {}, "timeout", TRUE), Body({d2}, {d1}, {d2}, "success", TRUE)}

NoBodies == {}

MaterialStored == {<<a, d1>>}
NothingStored == {}
=============================================================================
