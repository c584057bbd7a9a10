------------------------- MODULE MCControlPlaneApi -------------------------
(***************************************************************************)
(* Small instances of ControlPlaneApi for TLC.                             *)
(***************************************************************************)
EXTENDS ControlPlaneApi, TLC

CONSTANTS w, k1, k2, b1, b2, c1, c2

Req(op, generation, topic, body) ==
    [op |-> op, workspace |-> w, if_match |-> generation, topic |-> topic, body |-> body]

\* Nothing, or a workspace.
NoneOrOne == {[u \in Workspace |-> None],
              [u \in Workspace |-> [generation |-> 0, pins |-> b1]]}

Topics == {"analysis", "object-admission"}

\* create carries no If-Match, create and upload have no topic: a fixed value
\* stands in for them.
Create(pins) == Req("create", 0, "analysis", pins)
Analysis(generation) == Req("analysis", generation, "analysis", b1)
Admission(generation, subject) == Req("operation", generation, "object-admission", subject)
Upload(object) == Req("upload", 0, "analysis", object)

\* Jobs for two generations, in the two orders of the handlers, the creation of
\* a workspace that may be there with other pins, and an upload.
Requests == {Analysis(0), Admission(1, b1), Create(b2), Upload(b1)}

\* One admission for each of two subjects.
Subjects == {Admission(0, b1), Admission(0, b2)}

ConnSymmetry == Permutations(Conn)
=============================================================================
