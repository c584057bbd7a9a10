----------------------- MODULE ControlPlaneApi_proofs -----------------------
(***************************************************************************)
(* Proofs about ControlPlaneApi, for every set of workspaces, keys,        *)
(* requests and connections and for every bound.                           *)
(***************************************************************************)
EXTENDS ControlPlaneApi, TLAPS

-----------------------------------------------------------------------------
(***************************************************************************)
(* The inductive invariant: what is so of a call in progress, of a row of  *)
(* the idempotency table, of a received answer and of a queued job.        *)
(***************************************************************************)

\* The call has looked up its key and found nothing, and has not acted yet.
Looked(x) == x.pc = "effect" \/ (x.pc = "match" /\ x.request.op = "analysis")

\* The call has compared If-Match, and has not acted yet.
Matched(x) ==
    \/ x.pc = "effect" /\ x.request.op \in {"analysis", "operation"}
    \/ x.pc = "lookup" /\ x.request.op = "operation"

CallFits(x) ==
    /\ x.pc \in {"put", "answer"} => Backed(x.request, x.key, x.response)
    /\ x.pc = "tag" => x.request.op = "upload" /\ x.request.body \in stored
    /\ x.pc = "answer" \/ x.repeat => SameRequest(x.key, x.request)
    /\ x.replayed => x.pc = "answer" /\ x.response = idempotency[x.key].response
    /\ x.repeat /\ Looked(x) => idempotency[x.key].expires_at <= x.looked
    /\ x.pc = "match" => x.request.op # "create"
    /\ x.sent <= GenerationOf(x.request.workspace)
    /\ Matched(x) => /\ x.sent <= x.request.if_match
                     /\ x.request.if_match <= GenerationOf(x.request.workspace)

RowFits(k) ==
    idempotency[k] # None => Backed(idempotency[k].request, k, idempotency[k].response)

AnswerFits(x) ==
    /\ Backed(x.request, x.key, x.response)
    /\ SameRequest(x.key, x.request)
    /\ x.replayed => x.response = idempotency[x.key].response

JobFits(j) ==
    /\ j.repeat => /\ idempotency[j.key] # None
                   /\ idempotency[j.key].expires_at <= j.looked
    /\ j.sent <= j.request.if_match
    /\ j.request.if_match <= j.written

CallsFit == \A c \in Conn : calls[c] # None => CallFits(calls[c])
RowsFit == \A k \in Key : RowFits(k)
AnswersFit == \A x \in answers : AnswerFits(x)
JobsFit == \A i \in DOMAIN outbox : JobFits(outbox[i])

(* The inductive invariant of the handlers of app.py.                         *)
ApiInvariant == TypeOK /\ CallsFit /\ RowsFit /\ AnswersFit /\ JobsFit

(* What no step may undo: an idempotency row never changes once written, a    *)
(* workspace keeps its pins and never goes back to an earlier generation, a   *)
(* queued job stays, an object stays stored and tagged.                       *)
Grows ==
    /\ \A k \in Key : idempotency[k] # None => idempotency'[k] = idempotency[k]
    /\ \A w \in Workspace : workspaces[w] # None =>
          /\ workspaces'[w] # None
          /\ workspaces'[w].pins = workspaces[w].pins
          /\ workspaces[w].generation <= workspaces'[w].generation
    /\ \A i \in DOMAIN outbox : i \in DOMAIN outbox' /\ outbox'[i] = outbox[i]
    /\ stored \subseteq stored'
    /\ tagged \subseteq tagged'

-----------------------------------------------------------------------------
(* Every step of Next keeps the types.                                        *)
LEMMA TypeStep ==
    TypeOK /\ CallsFit /\ [Next]_vars => TypeOK'
<1> SUFFICES ASSUME TypeOK, CallsFit, [Next]_vars PROVE TypeOK'
    OBVIOUS
<1> USE RequestAssumption, BoundAssumption, NoneAssumption DEF TypeOK
<1>1. ASSUME NEW c \in Conn, NEW r \in Request, NEW k \in Key, Send(c, r, k)
      PROVE  TypeOK'
    <2>1. GenerationOf(r.workspace) \in Int
        BY DEF GenerationOf
    <2>2. calls'[c] \in Call
        BY <1>1, <2>1 DEF Send, Call, Response, NoResponse
    <2> QED
        BY <1>1, <2>2 DEF Send
<1>2. ASSUME NEW c \in Conn, Step(c)
      PROVE  TypeOK'
    <2> USE DEF At
    <2>0. calls[c] # None => calls[c] \in Call
        OBVIOUS
    <2>1. CASE Match(c)
        <3>1. calls[c] \in Call
            BY <2>0, <2>1 DEF Match
        <3>2. PICK pc \in {"effect", "lookup"} :
                  calls' = [calls EXCEPT ![c] = [calls[c] EXCEPT !.pc = pc]]
            BY <2>1 DEF Match, Goes
        <3>3. [calls[c] EXCEPT !.pc = pc] \in Call
            BY <3>1 DEF Call
        <3> QED
            BY <2>1, <3>2, <3>3 DEF Match
    <2>2. CASE LookupMiss(c)
        BY <2>2 DEF LookupMiss, Call
    <2>3. CASE LookupReplay(c)
        <3>1. calls'[c] \in Call
            <4>1. calls[c] \in Call /\ idempotency[calls[c].key] \in Row
                BY <2>0, <2>3 DEF LookupReplay, LiveRow, Call
            <4> QED
                BY <2>3, <4>1 DEF LookupReplay, Call, Row
        <3> QED
            BY <2>3, <3>1 DEF LookupReplay
    <2>4. CASE CreateWorkspace(c)
        <3>1. calls[c] \in Call
            BY <2>0, <2>4 DEF CreateWorkspace
        <3>2. calls'[c] \in Call
            BY <2>4, <3>1 DEF CreateWorkspace, Responds, Call, Response, NoResponse
        <3>3. workspaces' \in [Workspace -> [generation: Nat, pins: Body] \cup {None}]
            BY <2>4, <3>1 DEF CreateWorkspace, Call
        <3> QED
            BY <2>4, <3>2, <3>3 DEF CreateWorkspace, Responds
    <2>5. CASE Enqueue(c)
        <3>0. calls[c] \in Call
            BY <2>0, <2>5 DEF Enqueue
        <3>1. GenerationOf(calls[c].request.workspace) \in Int
            BY <3>0 DEF GenerationOf, Call
        <3>2. outbox' \in Seq(Job)
            BY <2>5, <3>0, <3>1 DEF Enqueue, Call, Job
        <3>3. calls'[c] \in Call
            <4> DEFINE r == [job |-> Len(outbox) + 1,
                             generation |-> calls[c].request.if_match]
            <4>1. r \in Response
                <5>1. Len(outbox) \in Nat
                    OBVIOUS
                <5>2. calls[c].request.if_match \in Nat
                    BY <3>0 DEF Call
                <5> QED
                    BY <5>1, <5>2 DEF Response
            <4>2. calls'[c] = [calls[c] EXCEPT !.pc = "put", !.response = r]
                BY <2>5 DEF Enqueue, Responds
            <4> HIDE DEF r
            <4> QED
                BY <3>0, <4>1, <4>2 DEF Call
        <3> QED
            BY <2>5, <3>2, <3>3 DEF Enqueue, Responds
    <2>6. CASE PutObject(c)
        <3>0. calls[c] \in Call
            BY <2>0, <2>6 DEF PutObject
        <3>1. calls'[c] \in Call
            BY <2>6, <3>0 DEF PutObject, Responds, Call, Response
        <3>2. stored' \subseteq Body
            BY <2>6, <3>0 DEF PutObject, Call
        <3> QED
            BY <2>6, <3>1, <3>2 DEF PutObject, Responds
    <2>7. CASE TagObject(c)
        <3>0. calls[c] \in Call
            BY <2>0, <2>7 DEF TagObject
        <3>1. calls'[c] \in Call
            BY <2>7, <3>0 DEF TagObject, Goes, Call
        <3>2. calls[c].request.body \in stored
            BY <2>7 DEF TagObject, CallsFit, CallFits
        <3> QED
            BY <2>7, <3>1, <3>2 DEF TagObject, Goes
    <2>8. CASE PutRow(c)
        <3>0. calls[c] \in Call
            BY <2>0, <2>8 DEF PutRow
        <3>1. [calls[c] EXCEPT !.pc = "answer"] \in Call
            BY <3>0 DEF Call
        <3>2. calls' \in [Conn -> Call \cup {None}]
            BY <2>8, <3>1 DEF PutRow, Goes, Ends
        <3>3. [request |-> calls[c].request, response |-> calls[c].response,
               expires_at |-> now + Lifetime] \in Row
            BY <3>0 DEF Call, Row
        <3>4. idempotency' \in [Key -> Row \cup {None}]
            BY <2>8, <3>3 DEF PutRow
        <3> QED
            BY <2>8, <3>2, <3>4 DEF PutRow
    <2>9. CASE Return(c)
        BY <2>9 DEF Return, Ends, Call, Answer
    <2>10. CASE Mismatch(c) \/ LookupConflict(c) \/ WorkspaceExists(c) \/ Fail(c)
        BY <2>10 DEF Mismatch, LookupConflict, WorkspaceExists, Fail, Ends
    <2> QED
        BY <1>2, <2>1, <2>2, <2>3, <2>4, <2>5, <2>6, <2>7, <2>8, <2>9, <2>10 DEF Step
<1>3. ASSUME NEW w \in Workspace, Advance(w)
      PROVE  TypeOK'
    BY <1>3 DEF Advance
<1>4. CASE Tick
    BY <1>4 DEF Tick
<1>5. CASE UNCHANGED vars
    BY <1>5 DEF vars
<1> QED
    BY <1>1, <1>2, <1>3, <1>4, <1>5 DEF Next

-----------------------------------------------------------------------------
(* Every step only adds to the tables and to the store.                       *)
LEMMA GrowStep ==
    TypeOK /\ [Next]_vars => Grows
<1> SUFFICES ASSUME TypeOK, [Next]_vars PROVE Grows
    OBVIOUS
<1> USE RequestAssumption, BoundAssumption, NoneAssumption DEF TypeOK, Grows
<1>1. ASSUME NEW c \in Conn, NEW r \in Request, NEW k \in Key, Send(c, r, k)
      PROVE  Grows
    BY <1>1 DEF Send
<1>2. ASSUME NEW c \in Conn, Step(c)
      PROVE  Grows
    <2> USE DEF At
    <2>1. CASE Match(c) \/ Mismatch(c) \/ LookupConflict(c) \/ WorkspaceExists(c)
               \/ LookupMiss(c) \/ LookupReplay(c) \/ Return(c) \/ Fail(c)
        BY <2>1 DEF Match, Mismatch, LookupConflict, WorkspaceExists, LookupMiss, LookupReplay,
                    Return, Fail
    <2>2. CASE CreateWorkspace(c)
        BY <2>2 DEF CreateWorkspace
    <2>3. CASE Enqueue(c)
        <3>1. PICK j : outbox' = Append(outbox, j)
            BY <2>3 DEF Enqueue
        <3>2. \A i \in DOMAIN outbox : i \in DOMAIN outbox' /\ outbox'[i] = outbox[i]
            BY <3>1
        <3> QED
            BY <2>3, <3>2 DEF Enqueue
    <2>4. CASE PutObject(c) \/ TagObject(c)
        BY <2>4 DEF PutObject, TagObject
    <2>5. CASE PutRow(c)
        BY <2>5 DEF PutRow
    <2> QED
        BY <1>2, <2>1, <2>2, <2>3, <2>4, <2>5 DEF Step
<1>3. ASSUME NEW w \in Workspace, Advance(w)
      PROVE  Grows
    BY <1>3 DEF Advance
<1>4. CASE Tick
    BY <1>4 DEF Tick
<1>5. CASE UNCHANGED vars
    BY <1>5 DEF vars
<1> QED
    BY <1>1, <1>2, <1>3, <1>4, <1>5 DEF Next

(* What backs a response is kept by every step that only adds.                *)
LEMMA BackedKept ==
    ASSUME TypeOK, TypeOK', Grows,
           NEW r \in Request, NEW k \in Key, NEW x \in Response, Backed(r, k, x)
    PROVE  Backed(r, k, x)'
<1> USE RequestAssumption
<1>1. CASE r.op = "create"
    <2>1. r.workspace \in Workspace
        OBVIOUS
    <2> QED
        BY <1>1, <2>1 DEF Backed, Grows
<1>2. CASE r.op = "upload"
    BY <1>2 DEF Backed, Grows
<1>3. CASE r.op \notin {"create", "upload"}
    <2>1. /\ x.job \in 1..Len(outbox)
          /\ outbox[x.job].request = r
          /\ outbox[x.job].key = k
        BY <1>3 DEF Backed
    <2>2. x.job \in DOMAIN outbox
        BY <2>1 DEF TypeOK
    <2>3. x.job \in DOMAIN outbox' /\ outbox'[x.job] = outbox[x.job]
        BY <2>2 DEF Grows
    <2>4. x.job \in 1..Len(outbox')
        BY <2>3 DEF TypeOK
    <2> QED
        BY <1>3, <2>1, <2>3, <2>4 DEF Backed
<1> QED
    BY <1>1, <1>2, <1>3

(* A workspace never goes back to an earlier generation.                      *)
LEMMA GenerationKept ==
    ASSUME TypeOK, TypeOK', Grows, NEW w \in Workspace
    PROVE  /\ GenerationOf(w) \in Int /\ GenerationOf(w)' \in Int
           /\ GenerationOf(w) <= GenerationOf(w)'
<1>1. CASE workspaces[w] = None
    BY <1>1 DEF TypeOK, GenerationOf
<1>2. CASE workspaces[w] # None
    BY <1>2 DEF TypeOK, Grows, GenerationOf
<1> QED
    BY <1>1, <1>2

(* What the invariant says of a call is kept while the call waits.            *)
LEMMA CallKept ==
    ASSUME TypeOK, TypeOK', Grows, NEW x \in Call, CallFits(x)
    PROVE  CallFits(x)'
<1>1. x.request \in Request /\ x.key \in Key /\ x.response \in Response
    BY DEF Call
<1>2. x.request.workspace \in Workspace /\ x.request.if_match \in Nat /\ x.sent \in Int
    BY <1>1, RequestAssumption DEF Call
<1>3. GenerationOf(x.request.workspace) \in Int
      /\ GenerationOf(x.request.workspace)' \in Int
      /\ GenerationOf(x.request.workspace) <= GenerationOf(x.request.workspace)'
    BY <1>2, GenerationKept
<1>4. x.pc \in {"put", "answer"} => Backed(x.request, x.key, x.response)'
    BY <1>1, BackedKept DEF CallFits
<1>5. x.pc = "answer" \/ x.repeat =>
          SameRequest(x.key, x.request)' /\ idempotency'[x.key] = idempotency[x.key]
    BY <1>1 DEF CallFits, SameRequest, Grows
<1>6. x.pc = "tag" => x.request.op = "upload" /\ x.request.body \in stored'
    BY DEF CallFits, Grows
<1>7. x.sent <= GenerationOf(x.request.workspace)'
    BY <1>2, <1>3 DEF CallFits
<1>8. Matched(x) => /\ x.sent <= x.request.if_match
                    /\ x.request.if_match <= GenerationOf(x.request.workspace)'
    BY <1>2, <1>3 DEF CallFits
<1> QED
    BY <1>4, <1>5, <1>6, <1>7, <1>8 DEF CallFits, Looked, Matched

(* A written row stays backed.                                              *)
LEMMA RowKept ==
    ASSUME TypeOK, TypeOK', Grows, NEW k \in Key, idempotency[k] # None, RowFits(k)
    PROVE  RowFits(k)'
<1>1. idempotency[k] \in Row
    BY DEF TypeOK
<1>2. idempotency'[k] = idempotency[k]
    BY DEF Grows
<1>3. Backed(idempotency[k].request, k, idempotency[k].response)
    BY DEF RowFits
<1>4. ASSUME NEW r, NEW x, r = idempotency[k].request, x = idempotency[k].response
      PROVE  Backed(r, k, x)'
    BY <1>1, <1>3, <1>4, BackedKept DEF Row
<1> QED
    BY <1>2, <1>4 DEF RowFits

(* A received answer stays true.                                             *)
LEMMA AnswerKept ==
    ASSUME TypeOK, TypeOK', Grows, NEW x \in Answer, AnswerFits(x)
    PROVE  AnswerFits(x)'
<1>1. x.request \in Request /\ x.key \in Key /\ x.response \in Response
    BY DEF Answer
<1>2. Backed(x.request, x.key, x.response)'
    BY <1>1, BackedKept DEF AnswerFits
<1> QED
    BY <1>1, <1>2 DEF AnswerFits, SameRequest, Grows

(* A queued job keeps its place in the history of its key and workspace.     *)
LEMMA JobKept ==
    ASSUME TypeOK, TypeOK', Grows, NEW j \in Job, JobFits(j)
    PROVE  JobFits(j)'
<1>1. j.key \in Key
    BY DEF Job
<1> QED
    BY <1>1 DEF JobFits, Grows
(* The other calls, when only the call of c changes.                          *)
LEMMA OtherCalls ==
    ASSUME ApiInvariant, TypeOK', Grows, NEW c \in Conn,
           \A d \in Conn \ {c} : calls'[d] = calls[d],
           \A y \in Call : y = calls'[c] => CallFits(y)'
    PROVE  CallsFit'
<1> SUFFICES ASSUME NEW d \in Conn, calls'[d] # None
             PROVE  CallFits(calls[d])'
    BY DEF CallsFit
<1>1. calls'[d] \in Call
    BY DEF TypeOK
<1>2. \A y \in Call : y = calls'[d] => CallFits(y)'
    <2>1. CASE d = c
        BY <2>1
    <2>2. CASE d # c
        <3> SUFFICES ASSUME NEW y \in Call, y = calls'[d] PROVE CallFits(y)'
            OBVIOUS
        <3>1. CallFits(y)
            BY <2>2 DEF ApiInvariant, CallsFit
        <3> QED
            BY <3>1, CallKept DEF ApiInvariant
    <2> QED
        BY <2>1, <2>2
<1>3. PICK y \in Call : y = calls'[d]
    BY <1>1
<1>4. CallFits(y)'
    BY <1>2, <1>3
<1> QED
    BY <1>3, <1>4 DEF CallFits, Looked, Matched, Backed, SameRequest, GenerationOf

(* All calls, when none changes.                                              *)
LEMMA SameCalls ==
    ASSUME ApiInvariant, TypeOK', Grows, calls' = calls
    PROVE  CallsFit'
<1>1. CASE Conn = {}
    BY <1>1 DEF CallsFit
<1>2. ASSUME NEW c \in Conn PROVE CallsFit'
    <2>1. ASSUME NEW y \in Call, y = calls'[c] PROVE CallFits(y)'
        <3>1. CallFits(y)
            BY <2>1, NoneAssumption DEF ApiInvariant, CallsFit
        <3> QED
            BY <3>1, CallKept DEF ApiInvariant
    <2> QED
        BY <2>1, OtherCalls
<1> QED
    BY <1>1, <1>2

(* The rows of the idempotency table, when it does not change.                *)
LEMMA SameRows ==
    ASSUME ApiInvariant, TypeOK', Grows, idempotency' = idempotency
    PROVE  RowsFit'
<1> SUFFICES ASSUME NEW k \in Key PROVE RowFits(k)'
    BY DEF RowsFit
<1>1. CASE idempotency[k] = None
    BY <1>1 DEF RowFits
<1>2. CASE idempotency[k] # None
    BY <1>2, RowKept DEF ApiInvariant, RowsFit
<1> QED
    BY <1>1, <1>2

(* The answers, when none is added.                                           *)
LEMMA SameAnswers ==
    ASSUME ApiInvariant, TypeOK', Grows, answers' = answers
    PROVE  AnswersFit'
<1>1. \A x \in answers : AnswerFits(x)'
    BY AnswerKept DEF ApiInvariant, AnswersFit, TypeOK
<1> QED
    BY <1>1 DEF AnswersFit

(* The jobs, when none is added.                                              *)
LEMMA SameJobs ==
    ASSUME ApiInvariant, TypeOK', Grows, outbox' = outbox
    PROVE  JobsFit'
<1> SUFFICES ASSUME NEW i \in DOMAIN outbox PROVE JobFits(outbox[i])'
    BY DEF JobsFit
<1>1. PICK j \in Job : j = outbox[i]
    BY DEF ApiInvariant, TypeOK
<1>2. JobFits(j)
    BY <1>1 DEF ApiInvariant, JobsFit
<1>3. JobFits(j)'
    BY <1>2, JobKept DEF ApiInvariant
<1> QED
    BY <1>1, <1>3 DEF JobFits

-----------------------------------------------------------------------------
(* Every step of Next keeps the invariant.                                    *)
LEMMA InvariantStep ==
    ApiInvariant /\ [Next]_vars => ApiInvariant'
<1> SUFFICES ASSUME ApiInvariant, [Next]_vars PROVE ApiInvariant'
    OBVIOUS
<1>t. TypeOK /\ CallsFit /\ RowsFit /\ AnswersFit /\ JobsFit
    BY DEF ApiInvariant
<1>p. TypeOK'
    BY <1>t, TypeStep
<1>g. Grows
    BY <1>t, GrowStep
<1>1. ASSUME NEW c \in Conn, NEW r \in Request, NEW k \in Key, Send(c, r, k)
      PROVE  ApiInvariant'
    <2>1. ASSUME NEW y \in Call, y = calls'[c] PROVE CallFits(y)'
        <3>1. /\ y.request = r /\ y.key = k /\ y.replayed = FALSE
              /\ y.pc = (IF r.op \in {"operation", "upload"} THEN "match" ELSE "lookup")
              /\ y.sent = GenerationOf(r.workspace)
              /\ y.repeat = (\E x \in answers : x.request = r /\ x.key = k)
            BY <1>1, <2>1, <1>t DEF Send, TypeOK
        <3>2. y.repeat => SameRequest(k, r)
            BY <3>1, <1>t DEF AnswersFit, AnswerFits
        <3>3. UNCHANGED <<idempotency, workspaces>>
            BY <1>1 DEF Send
        <3>4. GenerationOf(r.workspace) \in Int
            BY <1>t, RequestAssumption, <1>g, <1>p, GenerationKept
        <3>5. (y.repeat => SameRequest(y.key, y.request))'
            BY <3>1, <3>2, <3>3 DEF SameRequest
        <3>6. y.sent <= GenerationOf(y.request.workspace)'
            BY <3>1, <3>3, <3>4 DEF GenerationOf
        <3>7. ~Looked(y) /\ ~Matched(y)
            BY <3>1 DEF Looked, Matched
        <3> QED
            BY <3>1, <3>5, <3>6, <3>7 DEF CallFits, Looked, Matched
    <2>2. CallsFit'
        BY <1>1, <2>1, <1>t, <1>p, <1>g, OtherCalls DEF Send, TypeOK
    <2> QED
        BY <1>1, <2>2, <1>p, <1>g, SameRows, SameAnswers, SameJobs DEF Send, ApiInvariant
<1>2. ASSUME NEW c \in Conn, Step(c)
      PROVE  ApiInvariant'
    <2>0. PICK x \in Call : x = calls[c]
        BY <1>2, <1>t DEF Step, TypeOK, At, Match, Mismatch, LookupMiss, LookupReplay, LookupConflict,
              CreateWorkspace, WorkspaceExists, Enqueue, PutObject, TagObject, PutRow,
              Return, Fail
    <2>f. CallFits(x)
        BY <2>0, <1>t, NoneAssumption DEF CallsFit
    <2>k. CallFits(x)'
        BY <2>f, <1>t, <1>p, <1>g, CallKept
    <2>r. /\ x.request \in Request /\ x.key \in Key /\ x.response \in Response
          /\ x.request.workspace \in Workspace /\ x.request.if_match \in Nat
        BY RequestAssumption DEF Call
    <2>1. CASE Match(c)
        <3>1. ASSUME NEW y \in Call, y = calls'[c] PROVE CallFits(y)'
            <4>1. y = [x EXCEPT !.pc =
                          IF x.request.op = "analysis" THEN "effect" ELSE "lookup"]
                BY <2>0, <2>1, <3>1, <1>t DEF Match, Goes, TypeOK
            <4>2. /\ y.request = x.request /\ y.key = x.key /\ y.sent = x.sent
                  /\ y.repeat = x.repeat /\ y.looked = x.looked /\ y.replayed = x.replayed
                  /\ x.pc = "match"
                BY <2>0, <2>1, <4>1 DEF Call, Match, At
            <4>3. GenerationOf(x.request.workspace)' = x.request.if_match
                BY <2>0, <2>1 DEF Match, Matches, GenerationOf
            <4>4. \/ x.request.op = "analysis" /\ y.pc = "effect"
                  \/ x.request.op # "analysis" /\ y.pc = "lookup"
                BY <4>1 DEF Call
            <4> QED
                BY <2>k, <2>r, <4>2, <4>3, <4>4 DEF CallFits, Looked, Matched
        <3>2. CallsFit'
            BY <2>1, <3>1, <1>t, <1>p, <1>g, OtherCalls DEF Match, Goes, TypeOK
        <3> QED
            BY <2>1, <3>2, <1>p, <1>g, SameRows, SameAnswers, SameJobs DEF Match, ApiInvariant
    <2>2. CASE LookupMiss(c)
        <3>1. ASSUME NEW y \in Call, y = calls'[c] PROVE CallFits(y)'
            <4>1. y = [x EXCEPT !.looked = now,
                          !.pc = IF x.request.op = "analysis" THEN "match" ELSE "effect"]
                BY <2>0, <2>2, <3>1, <1>t DEF LookupMiss, TypeOK
            <4>2. /\ y.request = x.request /\ y.key = x.key /\ y.sent = x.sent
                  /\ y.repeat = x.repeat /\ y.looked = now /\ y.replayed = x.replayed
                  /\ y.pc = (IF x.request.op = "analysis" THEN "match" ELSE "effect")
                  /\ x.pc = "lookup"
                BY <2>0, <2>2, <4>1 DEF Call, LookupMiss, At
            <4>3. x.repeat => idempotency'[x.key].expires_at <= now
                <5>1. x.repeat => idempotency[x.key] # None /\ idempotency[x.key] \in Row
                    BY <2>f, <2>r, <1>t DEF CallFits, SameRequest, TypeOK
                <5>2. idempotency[x.key] # None => ~(idempotency[x.key].expires_at > now)
                    BY <2>0, <2>2 DEF LookupMiss, LiveRow
                <5>3. now \in Nat /\ idempotency' = idempotency
                    BY <2>2, <1>t DEF TypeOK, LookupMiss
                <5> QED
                    BY <5>1, <5>2, <5>3 DEF Row
            <4> QED
                BY <2>k, <2>r, <4>2, <4>3 DEF CallFits, Looked, Matched
        <3>2. CallsFit'
            BY <2>2, <3>1, <1>t, <1>p, <1>g, OtherCalls DEF LookupMiss, TypeOK
        <3> QED
            BY <2>2, <3>2, <1>p, <1>g, SameRows, SameAnswers, SameJobs
               DEF LookupMiss, ApiInvariant
    <2>3. CASE LookupReplay(c)
        <3>1. ASSUME NEW y \in Call, y = calls'[c] PROVE CallFits(y)'
            <4>1. y = [x EXCEPT !.pc = "answer", !.replayed = TRUE,
                                !.response = idempotency[x.key].response]
                BY <2>0, <2>3, <3>1, <1>t DEF LookupReplay, TypeOK
            <4>2. /\ y.request = x.request /\ y.key = x.key /\ y.sent = x.sent
                  /\ y.pc = "answer" /\ y.response = idempotency[x.key].response
                BY <4>1 DEF Call
            <4>3. /\ idempotency[x.key] # None /\ idempotency[x.key].request = x.request
                  /\ idempotency' = idempotency
                BY <2>0, <2>3 DEF LookupReplay, SameRequest
            <4>4. RowFits(x.key)'
                BY <4>3, <2>r, <1>t, <1>p, <1>g, RowKept DEF RowsFit
            <4>5. Backed(y.request, y.key, y.response)'
                BY <4>2, <4>3, <4>4 DEF RowFits, Backed
            <4>6. SameRequest(y.key, y.request)'
                BY <4>2, <4>3 DEF SameRequest
            <4> QED
                BY <2>k, <4>2, <4>3, <4>5, <4>6 DEF CallFits, Looked, Matched
        <3>2. CallsFit'
            BY <2>3, <3>1, <1>t, <1>p, <1>g, OtherCalls DEF LookupReplay, TypeOK
        <3> QED
            BY <2>3, <3>2, <1>p, <1>g, SameRows, SameAnswers, SameJobs
               DEF LookupReplay, ApiInvariant
    <2>4. CASE Mismatch(c) \/ LookupConflict(c) \/ WorkspaceExists(c) \/ Fail(c)
        <3>1. ASSUME NEW y \in Call, y = calls'[c] PROVE CallFits(y)'
            BY <2>4, <3>1, <1>t, NoneAssumption
               DEF Mismatch, LookupConflict, WorkspaceExists, Fail, Ends, TypeOK
        <3>2. CallsFit'
            BY <2>4, <3>1, <1>t, <1>p, <1>g, OtherCalls
               DEF Mismatch, LookupConflict, WorkspaceExists, Fail, Ends, TypeOK
        <3> QED
            BY <2>4, <3>2, <1>p, <1>g, SameRows, SameAnswers, SameJobs
               DEF Mismatch, LookupConflict, WorkspaceExists, Fail, ApiInvariant
    <2>5. CASE CreateWorkspace(c)
        <3>1. ASSUME NEW y \in Call, y = calls'[c] PROVE CallFits(y)'
            <4>1. /\ y = [x EXCEPT !.pc = "put", !.response = NoResponse]
                  /\ x.pc = "effect" /\ x.request.op = "create"
                BY <2>0, <2>5, <3>1, <1>t DEF CreateWorkspace, Responds, At, TypeOK
            <4>2. /\ y.request = x.request /\ y.key = x.key /\ y.sent = x.sent
                  /\ y.repeat = x.repeat /\ y.replayed = x.replayed /\ y.pc = "put"
                BY <4>1 DEF Call
            <4>3. workspaces'[x.request.workspace] =
                      [generation |-> 0, pins |-> x.request.body]
                BY <2>0, <2>5, <2>r, <1>t DEF CreateWorkspace, TypeOK
            <4>4. x.request.body \in Body
                BY <2>r, RequestAssumption
            <4>5. workspaces'[x.request.workspace] # None
                BY <4>3, <4>4, NoneAssumption
            <4>6. Backed(y.request, y.key, y.response)'
                BY <4>1, <4>2, <4>3, <4>5 DEF Backed
            <4> QED
                BY <2>k, <4>1, <4>2, <4>6 DEF CallFits, Looked, Matched
        <3>2. CallsFit'
            BY <2>5, <3>1, <1>t, <1>p, <1>g, OtherCalls DEF CreateWorkspace, Responds, TypeOK
        <3> QED
            BY <2>5, <3>2, <1>p, <1>g, SameRows, SameAnswers, SameJobs
               DEF CreateWorkspace, ApiInvariant
    <2>6. CASE Enqueue(c)
        <3> DEFINE j == [workspace |-> x.request.workspace, topic |-> x.request.topic,
                         request |-> x.request, key |-> x.key,
                         sent |-> x.sent, written |-> GenerationOf(x.request.workspace),
                         looked |-> x.looked, repeat |-> x.repeat]
                   n == Len(outbox) + 1
        <3>1. /\ outbox' = Append(outbox, j) /\ x.pc = "effect"
              /\ x.request.op \in {"analysis", "operation"}
            BY <2>0, <2>6 DEF Enqueue, At
        <3>2. /\ outbox'[n] = j /\ Len(outbox') = n /\ n \in 1..Len(outbox')
              /\ DOMAIN outbox = 1..Len(outbox) /\ DOMAIN outbox' = 1..n
              /\ Len(outbox) \in Nat
            <4>1. outbox \in Seq(Job)
                BY <1>t DEF TypeOK
            <4> HIDE DEF j
            <4> QED
                BY <3>1, <4>1
        <3>3. JobFits(j)
            <4>1. /\ j.repeat = x.repeat /\ j.key = x.key /\ j.looked = x.looked
                  /\ j.sent = x.sent /\ j.request = x.request
                  /\ j.written = GenerationOf(x.request.workspace)
                OBVIOUS
            <4> HIDE DEF j
            <4> QED
                BY <3>1, <4>1, <2>f DEF JobFits, CallFits, Looked, Matched, SameRequest
        <3>4. JobsFit'
            <4> SUFFICES ASSUME NEW i \in DOMAIN outbox' PROVE JobFits(outbox[i])'
                BY DEF JobsFit
            <4>1. PICK h \in Job : h = outbox'[i]
                BY <1>p DEF TypeOK
            <4>2. JobFits(h)
                <5>1. CASE i = n
                    BY <5>1, <4>1, <3>2, <3>3
                <5>2. CASE i # n
                    <6>1. i \in DOMAIN outbox
                        BY <5>2, <3>2
                    <6>2. outbox'[i] = outbox[i]
                        BY <6>1, <1>g DEF Grows
                    <6> QED
                        BY <6>1, <6>2, <4>1, <1>t DEF JobsFit
                <5> QED
                    BY <5>1, <5>2
            <4>3. JobFits(h)'
                BY <4>2, <1>t, <1>p, <1>g, JobKept
            <4> QED
                BY <4>1, <4>3 DEF JobFits
        <3>5. ASSUME NEW y \in Call, y = calls'[c] PROVE CallFits(y)'
            <4>1. y = [x EXCEPT !.pc = "put",
                          !.response = [job |-> n, generation |-> x.request.if_match]]
                BY <2>0, <2>6, <3>5, <1>t DEF Enqueue, Responds, TypeOK
            <4>2. /\ y.request = x.request /\ y.key = x.key /\ y.sent = x.sent
                  /\ y.repeat = x.repeat /\ y.replayed = x.replayed /\ y.pc = "put"
                  /\ y.response.job = n
                BY <4>1 DEF Call
            <4>3. outbox'[n].request = x.request /\ outbox'[n].key = x.key
                BY <3>2
            <4>4. Backed(y.request, y.key, y.response)'
                BY <4>2, <4>3, <3>1, <3>2 DEF Backed
            <4> QED
                BY <2>k, <3>1, <4>2, <4>4 DEF CallFits, Looked, Matched
        <3>6. CallsFit'
            BY <2>6, <3>5, <1>t, <1>p, <1>g, OtherCalls DEF Enqueue, Responds, TypeOK
        <3> QED
            BY <2>6, <3>4, <3>6, <1>p, <1>g, SameRows, SameAnswers DEF Enqueue, ApiInvariant
    <2>7. CASE PutObject(c)
        <3>1. ASSUME NEW y \in Call, y = calls'[c] PROVE CallFits(y)'
            <4>1. /\ y = [x EXCEPT !.pc = "tag",
                             !.response = [job |-> 0, generation |-> x.request.if_match]]
                  /\ x.pc = "effect" /\ x.request.op = "upload"
                  /\ x.request.body \in stored'
                BY <2>0, <2>7, <3>1, <1>t DEF PutObject, Responds, At, TypeOK
            <4>2. /\ y.request = x.request /\ y.key = x.key /\ y.sent = x.sent
                  /\ y.repeat = x.repeat /\ y.replayed = x.replayed /\ y.pc = "tag"
                BY <4>1 DEF Call
            <4> QED
                BY <2>k, <4>1, <4>2 DEF CallFits, Looked, Matched
        <3>2. CallsFit'
            BY <2>7, <3>1, <1>t, <1>p, <1>g, OtherCalls DEF PutObject, Responds, TypeOK
        <3> QED
            BY <2>7, <3>2, <1>p, <1>g, SameRows, SameAnswers, SameJobs DEF PutObject, ApiInvariant
    <2>8. CASE TagObject(c)
        <3>1. ASSUME NEW y \in Call, y = calls'[c] PROVE CallFits(y)'
            <4>1. /\ y = [x EXCEPT !.pc = "put"]
                  /\ x.pc = "tag" /\ x.request.body \in tagged'
                BY <2>0, <2>8, <3>1, <1>t DEF TagObject, Goes, At, TypeOK
            <4>2. /\ y.request = x.request /\ y.key = x.key /\ y.sent = x.sent
                  /\ y.repeat = x.repeat /\ y.replayed = x.replayed /\ y.pc = "put"
                BY <4>1 DEF Call
            <4>3. Backed(y.request, y.key, y.response)'
                BY <2>f, <4>1, <4>2 DEF Backed, CallFits
            <4> QED
                BY <2>k, <4>1, <4>2, <4>3 DEF CallFits, Looked, Matched
        <3>2. CallsFit'
            BY <2>8, <3>1, <1>t, <1>p, <1>g, OtherCalls DEF TagObject, Goes, TypeOK
        <3> QED
            BY <2>8, <3>2, <1>p, <1>g, SameRows, SameAnswers, SameJobs DEF TagObject, ApiInvariant
    <2>9. CASE PutRow(c)
        <3>0. x.pc = "put"
            BY <2>0, <2>9 DEF PutRow, At
        <3>1. \/ calls' = [calls EXCEPT ![c] = None]
              \/ /\ calls' = [calls EXCEPT ![c] = [x EXCEPT !.pc = "answer"]]
                 /\ SameRequest(x.key, x.request)'
            <4> DEFINE row == [request |-> x.request, response |-> x.response,
                               expires_at |-> now + Lifetime]
            <4>1. CASE idempotency[x.key] = None
                <5>1. row \in Row
                    BY <2>r, <1>t, BoundAssumption DEF Row, TypeOK
                <5>2. idempotency'[x.key] = row
                    BY <2>0, <2>9, <4>1, <2>r, <1>t DEF PutRow, TypeOK
                <5>3. SameRequest(x.key, x.request)'
                    BY <5>1, <5>2, NoneAssumption DEF SameRequest
                <5>4. calls' = [calls EXCEPT ![c] = [x EXCEPT !.pc = "answer"]]
                    BY <2>0, <2>9, <4>1 DEF PutRow, Goes
                <5> QED
                    BY <5>3, <5>4
            <4>2. CASE idempotency[x.key] # None
                <5>1. SameRequest(x.key, x.request)' = SameRequest(x.key, x.request)
                    BY <2>0, <2>9, <4>2 DEF PutRow, SameRequest
                <5>2. IF SameRequest(x.key, x.request) THEN Goes(c, "answer") ELSE Ends(c)
                    BY <2>0, <2>9, <4>2 DEF PutRow
                <5> QED
                    BY <2>0, <5>1, <5>2 DEF Goes, Ends
            <4> QED
                BY <4>1, <4>2
        <3>2. ASSUME NEW y \in Call, y = calls'[c] PROVE CallFits(y)'
            <4>1. y = [x EXCEPT !.pc = "answer"] /\ SameRequest(x.key, x.request)'
                BY <3>1, <3>2, <1>t, NoneAssumption DEF TypeOK
            <4>2. /\ y.request = x.request /\ y.key = x.key /\ y.sent = x.sent
                  /\ y.repeat = x.repeat /\ y.replayed = x.replayed /\ y.pc = "answer"
                  /\ y.response = x.response
                BY <4>1 DEF Call
            <4>3. Backed(y.request, y.key, y.response)'
                BY <2>k, <3>0, <4>2 DEF CallFits
            <4> QED
                BY <2>k, <3>0, <4>1, <4>2, <4>3 DEF CallFits, Looked, Matched
        <3>3. CallsFit'
            BY <3>1, <3>2, <1>t, <1>p, <1>g, OtherCalls DEF TypeOK
        <3>4. RowsFit'
            <4> SUFFICES ASSUME NEW k \in Key PROVE RowFits(k)'
                BY DEF RowsFit
            <4>1. CASE idempotency[k] # None
                BY <4>1, <1>t, <1>p, <1>g, RowKept DEF RowsFit
            <4>2. CASE idempotency[k] = None /\ k # x.key
                BY <4>2, <2>0, <2>9, <2>r, <1>t DEF PutRow, TypeOK, RowFits
            <4>3. CASE idempotency[k] = None /\ k = x.key
                <5>1. /\ idempotency'[k].request = x.request
                      /\ idempotency'[k].response = x.response
                    BY <4>3, <2>0, <2>9, <1>t DEF PutRow, TypeOK
                <5>2. Backed(x.request, x.key, x.response)'
                    BY <2>k, <3>0 DEF CallFits
                <5> QED
                    BY <4>3, <5>1, <5>2 DEF RowFits, Backed
            <4> QED
                BY <4>1, <4>2, <4>3
        <3> QED
            BY <2>9, <3>3, <3>4, <1>p, <1>g, SameAnswers, SameJobs DEF PutRow, ApiInvariant
    <2>10. CASE Return(c)
        <3>1. ASSUME NEW y \in Call, y = calls'[c] PROVE CallFits(y)'
            BY <2>10, <3>1, <1>t, NoneAssumption DEF Return, Ends, TypeOK
        <3>2. CallsFit'
            BY <2>10, <3>1, <1>t, <1>p, <1>g, OtherCalls DEF Return, Ends, TypeOK
        <3>3. AnswersFit'
            <4> SUFFICES ASSUME NEW z \in answers' PROVE AnswerFits(z)'
                BY DEF AnswersFit
            <4>1. CASE z \in answers
                BY <4>1, <1>t, <1>p, <1>g, AnswerKept DEF AnswersFit, TypeOK
            <4>2. CASE z \notin answers
                <5>1. /\ x.pc = "answer"
                      /\ z.request = x.request /\ z.key = x.key
                      /\ z.response = x.response /\ z.replayed = x.replayed
                    BY <4>2, <2>0, <2>10 DEF Return, At
                <5> QED
                    BY <5>1, <2>k DEF CallFits, AnswerFits
            <4> QED
                BY <4>1, <4>2
        <3> QED
            BY <2>10, <3>2, <3>3, <1>p, <1>g, SameRows, SameJobs DEF Return, ApiInvariant
    <2> QED
        BY <1>2, <2>1, <2>2, <2>3, <2>4, <2>5, <2>6, <2>7, <2>8, <2>9, <2>10 DEF Step
<1>3. ASSUME NEW w \in Workspace, Advance(w)
      PROVE  ApiInvariant'
    BY <1>3, <1>p, <1>g, SameCalls, SameRows, SameAnswers, SameJobs DEF Advance, ApiInvariant
<1>4. CASE Tick
    BY <1>4, <1>p, <1>g, SameCalls, SameRows, SameAnswers, SameJobs DEF Tick, ApiInvariant
<1>5. CASE UNCHANGED vars
    BY <1>5, <1>p, <1>g, SameCalls, SameRows, SameAnswers, SameJobs DEF vars, ApiInvariant
<1> QED
    BY <1>1, <1>2, <1>3, <1>4, <1>5 DEF Next

-----------------------------------------------------------------------------
(* The invariant holds in every reachable state of the handlers of app.py.    *)
THEOREM ApiInvariantHolds == Spec => []ApiInvariant
<1>1. Init => ApiInvariant
    <2> SUFFICES ASSUME Init PROVE ApiInvariant
        OBVIOUS
    <2>1. TypeOK
        BY BoundAssumption DEF Init, TypeOK
    <2>2. CallsFit /\ RowsFit /\ AnswersFit /\ JobsFit
        BY DEF Init, CallsFit, RowsFit, RowFits, AnswersFit, JobsFit
    <2> QED
        BY <2>1, <2>2 DEF ApiInvariant
<1> QED
    BY <1>1, InvariantStep, PTL DEF Spec

(* Rows, calls in progress and answers keep their types.                      *)
THEOREM ApiTypeCorrect == Spec => []TypeOK
<1>1. ApiInvariant => TypeOK
    BY DEF ApiInvariant
<1> QED
    BY <1>1, ApiInvariantHolds, PTL

(* Every answer of create_workspace, upload_cas_object, start_analysis and    *)
(* queue_workspace_operation, computed or replayed, is true of its request.   *)
THEOREM AnswersAreBacked == Spec => []AnswersBacked
<1>1. ApiInvariant => AnswersBacked
    BY DEF ApiInvariant, AnswersFit, AnswerFits, AnswersBacked
<1> QED
    BY <1>1, ApiInvariantHolds, PTL

(* Replays under one key agree, whatever overlapped when its row was written. *)
THEOREM ReplaysAreOne == Spec => []ReplaysAgree
<1>1. ApiInvariant => ReplaysAgree
    <2> SUFFICES ASSUME ApiInvariant, NEW x \in answers, NEW y \in answers,
                        x.key = y.key, x.replayed, y.replayed
                 PROVE  x = y
        BY DEF ReplaysAgree
    <2>1. x \in Answer /\ y \in Answer
        BY DEF ApiInvariant, TypeOK
    <2>2. x.replayed = TRUE /\ y.replayed = TRUE
        BY <2>1 DEF Answer
    <2>3. x.request = y.request /\ x.response = y.response
        BY DEF ApiInvariant, AnswersFit, AnswerFits, SameRequest
    <2> QED
        BY <2>1, <2>2, <2>3 DEF Answer
<1> QED
    BY <1>1, ApiInvariantHolds, PTL

(* An answered request is performed again only after its row expired.         *)
THEOREM RepeatsNeedExpiry == Spec => []RepeatsOnlyAfterExpiry
<1>1. ApiInvariant => RepeatsOnlyAfterExpiry
    BY DEF ApiInvariant, JobsFit, JobFits, RepeatsOnlyAfterExpiry
<1> QED
    BY <1>1, ApiInvariantHolds, PTL

(* A request that was stale when sent is never queued.                        *)
THEOREM StaleIsNotQueued == Spec => []IfMatchHeldDuringCall
<1>1. ApiInvariant => IfMatchHeldDuringCall
    BY DEF ApiInvariant, JobsFit, JobFits, IfMatchHeldDuringCall
<1> QED
    BY <1>1, ApiInvariantHolds, PTL

(* Tables and store only grow: no handler changes an idempotency row, pins, a *)
(* queued job or a stored object once written.                                *)
THEOREM HistoryOnlyGrows == Spec => [][Grows]_vars
<1>1. TypeOK /\ [Next]_vars => [Grows]_vars
    BY GrowStep
<1> QED
    BY <1>1, ApiTypeCorrect, PTL DEF Spec
=============================================================================
