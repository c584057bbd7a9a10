---------------------- MODULE GenerationCommit_proofs ----------------------
(***************************************************************************)
(* Theorems about the generation unit of work, for every value of its      *)
(* constants.                                                              *)
(***************************************************************************)
EXTENDS GenerationCommit, Sequences, FiniteSetTheorems, TLAPS

(* What a mutation is made of. *)
LEMMA MutationFacts ==
    ASSUME NEW m \in Mutation
    PROVE  /\ m.workspace \in Workspace /\ m.expected \in Generation
           /\ m.prior \in Generation /\ m.digest \in Generation /\ m.sequence \in Nat
           /\ m.head \in Object /\ m.prior_event \in Object \cup {None}
           /\ m.ledger \in SUBSET (Object \X Kind)
           /\ m.admissions \in SUBSET (Object \X Kind)
           /\ m.additions \in SUBSET Object /\ m.resolutions \in SUBSET Object
           /\ m.topic \in BOOLEAN /\ m.key \in Key /\ m.request \in Request
BY MutationAssumption

(* The names of ledger entries are objects. *)
LEMMA NamesFacts ==
    ASSUME NEW S \in SUBSET (Object \X Kind)
    PROVE  /\ Names(S) \subseteq Object
           /\ \A e \in S : e[1] \in Object /\ e[2] \in Kind /\ e = <<e[1], e[2]>>
BY DEF Names

(***************************************************************************)
(* Type correctness.                                                       *)
(***************************************************************************)
(* The initial state is well typed. *)
LEMMA TypeInit == Init => TypeOK
BY GenesisAssumption DEF Init, TypeOK

(* A call that was begun has a mutation. *)
LEMMA CallFacts ==
    ASSUME TypeOK, NEW c \in Caller, calls[c] # None
    PROVE  calls[c] \in Call /\ calls[c].mutation \in Mutation
BY DEF TypeOK, Call

(* The transaction keeps the types of the tables. *)
LEMMA TypeCommit ==
    ASSUME TypeOK, NEW m \in Mutation, Commit(m)
    PROVE  /\ workspaces' \in [Workspace -> [current: Generation, sequence: Nat] \cup {None}]
           /\ objects' \subseteq Object \X Kind
           /\ generations' \subseteq Mutation
           /\ ledger' \subseteq Workspace \X Generation \X Object \X Kind
           /\ audit_events' \subseteq AuditRow
           /\ quarantine' \subseteq Workspace \X Object
           /\ unresolved' \subseteq quarantine'
           /\ outbox' \in [Workspace -> Nat]
           /\ idempotency' \subseteq IdempotencyRow
<1>1. workspaces' \in [Workspace -> [current: Generation, sequence: Nat] \cup {None}]
  BY MutationFacts DEF TypeOK, Commit
<1>2. objects' \subseteq Object \X Kind /\ generations' \subseteq Mutation
  BY MutationFacts DEF TypeOK, Commit
<1>3. ledger' \subseteq Workspace \X Generation \X Object \X Kind
  <2>1. \A e \in m.ledger : <<m.workspace, m.digest, e[1], e[2]>>
                              \in Workspace \X Generation \X Object \X Kind
    BY MutationFacts, NamesFacts
  <2> QED
    BY <2>1 DEF TypeOK, Commit
<1>4. audit_events' \subseteq AuditRow
  BY MutationFacts DEF TypeOK, Commit, AuditRowOf, AuditRow
<1>5. quarantine' \subseteq Workspace \X Object /\ unresolved' \subseteq quarantine'
  BY MutationFacts DEF TypeOK, Commit, In, UnresolvedAfter
<1>6. outbox' \in [Workspace -> Nat]
  BY MutationFacts DEF TypeOK, Commit
<1>7. idempotency' \subseteq IdempotencyRow
  BY MutationFacts DEF TypeOK, Commit, Response, IdempotencyRow
<1> QED
  BY <1>1, <1>2, <1>3, <1>4, <1>5, <1>6, <1>7

(* Every step keeps the types. *)
LEMMA TypeStep == TypeOK /\ [Next]_vars => TypeOK'
<1> SUFFICES ASSUME TypeOK, [Next]_vars PROVE TypeOK'
  OBVIOUS
<1>1. ASSUME NEW w \in Workspace, CreateWorkspace(w) PROVE TypeOK'
  BY <1>1, GenesisAssumption DEF TypeOK, CreateWorkspace
<1>2. CASE UploadStep
  BY <1>2, GenesisAssumption DEF UploadStep, UploadPut, UploadTag, UploadCrash, TypeOK, database
<1>3. ASSUME NEW c \in Caller, CommitStep(c) PROVE TypeOK'
  <2>1. ASSUME NEW m \in Mutation, CommitBegin(c, m) PROVE TypeOK'
    BY <2>1 DEF CommitBegin, TypeOK, database, Call
  <2>2. CASE CommitReplayed(c)
    BY <2>2 DEF CommitReplayed, Return, RowsOf, TypeOK, database
  <2>3. CASE Committed(c)
    <3>1. calls[c].mutation \in Mutation
      BY <2>3, CallFacts DEF Committed, Begun
    <3>2. Response(calls[c].mutation) \in IdempotencyRow
      BY <3>1, MutationFacts DEF Response, IdempotencyRow
    <3> QED
      BY <2>3, <3>1, <3>2, TypeCommit DEF Committed, Return, TypeOK
  <2>4. CASE CommitUnacknowledged(c)
    <3>1. calls[c].mutation \in Mutation /\ calls[c] \in Call
      BY <2>4, CallFacts DEF CommitUnacknowledged, Begun
    <3>2. calls' \in [Caller -> Call \cup {None}]
      BY <2>4, <3>1 DEF CommitUnacknowledged, Fail, TypeOK, Call
    <3> QED
      BY <2>4, <3>1, <3>2, TypeCommit DEF CommitUnacknowledged, TypeOK
  <2>5. CASE CommitRolledBack(c)
    <3>1. calls[c] \in Call
      BY <2>5, CallFacts DEF CommitRolledBack, Begun
    <3> QED
      BY <2>5, <3>1 DEF CommitRolledBack, Fail, TypeOK, Call, database
  <2>6. CASE TagInterrupted(c)
    <3>1. Names(calls[c].mutation.admissions) \subseteq Object
      BY <2>6, CallFacts, MutationFacts, NamesFacts DEF TagInterrupted
    <3> QED
      BY <2>6, <3>1 DEF TagInterrupted, Return, TypeOK, database
  <2>7. CASE CallerCrash(c)
    BY <2>7 DEF CallerCrash, Return, TypeOK, database
  <2> QED
    BY <1>3, <2>1, <2>2, <2>3, <2>4, <2>5, <2>6, <2>7 DEF CommitStep
<1>4. CASE UNCHANGED vars
  BY <1>4 DEF vars, TypeOK
<1> QED
  BY <1>1, <1>2, <1>3, <1>4 DEF Next

(* Every reachable state of the unit of work is well typed. *)
THEOREM CommitTypeCorrect == Spec => []TypeOK
<1>1. TypeOK /\ [Next]_vars => TypeOK'
  BY TypeStep
<1> QED
  BY TypeInit, <1>1, PTL DEF Spec

(***************************************************************************)
(* The steps of the database.                                              *)
(***************************************************************************)
(* The tables change when a workspace is created and when a begun call        *)
(* commits; no other step writes them.                                       *)
LEMMA DatabaseStep ==
    ASSUME TypeOK, [Next]_vars
    PROVE  \/ UNCHANGED database
           \/ \E w \in Workspace : CreateWorkspace(w)
           \/ \E c \in Caller : Begun(c) /\ Commit(calls[c].mutation)
<1>1. CASE UploadStep
  BY <1>1 DEF UploadStep, UploadPut, UploadTag, UploadCrash
<1>2. ASSUME NEW c \in Caller, CommitStep(c)
      PROVE  UNCHANGED database \/ (Begun(c) /\ Commit(calls[c].mutation))
  BY <1>2 DEF CommitStep, CommitBegin, CommitReplayed, Committed, CommitUnacknowledged,
              CommitRolledBack, TagInterrupted, CallerCrash
<1>3. CASE UNCHANGED vars
  BY <1>3 DEF vars, database
<1> QED
  BY <1>1, <1>2, <1>3 DEF Next

(* Objects never leave the store. *)
LEMMA StoreGrows ==
    ASSUME [Next]_vars
    PROVE  store \subseteq store'
<1>1. CASE UploadStep
  BY <1>1 DEF UploadStep, UploadPut, UploadTag, UploadCrash
<1>2. ASSUME NEW w \in Workspace, CreateWorkspace(w) PROVE store' = store
  BY <1>2 DEF CreateWorkspace
<1>3. ASSUME NEW c \in Caller, CommitStep(c) PROVE store' = store
  BY <1>3 DEF CommitStep, CommitBegin, CommitReplayed, Committed, CommitUnacknowledged,
              CommitRolledBack, TagInterrupted, CallerCrash
<1>4. CASE UNCHANGED vars
  BY <1>4 DEF vars
<1> QED
  BY <1>1, <1>2, <1>3, <1>4 DEF Next

(* A committed generation joins the chain of its workspace and no other. *)
LEMMA ChainCommit ==
    ASSUME TypeOK, NEW m \in Mutation, Commit(m), NEW w \in Workspace
    PROVE  Chain(w)' = IF w = m.workspace THEN Chain(w) \cup {m} ELSE Chain(w)
BY DEF Commit, Chain

(***************************************************************************)
(* The history of a workspace.                                             *)
(***************************************************************************)
(* A commit extends the line at its end: the pointer it compared is the       *)
(* digest of the last generation, or the genesis.                            *)
LEMMA HistoryCommit ==
    ASSUME TypeOK, HistoryLinear, TablesAgree, NEW m \in Mutation,
           ValidMutation(m), Commit(m)
    PROVE  HistoryLinear'
<1> DEFINE w == m.workspace
           s == workspaces[w].sequence
<1>1. /\ w \in Workspace /\ workspaces[w] # None /\ workspaces[w].current = m.expected
      /\ m.sequence = s + 1 /\ m.prior = m.expected
      /\ workspaces[w] \in [current: Generation, sequence: Nat]
      /\ s \in Nat
  BY MutationFacts DEF Commit, Committable, Current, ValidMutation, TypeOK
<1>2. workspaces'[w] = [current |-> m.digest, sequence |-> m.sequence]
  BY <1>1 DEF Commit, TypeOK
<1>3. \A g \in Chain(w) : /\ g \in Mutation /\ g.sequence \in 1..s
                          /\ g.digest # m.digest
  BY <1>1 DEF Chain, HistoryLinear, Commit, Committable, Unique, TypeOK
<1>4. IF m.sequence = 1 THEN m.prior = Genesis[w]
      ELSE \E h \in Chain(w) : h.sequence = m.sequence - 1 /\ h.digest = m.prior
  <2>1. CASE Chain(w) = {}
    <3>1. workspaces[w] = [current |-> Genesis[w], sequence |-> 0]
      BY <1>1, <2>1 DEF TablesAgree
    <3>2. s = 0 /\ m.prior = Genesis[w]
      BY <1>1, <3>1
    <3> QED
      BY <1>1, <3>2
  <2>2. CASE Chain(w) # {}
    BY <1>1, <1>3, <2>2 DEF HistoryLinear
  <2> QED
    BY <2>1, <2>2
<1>5. ASSUME NEW v \in Workspace, v # w, Chain(v)' # {}
      PROVE  /\ Chain(v)' = Chain(v) /\ workspaces'[v] = workspaces[v]
  BY <1>1, <1>5, ChainCommit DEF Commit, TypeOK
<1>6. Chain(w)' = Chain(w) \cup {m}
  BY <1>1, ChainCommit
<1>7. /\ workspaces'[w] # None
      /\ \E g \in Chain(w)' : /\ g.digest = workspaces'[w].current
                              /\ g.sequence = workspaces'[w].sequence
  <2>1. workspaces'[w] # None
    <3>1. m.digest \in Generation /\ m.sequence \in Nat
      BY MutationFacts
    <3> QED
      BY <1>2, <3>1, GenesisAssumption
  <2> QED
    BY <1>2, <1>6, <2>1
<1>8. \A g \in Chain(w)' :
         /\ g.sequence \in 1..workspaces'[w].sequence
         /\ \A h \in Chain(w)' :
               (g.sequence = h.sequence \/ g.digest = h.digest) => g = h
         /\ IF g.sequence = 1 THEN g.prior = Genesis[w]
            ELSE \E h \in Chain(w)' : h.sequence = g.sequence - 1 /\ h.digest = g.prior
  <2>1. ASSUME NEW g \in Chain(w)
        PROVE  /\ g.sequence \in 1..s
               /\ \A h \in Chain(w) :
                     (g.sequence = h.sequence \/ g.digest = h.digest) => g = h
               /\ IF g.sequence = 1 THEN g.prior = Genesis[w]
                  ELSE \E h \in Chain(w) : h.sequence = g.sequence - 1 /\ h.digest = g.prior
    BY <1>1 DEF HistoryLinear
  <2> QED
    BY <1>1, <1>2, <1>3, <1>4, <1>6, <2>1
<1> QED
  BY <1>5, <1>7, <1>8 DEF HistoryLinear

(* Creating a workspace leaves every chain, and the pointers of the others,   *)
(* alone.                                                                    *)
LEMMA HistoryCreate ==
    ASSUME TypeOK, HistoryLinear, NEW u \in Workspace, CreateWorkspace(u)
    PROVE  HistoryLinear'
<1>1. /\ generations' = generations /\ workspaces[u] = None
      /\ \A w \in Workspace \ {u} : workspaces'[w] = workspaces[w]
  BY DEF CreateWorkspace, TypeOK
<1>2. \A w \in Workspace : Chain(w)' = Chain(w)
  BY <1>1 DEF Chain
<1>3. Chain(u) = {}
  BY <1>1 DEF HistoryLinear
<1> QED
  BY <1>1, <1>2, <1>3 DEF HistoryLinear

(* A commit keeps the audit rows, the idempotency rows and the generations    *)
(* in step.                                                                  *)
LEMMA TablesCommit ==
    ASSUME TypeOK, HistoryLinear, TablesAgree, NEW m \in Mutation,
           ValidMutation(m), Commit(m)
    PROVE  /\ \A w \in Workspace : (Chain(w)' = {} /\ workspaces'[w] # None) =>
                 workspaces'[w] = [current |-> Genesis[w], sequence |-> 0]
           /\ \A g \in generations' : AuditRowOf(g) \in audit_events'
           /\ \A row \in audit_events' : \E g \in generations' : row = AuditRowOf(g)
           /\ \A g \in generations' :
                 IF g.sequence = 1 THEN g.prior_event = None
                 ELSE \E h \in Chain(g.workspace)' : /\ h.sequence = g.sequence - 1
                                                     /\ h.head = g.prior_event
           /\ \A g \in generations' : Response(g) \in idempotency'
           /\ \A row \in idempotency' : \E g \in generations' : row = Response(g)
           /\ \A g, h \in generations' : g.key = h.key => g = h
           /\ answered \subseteq idempotency'
<1> DEFINE w == m.workspace
           s == workspaces[w].sequence
<1>1. /\ w \in Workspace /\ workspaces[w] # None /\ workspaces[w].current = m.expected
      /\ m.sequence = s + 1 /\ s \in Nat
  BY MutationFacts DEF Commit, Committable, Current, TypeOK
<1>2. /\ generations' = generations \cup {m}
      /\ audit_events' = audit_events \cup {AuditRowOf(m)}
      /\ idempotency' = idempotency \cup {Response(m)}
      /\ RowsOf(m.key) = {} /\ ExtendsHistory(m)
  BY DEF Commit, Committable
<1>3. \A v \in Workspace : (Chain(v)' = {} /\ workspaces'[v] # None) =>
         workspaces'[v] = [current |-> Genesis[v], sequence |-> 0]
  <2> TAKE v \in Workspace
  <2>1. CASE v = w
    BY <1>1, <2>1, ChainCommit
  <2>2. CASE v # w
    <3>1. workspaces'[v] = workspaces[v] /\ Chain(v)' = Chain(v)
      BY <1>1, <2>2, ChainCommit DEF Commit, TypeOK
    <3> QED
      BY <3>1 DEF TablesAgree
  <2> QED
    BY <2>1, <2>2
<1>4. /\ \A g \in generations' : AuditRowOf(g) \in audit_events'
      /\ \A row \in audit_events' : \E g \in generations' : row = AuditRowOf(g)
  BY <1>2 DEF TablesAgree
<1>5. IF m.sequence = 1 THEN m.prior_event = None
      ELSE \E h \in Chain(w) : h.sequence = m.sequence - 1 /\ h.head = m.prior_event
  <2>1. CASE Chain(w) = {}
    <3>1. workspaces[w] = [current |-> Genesis[w], sequence |-> 0]
      BY <1>1, <2>1 DEF TablesAgree
    <3>2. m.sequence = 1
      BY <1>1, <3>1
    <3>3. Predecessors(m) = {}
      BY <2>1 DEF Predecessors, Chain
    <3> QED
      BY <1>2, <3>2, <3>3 DEF ExtendsHistory
  <2>2. CASE Chain(w) # {}
    <3>1. PICK g \in Chain(w) : g.digest = m.expected /\ g.sequence = s
      BY <1>1, <2>2 DEF HistoryLinear
    <3>2. \A h \in Predecessors(m) : h = g
      BY <1>1, <3>1 DEF Predecessors, Chain, HistoryLinear
    <3>3. g \in Predecessors(m)
      BY <3>1 DEF Predecessors, Chain
    <3>4. m.prior_event = g.head
      BY <1>2, <3>2, <3>3 DEF ExtendsHistory
    <3>5. g.sequence >= 1
      BY <1>1, <3>1 DEF HistoryLinear
    <3> QED
      BY <1>1, <3>1, <3>4, <3>5
  <2> QED
    BY <2>1, <2>2
<1>6. \A g \in generations' :
         IF g.sequence = 1 THEN g.prior_event = None
         ELSE \E h \in Chain(g.workspace)' : /\ h.sequence = g.sequence - 1
                                             /\ h.head = g.prior_event
  <2>1. \A v \in Workspace : Chain(v) \subseteq Chain(v)'
    BY ChainCommit
  <2>2. \A g \in generations : g.workspace \in Workspace
    BY MutationFacts DEF TypeOK
  <2>3. ASSUME NEW g \in generations
        PROVE  IF g.sequence = 1 THEN g.prior_event = None
               ELSE \E h \in Chain(g.workspace)' : /\ h.sequence = g.sequence - 1
                                                   /\ h.head = g.prior_event
    BY <2>1, <2>2 DEF TablesAgree
  <2> QED
    BY <1>1, <1>2, <1>5, <2>1, <2>3
<1>7. /\ \A g \in generations' : Response(g) \in idempotency'
      /\ \A row \in idempotency' : \E g \in generations' : row = Response(g)
  BY <1>2 DEF TablesAgree
<1>8. \A g, h \in generations' : g.key = h.key => g = h
  <2>1. ASSUME NEW g \in generations PROVE g.key # m.key
    <3>1. Response(g) \in idempotency
      BY DEF TablesAgree
    <3>2. Response(g).key = g.key
      BY DEF Response
    <3> QED
      BY <1>2, <3>1, <3>2 DEF RowsOf
  <2> QED
    BY <1>2, <2>1 DEF TablesAgree
<1>9. answered \subseteq idempotency'
  BY <1>2 DEF TablesAgree
<1> QED
  BY <1>3, <1>4, <1>6, <1>7, <1>8, <1>9

(* A valid mutation stays valid: the store only grows. *)
LEMMA ValidStays ==
    ASSUME [Next]_vars, NEW m, ValidMutation(m)
    PROVE  ValidMutation(m)'
BY StoreGrows DEF ValidMutation, ValidLedger

(* A call that goes on carries a mutation that was validated. *)
LEMMA CallsValid ==
    ASSUME TypeOK, TablesAgree, [Next]_vars
    PROVE  (\A c \in Caller : calls[c] # None => ValidMutation(calls[c].mutation))'
<1>1. ASSUME NEW c \in Caller, calls'[c] # None
      PROVE  \/ calls[c] # None /\ calls'[c].mutation = calls[c].mutation
             \/ ValidMutation(calls'[c].mutation)
  <2>1. CASE UploadStep \/ UNCHANGED vars \/ \E w \in Workspace : CreateWorkspace(w)
    BY <1>1, <2>1 DEF UploadStep, UploadPut, UploadTag, UploadCrash, CreateWorkspace, vars
  <2>2. ASSUME NEW d \in Caller, NEW m \in Mutation, CommitBegin(d, m)
        PROVE  \/ calls[c] # None /\ calls'[c].mutation = calls[c].mutation
               \/ ValidMutation(calls'[c].mutation)
    BY <1>1, <2>2 DEF CommitBegin, TypeOK
  <2>3. ASSUME NEW d \in Caller, Return(d)
        PROVE  calls[c] # None /\ calls'[c].mutation = calls[c].mutation
    BY <1>1, <2>3 DEF Return, TypeOK
  <2>4. ASSUME NEW d \in Caller, calls[d] # None, Fail(d)
        PROVE  calls[c] # None /\ calls'[c].mutation = calls[c].mutation
    <3>1. calls[d] \in Call
      BY <2>4, CallFacts
    <3> QED
      BY <1>1, <2>4, <3>1 DEF Fail, TypeOK, Call
  <2> QED
    BY <2>1, <2>2, <2>3, <2>4 DEF Next, CommitStep, CommitReplayed, Committed,
       CommitUnacknowledged, CommitRolledBack, TagInterrupted, CallerCrash, Begun
<1>2. ASSUME NEW c \in Caller, calls'[c] # None PROVE ValidMutation(calls'[c].mutation)
  BY <1>1, <1>2 DEF TablesAgree
<1>3. ASSUME NEW c \in Caller, calls'[c] # None PROVE ValidMutation(calls[c].mutation)'
  <2> DEFINE n == calls'[c].mutation
  <2>1. /\ n.valid /\ n.prior = n.expected /\ n.admissions \subseteq n.ledger
        /\ \A e, f \in n.ledger : e[1] = f[1] => e = f
        /\ \A e \in n.ledger : e[2] \in {Raw, KindOf[e[1]]}
        /\ n.head \in Names(n.ledger)
    BY <1>2, <1>3 DEF ValidMutation, ValidLedger
  <2>2. Names(n.ledger) \subseteq store'
    BY <1>2, <1>3, StoreGrows DEF ValidMutation, ValidLedger
  <2> QED
    BY <2>1, <2>2 DEF ValidMutation, ValidLedger, Names
<1> QED
  BY <1>3

(* Answers come from idempotency rows. *)
LEMMA AnsweredStep ==
    ASSUME TypeOK, TablesAgree, [Next]_vars
    PROVE  answered' \subseteq idempotency'
<1>1. answered \subseteq idempotency
  BY DEF TablesAgree
<1>2. CASE UploadStep \/ UNCHANGED vars \/ \E w \in Workspace : CreateWorkspace(w)
  BY <1>1, <1>2 DEF UploadStep, UploadPut, UploadTag, UploadCrash, CreateWorkspace, vars,
                    database
<1>3. ASSUME NEW c \in Caller, CommitStep(c) PROVE answered' \subseteq idempotency'
  <2>1. CASE Committed(c)
    BY <1>1, <2>1 DEF Committed, Commit
  <2>2. CASE CommitUnacknowledged(c)
    BY <1>1, <2>2 DEF CommitUnacknowledged, Commit
  <2>3. CASE CommitReplayed(c)
    BY <1>1, <2>3 DEF CommitReplayed, RowsOf, database
  <2> QED
    BY <1>1, <1>3, <2>1, <2>2, <2>3 DEF CommitStep, CommitBegin, CommitRolledBack,
       TagInterrupted, CallerCrash, database
<1> QED
  BY <1>2, <1>3 DEF Next

(* The tables agree with each other after every step. *)
LEMMA TablesStep ==
    ASSUME TypeOK, HistoryLinear, TablesAgree, [Next]_vars
    PROVE  TablesAgree'
<1>1. CASE UNCHANGED database
  <2>1. \A w \in Workspace : Chain(w)' = Chain(w)
    BY <1>1 DEF Chain, database
  <2> QED
    BY <1>1, <2>1, CallsValid, AnsweredStep DEF TablesAgree, database, AuditRowOf, Response, Chain
<1>2. ASSUME NEW u \in Workspace, CreateWorkspace(u) PROVE TablesAgree'
  <2>1. \A w \in Workspace : Chain(w)' = Chain(w)
    BY <1>2 DEF Chain, CreateWorkspace
  <2>2. \A w \in Workspace : (Chain(w)' = {} /\ workspaces'[w] # None) =>
           workspaces'[w] = [current |-> Genesis[w], sequence |-> 0]
    BY <1>2, <2>1 DEF CreateWorkspace, TypeOK, TablesAgree
  <2> QED
    BY <1>2, <2>1, <2>2, CallsValid, AnsweredStep
       DEF TablesAgree, CreateWorkspace, AuditRowOf, Response, Chain
<1>3. ASSUME NEW c \in Caller, Begun(c), Commit(calls[c].mutation) PROVE TablesAgree'
  <2>1. calls[c].mutation \in Mutation /\ ValidMutation(calls[c].mutation)
    BY <1>3, CallFacts DEF Begun, TablesAgree
  <2> QED
    BY <1>3, <2>1, TablesCommit, CallsValid, AnsweredStep DEF TablesAgree, AuditRowOf, Response
<1> QED
  BY <1>1, <1>2, <1>3, DatabaseStep

(* The history stays a line. *)
LEMMA HistoryStep ==
    ASSUME TypeOK, HistoryLinear, TablesAgree, [Next]_vars
    PROVE  HistoryLinear'
<1>1. CASE UNCHANGED database
  <2>1. \A w \in Workspace : Chain(w)' = Chain(w)
    BY <1>1 DEF Chain, database
  <2> QED
    BY <1>1, <2>1 DEF HistoryLinear, database
<1>2. ASSUME NEW u \in Workspace, CreateWorkspace(u) PROVE HistoryLinear'
  BY <1>2, HistoryCreate
<1>3. ASSUME NEW c \in Caller, Begun(c), Commit(calls[c].mutation) PROVE HistoryLinear'
  <2>1. calls[c].mutation \in Mutation /\ ValidMutation(calls[c].mutation)
    BY <1>3, CallFacts DEF Begun, TablesAgree
  <2> QED
    BY <1>3, <2>1, HistoryCommit
<1> QED
  BY <1>1, <1>2, <1>3, DatabaseStep

(* What is proved of every reachable state of the tables. *)
CommitInvariant == TypeOK /\ HistoryLinear /\ TablesAgree

(* The three parts are inductive together: a commit extends the line because  *)
(* the pointer agrees with the generations, and they agree because the line   *)
(* has one end.                                                              *)
THEOREM CommitInvariantHolds == Spec => []CommitInvariant
<1>1. Init => CommitInvariant
  <2>1. Init => HistoryLinear
    BY DEF Init, HistoryLinear, Chain
  <2>2. Init => TablesAgree
    BY DEF Init, TablesAgree
  <2> QED
    BY TypeInit, <2>1, <2>2 DEF CommitInvariant
<1>2. CommitInvariant /\ [Next]_vars => CommitInvariant'
  BY TypeStep, HistoryStep, TablesStep DEF CommitInvariant
<1> QED
  BY <1>1, <1>2, PTL DEF Spec

(* The generations of a workspace form one line from genesis to pointer, for  *)
(* any number of callers, workspaces and mutations racing on it.             *)
THEOREM HistoryIsLinear == Spec => []HistoryLinear
BY CommitInvariantHolds, PTL DEF CommitInvariant

(* The audit events of a workspace are one hash chain in step with its        *)
(* generations.                                                              *)
THEOREM AuditChain == Spec => []AuditChainIntact
<1>1. CommitInvariant => AuditChainIntact
  <2> SUFFICES ASSUME CommitInvariant PROVE AuditChainIntact
    OBVIOUS
  <2>1. ASSUME NEW g \in generations
        PROVE  /\ AuditRowOf(g) \in audit_events
               /\ AuditRowOf(g).workspace = g.workspace
               /\ AuditRowOf(g).sequence = g.sequence
               /\ AuditRowOf(g).digest = g.head
               /\ AuditRowOf(g).prior = g.prior_event
    BY DEF CommitInvariant, TablesAgree, AuditRowOf
  <2>2. ASSUME NEW row \in audit_events
        PROVE  IF row.sequence = 1 THEN row.prior = None
               ELSE \E before \in audit_events :
                       /\ before.workspace = row.workspace
                       /\ before.sequence = row.sequence - 1
                       /\ before.digest = row.prior
    <3>1. PICK g \in generations : row = AuditRowOf(g)
      BY DEF CommitInvariant, TablesAgree
    <3>2. CASE g.sequence = 1
      BY <2>1, <3>1, <3>2 DEF CommitInvariant, TablesAgree
    <3>3. CASE g.sequence # 1
      <4>1. PICK h \in Chain(g.workspace) : h.sequence = g.sequence - 1 /\ h.head = g.prior_event
        BY <3>3 DEF CommitInvariant, TablesAgree
      <4>2. h \in generations /\ h.workspace = g.workspace
        BY DEF Chain
      <4> QED
        BY <2>1, <3>1, <3>3, <4>1, <4>2
    <3> QED
      BY <3>2, <3>3
  <2> QED
    BY <2>1, <2>2 DEF AuditChainIntact
<1> QED
  BY <1>1, CommitInvariantHolds, PTL

(* A caller that is told a generation for its key is told the one the history *)
(* holds, and is never told another, across retries, crashes and lost         *)
(* acknowledgements.                                                         *)
THEOREM AnswersConsistent == Spec => []AnswersAgree
<1>1. CommitInvariant => AnswersAgree
  <2> SUFFICES ASSUME CommitInvariant PROVE AnswersAgree
    OBVIOUS
  <2>1. \A row \in answered : \E g \in generations : Response(g) = row
    BY DEF CommitInvariant, TablesAgree
  <2>2. \A g \in generations : Response(g).key = g.key
    BY DEF Response
  <2>3. \A g, h \in generations : g.key = h.key => g = h
    BY DEF CommitInvariant, TablesAgree
  <2> QED
    BY <2>1, <2>2, <2>3 DEF AnswersAgree
<1> QED
  BY <1>1, CommitInvariantHolds, PTL

(***************************************************************************)
(* Properties with an induction of their own.                              *)
(***************************************************************************)
(* A begun call that commits carries a valid mutation. *)
LEMMA CommitIsValid ==
    ASSUME CommitInvariant, NEW c \in Caller, Begun(c)
    PROVE  calls[c].mutation \in Mutation /\ ValidMutation(calls[c].mutation)
BY CallFacts DEF CommitInvariant, Begun, TablesAgree

(* A commit leaves every ledger entry with its object row and its bytes. *)
LEMMA LedgerCommit ==
    ASSUME TypeOK, LedgerBacked, NEW m \in Mutation, ValidMutation(m), Commit(m),
           store \subseteq store'
    PROVE  LedgerBacked'
<1>1. /\ generations' = generations \cup {m}
      /\ ledger' = ledger \cup {<<m.workspace, m.digest, e[1], e[2]>> : e \in m.ledger}
      /\ objects' = objects \cup {e \in m.admissions : e[1] \notin Names(objects)}
      /\ ObjectsAgree(m)
  BY DEF Commit, Committable
<1>2. ASSUME NEW g \in generations, NEW e \in g.ledger
      PROVE  /\ <<g.workspace, g.digest, e[1], e[2]>> \in ledger'
             /\ e \in objects' /\ e[1] \in store'
  BY <1>1 DEF LedgerBacked
<1>3. ASSUME NEW e \in m.ledger
      PROVE  /\ <<m.workspace, m.digest, e[1], e[2]>> \in ledger'
             /\ e \in objects' /\ e[1] \in store'
  <2>1. e[1] \in store
    BY DEF ValidMutation, ValidLedger, Names
  <2>2. e \in objects'
    BY <1>1 DEF ObjectsAgree
  <2> QED
    BY <1>1, <2>1, <2>2
<1> QED
  BY <1>1, <1>2, <1>3 DEF LedgerBacked

(* Every ledger entry of every committed generation has its object row, of    *)
(* its kind, and its bytes in the store.                                     *)
THEOREM LedgerIsBacked == Spec => []LedgerBacked
<1>1. Init => LedgerBacked
  BY DEF Init, LedgerBacked
<1>2. CommitInvariant /\ LedgerBacked /\ [Next]_vars => LedgerBacked'
  <2> SUFFICES ASSUME CommitInvariant, LedgerBacked, [Next]_vars PROVE LedgerBacked'
    OBVIOUS
  <2>1. CASE UNCHANGED database \/ \E w \in Workspace : CreateWorkspace(w)
    BY <2>1, StoreGrows DEF database, CreateWorkspace, LedgerBacked
  <2>2. ASSUME NEW c \in Caller, Begun(c), Commit(calls[c].mutation) PROVE LedgerBacked'
    BY <2>2, CommitIsValid, LedgerCommit, StoreGrows DEF CommitInvariant
  <2> QED
    BY <2>1, <2>2, DatabaseStep DEF CommitInvariant
<1> QED
  BY <1>1, <1>2, CommitInvariantHolds, PTL DEF Spec

(* A commit decides what is quarantined: its sequence is the highest. *)
LEMMA QuarantineCommit ==
    ASSUME TypeOK, HistoryLinear, QuarantineFollowsHistory, NEW m \in Mutation, Commit(m)
    PROVE  QuarantineFollowsHistory'
<1> SUFFICES ASSUME NEW v \in Workspace, NEW o \in Object
             PROVE  <<v, o>> \in unresolved' <=>
                       \E g \in Chain(v)' :
                          /\ o \in g.additions \ g.resolutions
                          /\ \A h \in Chain(v)' : h.sequence > g.sequence => o \notin h.resolutions
  BY DEF QuarantineFollowsHistory
<1>1. <<v, o>> \in unresolved <=>
         \E g \in Chain(v) :
            /\ o \in g.additions \ g.resolutions
            /\ \A h \in Chain(v) : h.sequence > g.sequence => o \notin h.resolutions
  BY DEF QuarantineFollowsHistory
<1>2. unresolved' = UnresolvedAfter(m)
  BY DEF Commit
<1>3. CASE v # m.workspace
  <2>1. Chain(v)' = Chain(v)
    BY <1>3, ChainCommit
  <2>2. <<v, o>> \in unresolved' <=> <<v, o>> \in unresolved
    BY <1>2, <1>3 DEF UnresolvedAfter, In
  <2> QED
    BY <1>1, <2>1, <2>2
<1>4. CASE v = m.workspace
  <2>1. Chain(v)' = Chain(v) \cup {m}
    BY <1>4, ChainCommit
  <2>2. \A g \in Chain(v) : g.sequence \in Nat /\ g.sequence < m.sequence
    BY <1>4, MutationFacts DEF HistoryLinear, Commit, Committable, Current, TypeOK, Chain
  <2>3. <<v, o>> \in unresolved' <=>
           (<<v, o>> \in unresolved \/ o \in m.additions) /\ o \notin m.resolutions
    BY <1>2, <1>4 DEF UnresolvedAfter, In
  <2>4. m.sequence \in Nat
    BY MutationFacts
  <2>5. CASE o \in m.resolutions
    BY <2>1, <2>2, <2>3, <2>4, <2>5
  <2>6. CASE o \notin m.resolutions /\ o \in m.additions
    <3>1. \A h \in Chain(v)' : ~(h.sequence > m.sequence)
      BY <2>1, <2>2, <2>4
    <3> QED
      BY <2>1, <2>3, <2>6, <3>1
  <2>7. CASE o \notin m.resolutions /\ o \notin m.additions
    BY <1>1, <2>1, <2>2, <2>3, <2>4, <2>7
  <2> QED
    BY <2>5, <2>6, <2>7
<1> QED
  BY <1>3, <1>4

(* The open quarantine rows are those the history of the workspace gives.     *)
THEOREM QuarantineIsHistory == Spec => []QuarantineFollowsHistory
<1>1. Init => QuarantineFollowsHistory
  BY DEF Init, QuarantineFollowsHistory, Chain
<1>2. CommitInvariant /\ QuarantineFollowsHistory /\ [Next]_vars => QuarantineFollowsHistory'
  <2> SUFFICES ASSUME CommitInvariant, QuarantineFollowsHistory, [Next]_vars
               PROVE  QuarantineFollowsHistory'
    OBVIOUS
  <2>1. CASE UNCHANGED database \/ \E w \in Workspace : CreateWorkspace(w)
    <3>1. unresolved' = unresolved /\ \A w \in Workspace : Chain(w)' = Chain(w)
      BY <2>1 DEF database, CreateWorkspace, Chain
    <3> QED
      BY <3>1 DEF QuarantineFollowsHistory
  <2>2. ASSUME NEW c \in Caller, Begun(c), Commit(calls[c].mutation)
        PROVE  QuarantineFollowsHistory'
    BY <2>2, CommitIsValid, QuarantineCommit DEF CommitInvariant
  <2> QED
    BY <2>1, <2>2, DatabaseStep DEF CommitInvariant
<1> QED
  BY <1>1, <1>2, CommitInvariantHolds, PTL DEF Spec

(* The outbox has one message for each commit that asks for one. *)
OutboxCounts ==
    \A w \in Workspace :
       /\ IsFiniteSet({g \in Chain(w) : g.topic})
       /\ outbox[w] = Cardinality({g \in Chain(w) : g.topic})

(* A commit is a generation the table did not hold, so a message it leaves is *)
(* one more.                                                                 *)
LEMMA OutboxCommit ==
    ASSUME CommitInvariant, OutboxCounts, NEW m \in Mutation, Commit(m)
    PROVE  OutboxCounts'
<1>1. m \notin generations
  <2>1. \A g \in generations : g.workspace = m.workspace => g.digest # m.digest
    BY DEF Commit, Committable, Unique
  <2> QED
    BY <2>1
<1> SUFFICES ASSUME NEW w \in Workspace
             PROVE  /\ IsFiniteSet({g \in Chain(w)' : g.topic})
                    /\ outbox'[w] = Cardinality({g \in Chain(w)' : g.topic})
  BY DEF OutboxCounts
<1> DEFINE S == {g \in Chain(w) : g.topic}
<1>2. IsFiniteSet(S) /\ outbox[w] = Cardinality(S) /\ m \notin S
  BY <1>1 DEF OutboxCounts, Chain
<1>3. Chain(w)' = IF w = m.workspace THEN Chain(w) \cup {m} ELSE Chain(w)
  BY ChainCommit DEF CommitInvariant
<1>4. outbox'[w] = IF w = m.workspace /\ m.topic THEN outbox[w] + 1 ELSE outbox[w]
  BY MutationFacts DEF Commit, CommitInvariant, TypeOK
<1>5. CASE w = m.workspace /\ m.topic
  <2>1. {g \in Chain(w)' : g.topic} = S \cup {m}
    BY <1>3, <1>5
  <2> QED
    BY <1>2, <1>4, <1>5, <2>1, FS_AddElement, SMTT(30)
<1>6. CASE ~(w = m.workspace /\ m.topic)
  <2>1. {g \in Chain(w)' : g.topic} = S
    BY <1>3, <1>6
  <2> QED
    BY <1>2, <1>4, <1>6, <2>1
<1> QED
  BY <1>5, <1>6

(* A key has one commit, whatever is retried, and a commit at most one        *)
(* message.                                                                  *)
THEOREM OneCommit == Spec => []OneCommitPerKey
<1>1. Init => OutboxCounts
  <2> SUFFICES ASSUME Init, NEW w \in Workspace
               PROVE  /\ IsFiniteSet({g \in Chain(w) : g.topic})
                      /\ outbox[w] = Cardinality({g \in Chain(w) : g.topic})
    BY DEF OutboxCounts
  <2>1. {g \in Chain(w) : g.topic} = {} /\ outbox[w] = 0
    BY DEF Init, Chain
  <2> QED
    BY <2>1, FS_EmptySet
<1>2. CommitInvariant /\ OutboxCounts /\ [Next]_vars => OutboxCounts'
  <2> SUFFICES ASSUME CommitInvariant, OutboxCounts, [Next]_vars PROVE OutboxCounts'
    OBVIOUS
  <2>1. CASE UNCHANGED database \/ \E w \in Workspace : CreateWorkspace(w)
    <3>1. outbox' = outbox /\ \A w \in Workspace : Chain(w)' = Chain(w)
      BY <2>1 DEF database, CreateWorkspace, Chain
    <3> QED
      BY <3>1 DEF OutboxCounts
  <2>2. ASSUME NEW c \in Caller, Begun(c), Commit(calls[c].mutation) PROVE OutboxCounts'
    BY <2>2, CommitIsValid, OutboxCommit
  <2> QED
    BY <2>1, <2>2, DatabaseStep DEF CommitInvariant
<1>3. CommitInvariant /\ OutboxCounts => OneCommitPerKey
  BY DEF CommitInvariant, TablesAgree, OutboxCounts, OneCommitPerKey
<1> QED
  BY <1>1, <1>2, <1>3, CommitInvariantHolds, PTL DEF Spec

(***************************************************************************)
(* The unit of work implements the generation log.                         *)
(***************************************************************************)
(* Every sequence number up to the pointer's has its generation. *)
Gapless ==
    \A w \in Workspace : workspaces[w] # None =>
       \A n \in 1..workspaces[w].sequence : \E g \in Chain(w) : g.sequence = n

(* A commit takes the next sequence number. *)
LEMMA GaplessStep ==
    ASSUME CommitInvariant, Gapless, [Next]_vars
    PROVE  Gapless'
<1>1. CASE UNCHANGED database
  BY <1>1 DEF database, Gapless, Chain
<1>2. ASSUME NEW u \in Workspace, CreateWorkspace(u) PROVE Gapless'
  <2>1. \A w \in Workspace : Chain(w)' = Chain(w)
    BY <1>2 DEF Chain, CreateWorkspace
  <2>2. workspaces'[u].sequence = 0
    BY <1>2 DEF CreateWorkspace, CommitInvariant, TypeOK
  <2>3. \A w \in Workspace \ {u} : workspaces'[w] = workspaces[w]
    BY <1>2 DEF CreateWorkspace, CommitInvariant, TypeOK
  <2> QED
    BY <2>1, <2>2, <2>3 DEF Gapless
<1>3. ASSUME NEW c \in Caller, Begun(c), Commit(calls[c].mutation) PROVE Gapless'
  <2> DEFINE m == calls[c].mutation
  <2>1. m \in Mutation
    BY <1>3, CommitIsValid
  <2> HIDE DEF m
  <2>2. /\ m.workspace \in Workspace /\ m.sequence \in Nat
        /\ workspaces[m.workspace] # None
        /\ m.sequence = workspaces[m.workspace].sequence + 1
        /\ workspaces[m.workspace].sequence \in Nat
        /\ workspaces'[m.workspace].sequence = m.sequence
        /\ \A w \in Workspace \ {m.workspace} : workspaces'[w] = workspaces[w]
    BY <1>3, <2>1, MutationFacts DEF m, Commit, Committable, Current, CommitInvariant, TypeOK
  <2>3. \A w \in Workspace :
           Chain(w)' = IF w = m.workspace THEN Chain(w) \cup {m} ELSE Chain(w)
    BY <1>3, <2>1, ChainCommit DEF m, CommitInvariant
  <2> QED
    BY <2>2, <2>3 DEF Gapless
<1> QED
  BY <1>1, <1>2, <1>3, DatabaseStep DEF CommitInvariant

(* Among generations with distinct sequence numbers, a number names one. *)
LEMMA ChosenGeneration ==
    ASSUME NEW S, NEW g \in S, \A h \in S : h.sequence = g.sequence => h = g
    PROVE  (CHOOSE h \in S : h.sequence = g.sequence) = g
OBVIOUS

(* A sequence with one more entry at its end is the old one appended to. *)
LEMMA AppendFacts ==
    ASSUME NEW S, NEW n \in Nat, n # 0, NEW x \in S, NEW f \in [1..n -> S],
           NEW h \in [1..(n + 1) -> S], \A i \in 1..n : h[i] = f[i], h[n + 1] = x
    PROVE  Len(f) = n /\ f # <<>> /\ h = Append(f, x)
<1>1. f \in Seq(S) /\ Len(f) = n
  OBVIOUS
<1>2. h \in Seq(S) /\ Len(h) = n + 1
  OBVIOUS
<1> QED
  BY <1>1, <1>2

(* No entry of the log changes while the chain grows at its end. *)
LEMMA DigestStays ==
    ASSUME CommitInvariant, CommitInvariant', NEW w \in Workspace, Chain(w) \subseteq Chain(w)',
           NEW g \in Chain(w)
    PROVE  /\ DigestAt(w, g.sequence) = g.digest
           /\ DigestAt(w, g.sequence)' = g.digest
<1>1. g.sequence \in Nat /\ g.sequence # 0
  BY MutationFacts DEF CommitInvariant, TypeOK, HistoryLinear, Chain
<1>2. \A h \in Chain(w) : h.sequence = g.sequence => h = g
  BY DEF CommitInvariant, HistoryLinear
<1>3. \A h \in Chain(w)' : h.sequence = g.sequence => h = g
  BY DEF CommitInvariant, HistoryLinear
<1>4. (CHOOSE h \in Chain(w) : h.sequence = g.sequence) = g
  BY <1>2, ChosenGeneration
<1>5. (CHOOSE h \in Chain(w)' : h.sequence = g.sequence) = g
  BY <1>3, ChosenGeneration
<1> QED
  BY <1>1, <1>4, <1>5 DEF DigestAt

(* A workspace whose row and chain stay the same keeps its log. *)
LEMMA LogStays ==
    ASSUME NEW w \in Workspace, workspaces'[w] = workspaces[w], Chain(w)' = Chain(w)
    PROVE  LogOf(w)' = LogOf(w)
BY DEF LogOf, DigestAt

(* A commit appends the digest of its generation to the log of its workspace, *)
(* whose last entry is the generation it expected.                           *)
LEMMA LogCommit ==
    ASSUME CommitInvariant, CommitInvariant', Gapless, NEW m \in Mutation, ValidMutation(m),
           Commit(m)
    PROVE  /\ LogOf(m.workspace) # <<>>
           /\ LogOf(m.workspace)[Len(LogOf(m.workspace))] = m.prior
           /\ LogOf(m.workspace)' = Append(LogOf(m.workspace), m.digest)
           /\ \A v \in Workspace \ {m.workspace} : LogOf(v)' = LogOf(v)
<1> DEFINE w == m.workspace
           s == workspaces[w].sequence
<1>1. /\ w \in Workspace /\ workspaces[w] # None /\ workspaces[w].current = m.expected
      /\ m.sequence = s + 1 /\ s \in Nat /\ m.prior = m.expected
      /\ workspaces'[w] # None /\ workspaces'[w].sequence = s + 1
      /\ \A v \in Workspace \ {w} : workspaces'[v] = workspaces[v]
  <2>1. m.digest \in Generation /\ m.sequence \in Nat /\ w \in Workspace
    BY MutationFacts
  <2>2. workspaces'[w] = [current |-> m.digest, sequence |-> m.sequence]
    BY <2>1 DEF Commit, CommitInvariant, TypeOK
  <2>3. workspaces'[w] # None
    BY <2>1, <2>2, GenesisAssumption
  <2> QED
    BY <2>1, <2>2, <2>3 DEF Commit, Committable, Current, ValidMutation, CommitInvariant, TypeOK
<1>2. \A v \in Workspace : Chain(v)' = IF v = w THEN Chain(v) \cup {m} ELSE Chain(v)
  BY ChainCommit DEF CommitInvariant
<1>3. /\ LogOf(w) = [i \in 1..(s + 1) |-> DigestAt(w, i - 1)]
      /\ LogOf(w)' = [i \in 1..(s + 2) |-> DigestAt(w, i - 1)']
  BY <1>1 DEF LogOf
<1>4. \A n \in 0..s : DigestAt(w, n)' = DigestAt(w, n)
  <2> SUFFICES ASSUME NEW n \in 0..s PROVE DigestAt(w, n)' = DigestAt(w, n)
    OBVIOUS
  <2>1. CASE n = 0
    BY <2>1 DEF DigestAt
  <2>2. CASE n # 0
    <3>1. PICK g \in Chain(w) : g.sequence = n
      BY <1>1, <2>2 DEF Gapless
    <3> QED
      BY <1>1, <1>2, <3>1, DigestStays
  <2> QED
    BY <2>1, <2>2
<1>5. DigestAt(w, s) = m.prior
  <2>1. CASE Chain(w) = {}
    <3>1. workspaces[w] = [current |-> Genesis[w], sequence |-> 0]
      BY <1>1, <2>1 DEF CommitInvariant, TablesAgree
    <3> QED
      BY <1>1, <3>1 DEF DigestAt
  <2>2. CASE Chain(w) # {}
    <3>1. PICK g \in Chain(w) : g.digest = m.expected /\ g.sequence = s
      BY <1>1, <2>2 DEF CommitInvariant, HistoryLinear
    <3> QED
      BY <1>1, <1>2, <3>1, DigestStays
  <2> QED
    BY <2>1, <2>2
<1>6. DigestAt(w, m.sequence)' = m.digest
  <2>1. m \in Chain(w)' /\ m.sequence # 0
    BY <1>1, <1>2
  <2>2. \A h \in Chain(w)' : h.sequence = m.sequence => h = m
    BY <1>1, <2>1 DEF CommitInvariant, HistoryLinear
  <2>3. (CHOOSE h \in Chain(w)' : h.sequence = m.sequence) = m
    BY <2>1, <2>2, ChosenGeneration
  <2> QED
    BY <2>1, <2>3 DEF DigestAt
<1>7. PICK n \in Nat : n = s + 1
  BY <1>1
<1>8. /\ Len(LogOf(w)) = n /\ LogOf(w) # <<>> /\ LogOf(w)[n] = m.prior
      /\ LogOf(w)' = Append(LogOf(w), m.digest)
  <2> DEFINE f == LogOf(w)
             h == LogOf(w)'
             S == {DigestAt(w, i - 1) : i \in 1..n} \cup {m.digest}
  <2>1. n # 0 /\ m.digest \in S /\ f \in [1..n -> S]
    BY <1>1, <1>3, <1>7
  <2>2. \A i \in 1..n : h[i] = f[i]
    BY <1>1, <1>3, <1>4, <1>7
  <2>3. f[n] = m.prior
    BY <1>1, <1>3, <1>5, <1>7
  <2>4. h[n + 1] = m.digest
    BY <1>1, <1>3, <1>6, <1>7
  <2>5. h \in [1..(n + 1) -> S]
    <3>1. h = [i \in 1..(n + 1) |-> DigestAt(w, i - 1)']
      BY <1>1, <1>3, <1>7
    <3>2. \A i \in 1..(n + 1) : h[i] \in S
      <4>1. \A i \in 1..(n + 1) : i \in 1..n \/ i = n + 1
        OBVIOUS
      <4>2. \A i \in 1..n : f[i] \in S
        BY <2>1
      <4> HIDE DEF S, f, h
      <4> QED
        BY <2>1, <2>2, <2>4, <4>1, <4>2
    <3> QED
      BY <3>1, <3>2
  <2> HIDE DEF f, h, S
  <2>6. Len(f) = n /\ f # <<>> /\ h = Append(f, m.digest)
    BY <2>1, <2>2, <2>4, <2>5, AppendFacts
  <2> QED
    BY <2>3, <2>6 DEF f, h
<1>9. \A v \in Workspace \ {w} : LogOf(v)' = LogOf(v)
  BY <1>1, <1>2, LogStays
<1> QED
  BY <1>8, <1>9

(* Creating a workspace gives it the log of its genesis. *)
LEMMA LogCreate ==
    ASSUME CommitInvariant, NEW u \in Workspace, CreateWorkspace(u)
    PROVE  /\ LogOf(u) = <<>>
           /\ LogOf(u)' = <<Genesis[u]>>
           /\ \A v \in Workspace \ {u} : LogOf(v)' = LogOf(v)
<1>1. /\ workspaces[u] = None
      /\ workspaces'[u] = [current |-> Genesis[u], sequence |-> 0]
      /\ \A v \in Workspace \ {u} : workspaces'[v] = workspaces[v]
      /\ \A v \in Workspace : Chain(v)' = Chain(v)
  BY DEF CreateWorkspace, CommitInvariant, TypeOK, Chain
<1>2. workspaces'[u] # None
  BY <1>1, GenesisAssumption
<1>3. LogOf(u)' = [i \in 1..1 |-> DigestAt(u, i - 1)']
  BY <1>1, <1>2 DEF LogOf
<1>4. DigestAt(u, 0)' = Genesis[u]
  BY DEF DigestAt
<1>5. LogOf(u)' = <<Genesis[u]>>
  BY <1>3, <1>4
<1> QED
  BY <1>1, <1>5, LogStays DEF LogOf

(* The PostgreSQL unit of work implements the compare-and-append log of the   *)
(* reference repository, for any workspaces, callers and mutations.          *)
THEOREM CommitImplementsLog == Spec => ImplementsGenerationLog
<1> DEFINE view == [w \in Workspace |-> LogOf(w)]
<1>1. Init => Log!Init
  BY DEF Init, Log!Init, LogOf
<1>2. Init => Gapless
  BY DEF Init, Gapless
<1>3. CommitInvariant /\ Gapless /\ [Next]_vars => Gapless'
  BY GaplessStep
<1>4. CommitInvariant /\ CommitInvariant' /\ Gapless /\ [Next]_vars => [Log!Next]_view
  <2> SUFFICES ASSUME CommitInvariant, CommitInvariant', Gapless, [Next]_vars
               PROVE  Log!Next \/ view' = view
    OBVIOUS
  <2>1. CASE UNCHANGED database
    <3>1. \A w \in Workspace : LogOf(w)' = LogOf(w)
      BY <2>1, LogStays DEF database, Chain
    <3> QED
      BY <3>1
  <2>2. ASSUME NEW u \in Workspace, CreateWorkspace(u) PROVE Log!Next
    <3>1. view[u] = <<>> /\ view' = [view EXCEPT ![u] = <<Genesis[u]>>]
      BY <2>2, LogCreate
    <3>2. Log!Create(u)
      BY <3>1 DEF Log!Create
    <3> QED
      BY <3>2 DEF Log!Next
  <2>3. ASSUME NEW c \in Caller, Begun(c), Commit(calls[c].mutation) PROVE Log!Next
    <3>1. PICK m \in Mutation : ValidMutation(m) /\ Commit(m)
      BY <2>3, CommitIsValid
    <3>2. /\ LogOf(m.workspace) # <<>>
          /\ LogOf(m.workspace)[Len(LogOf(m.workspace))] = m.prior
          /\ LogOf(m.workspace)' = Append(LogOf(m.workspace), m.digest)
          /\ \A v \in Workspace \ {m.workspace} : LogOf(v)' = LogOf(v)
      BY <3>1, LogCommit
    <3>3. m.workspace \in Workspace
      BY <3>1, MutationFacts
    <3>4. Log!CompareAndAppend(m.workspace, m.prior, m.digest)
      BY <3>2, <3>3 DEF Log!CompareAndAppend
    <3> DEFINE d == <<m.workspace, m.prior, m.digest>>
    <3>5. d \in {<<n.workspace, n.prior, n.digest>> : n \in Mutation}
      OBVIOUS
    <3>6. Log!CompareAndAppend(d[1], d[2], d[3])
      BY <3>4
    <3> HIDE DEF d
    <3> QED
      BY <3>5, <3>6 DEF Log!Next
  <2> QED
    BY <2>1, <2>2, <2>3, DatabaseStep DEF CommitInvariant
<1>5. ImplementsGenerationLog <=> Log!Init /\ [][Log!Next]_view
  BY DEF ImplementsGenerationLog, Log!Spec
<1> QED
  BY <1>1, <1>2, <1>3, <1>4, <1>5, CommitInvariantHolds, PTL DEF Spec
=============================================================================
