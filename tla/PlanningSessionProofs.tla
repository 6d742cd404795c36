------------------------ MODULE PlanningSessionProofs -------------------------
(***************************************************************************)
(* What holds of PlanningSession for every value of its constants: types,  *)
(* the accounts of sources and analyses, and what the source store and its *)
(* file keep; then what can be exported, and which sessions can commit: the*)
(* invariants that lead from the stores to the exported file.  The store   *)
(* needs no assumption on state files that cannot be deleted.              *)
(***************************************************************************)
EXTENDS PlanningSession, FiniteSetTheorems, TLAPS

-----------------------------------------------------------------------------
(* The helpers.                                                            *)

\* FifoPut only ever holds what was there and what is put.
LEMMA FifoPutSubset ==
    ASSUME NEW S, NEW x, NEW keep
    PROVE  FifoPut(S, x, keep) \subseteq S \cup {x}
BY DEF FifoPut

\* The same for the source store.
LEMMA SourcesAfterSubset ==
    ASSUME NEW s
    PROVE  SourcesAfter(s) \subseteq sources \cup {s}
BY DEF SourcesAfter

\* The newest snapshots of a store are in the store.
LEMMA NewestSubset == ASSUME NEW S PROVE Newest(S) \subseteq S
BY DEF Newest

\* clear_api only removes.
LEMMA FilesOnlySubset == ASSUME NEW S PROVE FilesOnly(S) \subseteq S
BY DEF FilesOnly

\* Dropping every source selection.
LEMMA NoSelections == [i \in AnalysisIds |-> 0] \in [AnalysisIds -> Choices]
BY ContentsAssumption

\* The bounds contain 0.
LEMMA ZeroInBounds ==
    /\ 0 \in 0..MaxDoc /\ 0 \in 0..MaxGen /\ 0 \in 0..MaxSource
    /\ 0 \in 0..MaxAnalysis /\ 0 \in 0..MaxPlan
BY BoundsAssumption

\* A part of the state that a step leaves alone keeps its type.
LEMMA Frame ==
    /\ VaultOK /\ UNCHANGED vault => VaultOK'
    /\ StoreOK /\ UNCHANGED store => StoreOK'
    /\ ProjectOK /\ UNCHANGED project => ProjectOK'
    /\ WorkOK /\ UNCHANGED work => WorkOK'
    /\ ThreadsOK /\ UNCHANGED threads => ThreadsOK'
    /\ IssuedOK /\ UNCHANGED issued => IssuedOK'
<1>1. VaultOK /\ UNCHANGED vault => VaultOK'
  BY DEF VaultOK, vault
<1>2. StoreOK /\ UNCHANGED store => StoreOK'
  BY DEF StoreOK, store
<1>3. ProjectOK /\ UNCHANGED project => ProjectOK'
  BY DEF ProjectOK, project
<1>4. WorkOK /\ UNCHANGED work => WorkOK'
  BY DEF WorkOK, work
<1>5. ThreadsOK /\ UNCHANGED threads => ThreadsOK'
  BY DEF ThreadsOK, threads
<1>6. IssuedOK /\ UNCHANGED issued => IssuedOK'
  BY DEF IssuedOK, issued
<1> QED
  BY <1>1, <1>2, <1>3, <1>4, <1>5, <1>6

-----------------------------------------------------------------------------
(* Type correctness.                                                       *)

\* The program starts well typed.
LEMMA InitTypeOK == Init => TypeOK
<1> SUFFICES ASSUME Init PROVE TypeOK
  OBVIOUS
<1>1. VaultOK
  BY ZeroInBounds DEF Init, VaultOK
<1>2. StoreOK
  BY ZeroInBounds DEF Init, StoreOK
<1>3. ProjectOK
  BY ContentsAssumption DEF Init, ProjectOK
<1>4. WorkOK
  BY NoSelections DEF Init, WorkOK
<1>5. ThreadsOK
  BY DEF Init, ThreadsOK
<1>6. IssuedOK
  BY ZeroInBounds DEF Init, IssuedOK
<1> QED
  BY <1>1, <1>2, <1>3, <1>4, <1>5, <1>6 DEF TypeOK

\* Credential setup, unlock and lock keep the types.
LEMMA VaultTypeOK == TypeOK /\ VaultNext => TypeOK'
<1> SUFFICES ASSUME TypeOK, VaultNext PROVE TypeOK'
  OBVIOUS
<1> USE DEF TypeOK
<1>1. CASE SetupWrite
  <2>1. VaultOK'
    BY <1>1, BoundsAssumption DEF SetupWrite, VaultOK, NextGeneration
  <2> QED
    BY <1>1, <2>1, Frame DEF SetupWrite
<1>2. CASE SetupInvalidate
  <2>1. VaultOK'
    BY <1>2 DEF SetupInvalidate, VaultOK
  <2>2. StoreOK'
    BY <1>2, ZeroInBounds DEF SetupInvalidate, StoreOK
  <2>3. selections' \in [AnalysisIds -> Choices]
    BY <1>2, NoSelections DEF SetupInvalidate
  <2>4. WorkOK'
    BY <1>2, <2>3, FilesOnlySubset DEF SetupInvalidate, WorkOK
  <2> QED
    BY <1>2, <2>1, <2>2, <2>4, Frame DEF SetupInvalidate
<1>3. CASE SetupFailsEarly
  <2>1. VaultOK'
    BY <1>3 DEF SetupFailsEarly, VaultOK
  <2> QED
    BY <1>3, <2>1, Frame DEF SetupFailsEarly
<1>4. CASE SetupFailsLate
  <2>1. VaultOK'
    BY <1>4 DEF SetupFailsLate, VaultOK
  <2>2. StoreOK'
    BY <1>4, ZeroInBounds DEF SetupFailsLate, StoreOK
  <2> QED
    BY <1>4, <2>1, <2>2, Frame DEF SetupFailsLate
<1>5. CASE Unlock
  <2>1. VaultOK'
    BY <1>5, BoundsAssumption DEF Unlock, VaultOK, Configured, NextGeneration
  <2> QED
    BY <1>5, <2>1, Frame DEF Unlock
<1>6. CASE Revoke
  <2>1. gen' \in 0..MaxGen
    BY <1>6, BoundsAssumption DEF Revoke, VaultOK, NextGeneration
  <2>2. VaultOK'
    BY <1>6, <2>1 DEF Revoke, VaultOK
  <2> QED
    BY <1>6, <2>2, Frame DEF Revoke
<1> QED
  BY <1>1, <1>2, <1>3, <1>4, <1>5, <1>6 DEF VaultNext

\* A source refresh keeps the types.
LEMMA SyncTypeOK == TypeOK /\ SyncNext => TypeOK'
<1> SUFFICES ASSUME TypeOK, NEW t \in Syncs,
                    \/ SyncStart(t) \/ SyncClear(t) \/ SyncEnd(t)
                    \/ \E quality \in [Endpoints -> Quality], smart \in BOOLEAN :
                          SyncActivate(t, quality, smart)
             PROVE TypeOK'
  BY DEF SyncNext
<1> USE DEF TypeOK
<1>1. CASE SyncStart(t)
  <2>1. doc \in Nat /\ gen \in Nat
    BY BoundsAssumption DEF VaultOK
  <2>2. Newest(sources) \in SUBSET Source
    BY NewestSubset DEF StoreOK
  <2>3. [pc |-> "fetch", ctx |-> doc, gen |-> gen, base |-> Newest(sources)] \in SyncJob
    BY <2>1, <2>2 DEF SyncJob
  <2>4. ThreadsOK'
    BY <1>1, <2>3 DEF SyncStart, ThreadsOK
  <2> QED
    BY <1>1, <2>4, Frame DEF SyncStart
<1>2. CASE SyncClear(t)
  <2>1. selections' \in [AnalysisIds -> Choices]
    BY <1>2, NoSelections DEF SyncClear
  <2>2. WorkOK'
    BY <1>2, <2>1, FilesOnlySubset DEF SyncClear, WorkOK
  <2>3. ThreadsOK'
    BY <1>2 DEF SyncClear, ThreadsOK
  <2> QED
    BY <1>2, <2>2, <2>3, Frame DEF SyncClear
<1>3. CASE SyncEnd(t)
  <2>1. ThreadsOK'
    BY <1>3 DEF SyncEnd, ThreadsOK
  <2> QED
    BY <1>3, <2>1, Frame DEF SyncEnd
<1>4. ASSUME NEW quality \in [Endpoints -> Quality], NEW smart \in BOOLEAN,
             SyncActivate(t, quality, smart)
      PROVE  TypeOK'
  <2> DEFINE s == [id |-> lastSource + 1, ctx |-> sync[t].ctx,
                   rows |-> CandidateRows(sync[t], smart), quality |-> quality]
  <2>1. sync[t] \in SyncJob
    BY <1>4 DEF SyncActivate, ThreadsOK, Idle, Clearing
  <2>2. CandidateRows(sync[t], smart) \in SUBSET Nat
    BY <2>1 DEF CandidateRows, SyncJob, Source
  <2>3. lastSource + 1 \in 1..MaxSource
    BY <1>4, BoundsAssumption DEF SyncActivate, IssuedOK
  <2>4. s \in Source
    BY <2>1, <2>2, <2>3 DEF Source, SyncJob
  <2>5. StoreOK'
    <3>1. sources' \in SUBSET Source /\ file' \in SUBSET Source
      BY <1>4, <2>4, SourcesAfterSubset DEF SyncActivate, Saved, StoreOK
    <3>2. healthy' \in 0..MaxSource
      BY <1>4, <2>3, BoundsAssumption DEF SyncActivate, HealthyAfter, StoreOK
    <3> QED
      BY <3>1, <3>2 DEF StoreOK
  <2>6. ThreadsOK'
    BY <1>4 DEF SyncActivate, ThreadsOK
  <2>7. IssuedOK'
    BY <1>4, <2>3, BoundsAssumption DEF SyncActivate, IssuedOK
  <2> QED
    BY <1>4, <2>5, <2>6, <2>7, Frame DEF SyncActivate, work
<1> QED
  BY <1>1, <1>2, <1>3, <1>4

\* An analysis keeps the types.
LEMMA RunTypeOK == TypeOK /\ RunNext => TypeOK'
<1> SUFFICES ASSUME TypeOK, NEW r \in Runs,
                    \/ PrepareApi(r) \/ PrepareFiles(r) \/ Load(r) \/ EndRun(r)
                    \/ \E c \in Costs : CommitAnalysis(r, c)
             PROVE TypeOK'
  BY DEF RunNext
<1> USE DEF TypeOK
<1>1. CASE PrepareApi(r)
  <2>1. PICK s \in Newest(sources) :
           run' = [run EXCEPT ![r] =
                     [pc |-> "prepared", mode |-> "api", src |-> s.id, ctx |-> doc]]
    BY <1>1 DEF PrepareApi
  <2>2. s.id \in Nat /\ doc \in Nat
    BY NewestSubset, BoundsAssumption DEF StoreOK, Source, VaultOK
  <2>3. [pc |-> "prepared", mode |-> "api", src |-> s.id, ctx |-> doc] \in RunJob
    BY <2>2 DEF RunJob
  <2>4. ThreadsOK'
    BY <1>1, <2>1, <2>3 DEF PrepareApi, ThreadsOK
  <2> QED
    BY <1>1, <2>4, Frame DEF PrepareApi
<1>2. CASE PrepareFiles(r)
  <2>1. [pc |-> "prepared", mode |-> "files", src |-> 0, ctx |-> 0] \in RunJob
    BY DEF RunJob
  <2>2. ThreadsOK'
    BY <1>2, <2>1 DEF PrepareFiles, ThreadsOK
  <2> QED
    BY <1>2, <2>2, Frame DEF PrepareFiles
<1>3. CASE Load(r)
  <2>1. run[r] \in RunJob
    BY <1>3 DEF Load, ThreadsOK, Idle
  <2>2. [pc |-> "loaded", mode |-> run[r].mode, src |-> run[r].src,
         ctx |-> run[r].ctx, pack |-> pack, cost |-> cost, maps |-> maps] \in RunJob
    BY <2>1 DEF RunJob, ProjectOK
  <2>3. ThreadsOK'
    BY <1>3, <2>2 DEF Load, ThreadsOK
  <2> QED
    BY <1>3, <2>3, Frame DEF Load
<1>4. CASE EndRun(r)
  <2>1. ThreadsOK'
    BY <1>4 DEF EndRun, ThreadsOK
  <2> QED
    BY <1>4, <2>1, Frame DEF EndRun
<1>5. ASSUME NEW c \in Costs, CommitAnalysis(r, c)
      PROVE  TypeOK'
  <2> DEFINE a == [id |-> lastAnalysis + 1, mode |-> run[r].mode, src |-> run[r].src,
                   ctx |-> run[r].ctx, pack |-> run[r].pack, cost |-> c,
                   maps |-> run[r].maps]
  <2>1. run[r] \in [pc : {"loaded"}, mode : {"api", "files"}, src : Nat, ctx : Nat,
                    pack : Packs, cost : Costs, maps : Mappings]
    BY <1>5 DEF CommitAnalysis, ThreadsOK, RunJob, Idle
  <2>2. lastAnalysis + 1 \in 1..MaxAnalysis
    BY <1>5, BoundsAssumption DEF CommitAnalysis, IssuedOK
  <2>3. a \in Analysis
    BY <2>1, <2>2 DEF Analysis, AnalysisIds
  <2>4. WorkOK'
    <3>1. analyses' \in SUBSET Analysis
      BY <1>5, <2>3, FifoPutSubset DEF CommitAnalysis, WorkOK
    <3>2. selections' \in [AnalysisIds -> Choices]
      BY <1>5, NoSelections DEF CommitAnalysis
    <3> QED
      BY <1>5, <3>1, <3>2 DEF CommitAnalysis, WorkOK
  <2>5. ProjectOK'
    BY <1>5 DEF CommitAnalysis, ProjectOK
  <2>6. ThreadsOK'
    BY <1>5 DEF CommitAnalysis, ThreadsOK
  <2>7. IssuedOK'
    BY <1>5, <2>2, BoundsAssumption DEF CommitAnalysis, IssuedOK
  <2> QED
    BY <1>5, <2>4, <2>5, <2>6, <2>7, Frame DEF CommitAnalysis
<1> QED
  BY <1>1, <1>2, <1>3, <1>4, <1>5

\* The decisions that an analysis of the store is read with.
LEMMA DecisionsType ==
    ASSUME ProjectOK, WorkOK, NEW a \in analyses
    PROVE  DecisionsFor(a) \in Decisions
BY DEF ProjectOK, WorkOK, Analysis, DecisionsFor, Decisions

\* A shipment check keeps the types.
LEMMA CheckTypeOK == TypeOK /\ CheckNext => TypeOK'
<1> SUFFICES ASSUME TypeOK, NEW q \in Checks,
                    AskOzon(q) \/ CommitPlan(q) \/ EndCheck(q)
             PROVE TypeOK'
  BY DEF CheckNext
<1> USE DEF TypeOK
<1>1. CASE AskOzon(q)
  <2>1. PICK a \in analyses :
           check' = [check EXCEPT ![q] =
                       [pc |-> "asked", of |-> a, decisions |-> DecisionsFor(a),
                        pack |-> pack, ctx |-> doc, gen |-> gen]]
    BY <1>1 DEF AskOzon
  <2>2. a \in Analysis /\ doc \in Nat /\ gen \in Nat
    BY BoundsAssumption DEF WorkOK, VaultOK
  <2>3. [pc |-> "asked", of |-> a, decisions |-> DecisionsFor(a),
         pack |-> pack, ctx |-> doc, gen |-> gen] \in CheckJob
    BY <2>2, DecisionsType DEF CheckJob, ProjectOK
  <2>4. ThreadsOK'
    BY <1>1, <2>1, <2>3 DEF AskOzon, ThreadsOK
  <2> QED
    BY <1>1, <2>4, Frame DEF AskOzon
<1>2. CASE CommitPlan(q)
  <2> DEFINE p == [id |-> lastPlan + 1, of |-> check[q].of,
                   decisions |-> check[q].decisions]
  <2>1. check[q] \in CheckJob
    BY <1>2 DEF CommitPlan, ThreadsOK, Idle
  <2>2. lastPlan + 1 \in 1..MaxPlan
    BY <1>2, BoundsAssumption DEF CommitPlan, IssuedOK
  <2>3. p \in Plan
    BY <2>1, <2>2 DEF CheckJob, Plan
  <2>4. WorkOK'
    <3>1. plans' \in SUBSET Plan
      BY <1>2, <2>3, FifoPutSubset DEF CommitPlan, WorkOK
    <3> QED
      BY <1>2, <3>1 DEF CommitPlan, WorkOK
  <2>5. ThreadsOK'
    BY <1>2 DEF CommitPlan, ThreadsOK
  <2>6. IssuedOK'
    BY <1>2, <2>2, BoundsAssumption DEF CommitPlan, IssuedOK
  <2> QED
    BY <1>2, <2>4, <2>5, <2>6, Frame DEF CommitPlan
<1>3. CASE EndCheck(q)
  <2>1. ThreadsOK'
    BY <1>3 DEF EndCheck, ThreadsOK
  <2> QED
    BY <1>3, <2>1, Frame DEF EndCheck
<1> QED
  BY <1>1, <1>2, <1>3

\* The manager's decisions keep the types.
LEMMA DecisionTypeOK == TypeOK /\ DecisionNext => TypeOK'
<1> SUFFICES ASSUME TypeOK, NEW a \in analyses, NEW c \in Choices,
                    \/ EditPlan(a, c) \/ SelectCalculated(a, c)
                    \/ \E e \in Choices : SelectOzon(a, e, c)
             PROVE TypeOK'
  BY DEF DecisionNext
<1> USE DEF TypeOK
<1>1. CASE EditPlan(a, c)
  <2>1. selections' \in [AnalysisIds -> Choices]
    BY <1>1, ContentsAssumption DEF EditPlan, WorkOK
  <2>2. WorkOK' /\ ProjectOK'
    BY <1>1, <2>1 DEF EditPlan, WorkOK, ProjectOK, PlansAfterEdit
  <2> QED
    BY <1>1, <2>2, Frame DEF EditPlan
<1>2. CASE SelectCalculated(a, c)
  <2>1. WorkOK'
    BY <1>2 DEF SelectCalculated, WorkOK, PlansAfterEdit
  <2> QED
    BY <1>2, <2>1, Frame DEF SelectCalculated
<1>3. ASSUME NEW e \in Choices, SelectOzon(a, e, c)
      PROVE  TypeOK'
  <2>1. WorkOK' /\ ProjectOK'
    BY <1>3 DEF SelectOzon, WorkOK, ProjectOK, PlansAfterEdit
  <2> QED
    BY <1>3, <2>1, Frame DEF SelectOzon
<1> QED
  BY <1>1, <1>2, <1>3

\* Changes of the master data keep the types.
LEMMA ProjectTypeOK == TypeOK /\ ProjectNext => TypeOK'
<1> SUFFICES ASSUME TypeOK, ProjectNext PROVE TypeOK'
  OBVIOUS
<1> USE DEF TypeOK
<1>1. ASSUME NEW c \in Costs, PutCost(c) PROVE TypeOK'
  <2>1. WorkOK' /\ ProjectOK'
    BY <1>1 DEF PutCost, WorkOK, ProjectOK
  <2> QED
    BY <1>1, <2>1, Frame DEF PutCost
<1>2. ASSUME NEW m \in Mappings, PutMappings(m) PROVE TypeOK'
  <2>1. WorkOK' /\ ProjectOK'
    BY <1>2 DEF PutMappings, WorkOK, ProjectOK
  <2> QED
    BY <1>2, <2>1, Frame DEF PutMappings
<1>3. ASSUME NEW k \in Packs, PutPack(k) PROVE TypeOK'
  <2>1. WorkOK' /\ ProjectOK'
    BY <1>3 DEF PutPack, WorkOK, ProjectOK
  <2> QED
    BY <1>3, <2>1, Frame DEF PutPack
<1>4. ASSUME NEW k \in Packs, NEW d \in Deletes, DeletePackSave(d, k) PROVE TypeOK'
  <2>1. ProjectOK' /\ ThreadsOK'
    BY <1>4 DEF DeletePackSave, ThreadsOK, ProjectOK
  <2> QED
    BY <1>4, <2>1, Frame DEF DeletePackSave
<1>5. ASSUME NEW d \in Deletes, DeletePackClear(d) PROVE TypeOK'
  <2>1. WorkOK' /\ ThreadsOK'
    BY <1>5 DEF DeletePackClear, ThreadsOK, WorkOK, AnalysesAfterDelete
  <2> QED
    BY <1>5, <2>1, Frame DEF DeletePackClear
<1> QED
  BY <1>1, <1>2, <1>3, <1>4, <1>5 DEF ProjectNext

\* What a restart finds is well typed.
LEMMA RestartTypeOK == TypeOK /\ Restart => TypeOK'
<1> SUFFICES ASSUME TypeOK, Restart PROVE TypeOK'
  OBVIOUS
<1> USE DEF TypeOK
<1>1. VaultOK'
  BY ZeroInBounds DEF Restart, VaultOK
<1>2. StoreOK'
  <2>1. Restorable(file) \in SUBSET Source
    BY DEF Restorable, StoreOK
  <2>2. healthy' \in 0..MaxSource
    <3>1. CASE \E s \in Restorable(file) : IsHealthy(s) /\ healthy' = s.id
      BY <2>1, <3>1 DEF Source
    <3>2. CASE healthy' = 0
      BY <3>2, ZeroInBounds
    <3> QED
      BY <3>1, <3>2 DEF Restart
  <2> QED
    BY <2>1, <2>2 DEF Restart, StoreOK
<1>3. WorkOK'
  BY NoSelections DEF Restart, WorkOK
<1>4. ThreadsOK'
  BY DEF Restart, ThreadsOK
<1> QED
  BY <1>1, <1>2, <1>3, <1>4, Frame DEF Restart

\* Every step keeps the types.
LEMMA TypeStep == TypeOK /\ [Next]_vars => TypeOK'
<1> SUFFICES ASSUME TypeOK, [Next]_vars PROVE TypeOK'
  OBVIOUS
<1>1. CASE UNCHANGED vars
  BY <1>1, Frame DEF vars, TypeOK
<1> QED
  BY <1>1, VaultTypeOK, SyncTypeOK, RunTypeOK, CheckTypeOK, DecisionTypeOK,
     ProjectTypeOK, RestartTypeOK DEF Next

\* Every variable has its declared type in every reachable state, whatever
\* the number of threads, the contents, the stores' limits and the bounds.
THEOREM TypeCorrect == Spec => []TypeOK
BY InitTypeOK, TypeStep, PTL DEF Spec

-----------------------------------------------------------------------------
(* Which steps leave which part of the state alone.                        *)

\* Only vault handlers, refreshes and restarts change the vault or the source store.
LEMMA VaultAndStoreFrame ==
    RunNext \/ CheckNext \/ DecisionNext \/ ProjectNext => UNCHANGED <<vault, store>>
<1>1. RunNext => UNCHANGED <<vault, store>>
  BY DEF RunNext, PrepareApi, PrepareFiles, Load, EndRun, CommitAnalysis
<1>2. CheckNext => UNCHANGED <<vault, store>>
  BY DEF CheckNext, AskOzon, CommitPlan, EndCheck
<1>3. DecisionNext => UNCHANGED <<vault, store>>
  BY DEF DecisionNext, EditPlan, SelectCalculated, SelectOzon
<1>4. ProjectNext => UNCHANGED <<vault, store>>
  BY DEF ProjectNext, PutCost, PutMappings, PutPack, DeletePackSave, DeletePackClear
<1> QED
  BY <1>1, <1>2, <1>3, <1>4

\* A refresh leaves the vault alone, and only its commit touches the store.
LEMMA SyncFrame ==
    ASSUME NEW t \in Syncs
    PROVE  /\ SyncStart(t) \/ SyncClear(t) \/ SyncEnd(t) => UNCHANGED <<vault, store>>
           /\ \A quality, smart : SyncActivate(t, quality, smart) => UNCHANGED vault
BY DEF SyncStart, SyncClear, SyncEnd, SyncActivate

-----------------------------------------------------------------------------
(* The sources in memory belong to the vault.                              *)

\* Whatever the interleaving of setups, refreshes and restarts, no source of
\* another account is in the store once a replacement is complete, provided
\* that the state files can be deleted.
THEOREM SourcesAlwaysOfVault ==
    ASSUME ~UnlinkMayFail
    PROVE  Spec => []SourcesOfVault
<1>1. Init => SourcesOfVault
  BY DEF Init, SourcesOfVault
<1>2. SourcesOfVault /\ [Next]_vars => SourcesOfVault'
  <2> SUFFICES ASSUME SourcesOfVault, [Next]_vars PROVE SourcesOfVault'
    OBVIOUS
  <2>1. CASE UNCHANGED <<vault, store>>
    BY <2>1 DEF SourcesOfVault, vault, store
  <2>2. CASE UNCHANGED vars
    BY <2>1, <2>2 DEF vars
  <2>3. CASE VaultNext
    <3>1. CASE SetupWrite
      BY <3>1 DEF SetupWrite, SourcesOfVault
    <3>2. CASE SetupInvalidate
      BY <3>2 DEF SetupInvalidate, SourcesOfVault
    <3>3. CASE SetupFailsEarly \/ SetupFailsLate
      BY <3>3 DEF SetupFailsEarly, SetupFailsLate
    <3>4. CASE Unlock \/ Revoke
      BY <3>4 DEF Unlock, Revoke, SourcesOfVault, store
    <3> QED
      BY <2>3, <3>1, <3>2, <3>3, <3>4 DEF VaultNext
  <2>4. ASSUME NEW t \in Syncs, NEW quality, NEW smart, SyncActivate(t, quality, smart)
        PROVE  SourcesOfVault'
    <3>1. sync[t].ctx = doc /\ UNCHANGED vault
      BY <2>4, SyncFrame DEF SyncActivate, Active
    <3>2. \A s \in sources' : s \in sources \/ s.ctx = sync[t].ctx
      BY <2>4, SourcesAfterSubset DEF SyncActivate
    <3> QED
      BY <3>1, <3>2 DEF SourcesOfVault, vault
  <2>5. CASE SyncNext
    BY <2>1, <2>4, <2>5, SyncFrame DEF SyncNext
  <2>6. CASE Restart
    BY <2>6 DEF Restart, SourcesOfVault, Restorable
  <2> QED
    BY <2>1, <2>2, <2>3, <2>5, <2>6, VaultAndStoreFrame DEF Next
<1> QED
  BY <1>1, <1>2, PTL DEF Spec

-----------------------------------------------------------------------------
(* API analyses belong to the newest source.                               *)

\* While the vault, the sources and the locks stay, analyses may disappear.
LEMMA FewerAnalyses ==
    ASSUME AnalysesOnCurrentSource, UNCHANGED <<doc, sources>>,
           analyses' \subseteq analyses, ContextLockFree' => ContextLockFree
    PROVE  AnalysesOnCurrentSource'
BY DEF AnalysesOnCurrentSource, Newest

\* Files analyses are not concerned.
LEMMA OnlyFileAnalyses ==
    ASSUME analyses' \subseteq FilesOnly(analyses)
    PROVE  AnalysesOnCurrentSource'
BY DEF AnalysesOnCurrentSource, FilesOnly

\* A step that keeps vault and threads' progress keeps the context lock.
LEMMA LockFrame ==
    UNCHANGED <<vault, sync>> => (ContextLockFree' => ContextLockFree)
BY DEF vault, ContextLockFree

\* A replacement of the account takes the analyses with it; unlocking and
\* locking leave them and the sources alone.
LEMMA AnalysesVaultStep ==
    ASSUME ~UnlinkMayFail, AnalysesOnCurrentSource, VaultNext
    PROVE  AnalysesOnCurrentSource'
<1>1. CASE SetupWrite
  BY <1>1 DEF SetupWrite, AnalysesOnCurrentSource, ContextLockFree
<1>2. CASE SetupInvalidate
  BY <1>2, OnlyFileAnalyses DEF SetupInvalidate
<1>3. CASE SetupFailsEarly \/ SetupFailsLate
  BY <1>3 DEF SetupFailsEarly, SetupFailsLate
<1>4. CASE Unlock \/ Revoke
  <2>1. UNCHANGED <<doc, sources, analyses, replacing, sync>>
    BY <1>4 DEF Unlock, Revoke, store, work, threads
  <2> QED
    BY <2>1, FewerAnalyses DEF ContextLockFree
<1> QED
  BY <1>1, <1>2, <1>3, <1>4 DEF VaultNext

\* A refresh holds the context lock from activating its snapshot until the
\* analyses of the previous one are gone.
LEMMA AnalysesSyncStep ==
    ASSUME TypeOK, AnalysesOnCurrentSource, SyncNext
    PROVE  AnalysesOnCurrentSource'
<1>1. PICK t \in Syncs :
         \/ SyncStart(t) \/ SyncClear(t) \/ SyncEnd(t)
         \/ \E quality \in [Endpoints -> Quality], smart \in BOOLEAN :
               SyncActivate(t, quality, smart)
  BY DEF SyncNext
<1>2. DOMAIN sync = Syncs
  BY DEF TypeOK, ThreadsOK
<1>3. CASE SyncStart(t) \/ SyncEnd(t)
  <2>1. UNCHANGED <<doc, sources, analyses, replacing>>
    BY <1>3 DEF SyncStart, SyncEnd, vault, store, work
  <2>2. sync[t].pc # "clear"
    BY <1>3 DEF SyncStart, SyncEnd, Idle
  <2>3. \A u \in Syncs : u # t => sync'[u] = sync[u]
    BY <1>2, <1>3 DEF SyncStart, SyncEnd
  <2>4. ContextLockFree' => ContextLockFree
    BY <2>1, <2>2, <2>3 DEF ContextLockFree
  <2> QED
    BY <2>1, <2>4, FewerAnalyses
<1>4. CASE SyncClear(t)
  BY <1>4, OnlyFileAnalyses DEF SyncClear
<1>5. ASSUME NEW quality, NEW smart, SyncActivate(t, quality, smart)
      PROVE  AnalysesOnCurrentSource'
  <2>1. sync'[t].pc = "clear"
    BY <1>2, <1>5 DEF SyncActivate, Clearing
  <2> QED
    BY <2>1 DEF AnalysesOnCurrentSource, ContextLockFree
<1> QED
  BY <1>1, <1>3, <1>4, <1>5

\* An analysis commits only on the newest source and the current account.
LEMMA AnalysesRunStep ==
    ASSUME SourcesOfVault, AnalysesOnCurrentSource, RunNext
    PROVE  AnalysesOnCurrentSource'
<1>1. UNCHANGED <<vault, store, sync>>
  BY VaultAndStoreFrame
     DEF RunNext, PrepareApi, PrepareFiles, Load, EndRun, CommitAnalysis
<1>2. ContextLockFree' => ContextLockFree
  BY <1>1, LockFrame
<1>3. PICK r \in Runs :
         \/ PrepareApi(r) \/ PrepareFiles(r) \/ Load(r) \/ EndRun(r)
         \/ \E c \in Costs : CommitAnalysis(r, c)
  BY DEF RunNext
<1>4. CASE PrepareApi(r) \/ PrepareFiles(r) \/ Load(r) \/ EndRun(r)
  BY <1>1, <1>2, <1>4, FewerAnalyses
     DEF PrepareApi, PrepareFiles, Load, EndRun, vault, store, work
<1>5. ASSUME NEW c \in Costs, CommitAnalysis(r, c)
      PROVE  AnalysesOnCurrentSource'
  <2> DEFINE new == [id |-> lastAnalysis + 1, mode |-> run[r].mode, src |-> run[r].src,
                     ctx |-> run[r].ctx, pack |-> run[r].pack, cost |-> c,
                     maps |-> run[r].maps]
  <2>1. analyses' \subseteq analyses \cup {new}
    BY <1>5, FifoPutSubset DEF CommitAnalysis
  <2>2. new.mode = "api" => /\ ~replacing /\ new.ctx = doc
                            /\ \E s \in Newest(sources) : s.id = new.src
    BY <1>5 DEF CommitAnalysis, SourceStillCurrent, OnNewestSource, ContextLockFree
  <2>3. new.mode = "api" =>
           new.ctx = doc /\ \E s \in Newest(sources) : s.id = new.src /\ s.ctx = doc
    BY <2>2, NewestSubset DEF SourcesOfVault
  <2>4. doc' = doc /\ sources' = sources
    BY <1>1 DEF vault, store
  <2>5. ASSUME NEW a \in analyses', a.mode = "api", ContextLockFree'
        PROVE  a.ctx = doc /\ \E s \in Newest(sources) : s.id = a.src /\ s.ctx = doc
    BY <1>2, <2>1, <2>3, <2>5 DEF AnalysesOnCurrentSource
  <2> QED
    BY <2>4, <2>5 DEF AnalysesOnCurrentSource, Newest
<1> QED
  BY <1>3, <1>4, <1>5

\* Whichever of a refresh, an account replacement and an analysis commits
\* last, an API analysis in the store was computed from the newest source
\* and under the vault on disk, provided that state files can be deleted.
THEOREM AnalysesAlwaysCurrent ==
    ASSUME ~UnlinkMayFail
    PROVE  Spec => []AnalysesOnCurrentSource
<1>1. Init => AnalysesOnCurrentSource
  BY DEF Init, AnalysesOnCurrentSource
<1>2. TypeOK /\ SourcesOfVault /\ AnalysesOnCurrentSource /\ [Next]_vars
      => AnalysesOnCurrentSource'
  <2> SUFFICES ASSUME TypeOK, SourcesOfVault, AnalysesOnCurrentSource, [Next]_vars
               PROVE  AnalysesOnCurrentSource'
    OBVIOUS
  <2>1. CASE CheckNext \/ DecisionNext \/ ProjectNext \/ UNCHANGED vars
    <3>1. UNCHANGED <<vault, store, sync>>
      BY <2>1, VaultAndStoreFrame
         DEF CheckNext, AskOzon, CommitPlan, EndCheck, DecisionNext, EditPlan,
             SelectCalculated, SelectOzon, ProjectNext, PutCost, PutMappings, PutPack,
             DeletePackSave, DeletePackClear, threads, vars
    <3>2. analyses' \subseteq analyses
      BY <2>1
         DEF CheckNext, AskOzon, CommitPlan, EndCheck, DecisionNext, EditPlan,
             SelectCalculated, SelectOzon, ProjectNext, PutCost, PutMappings, PutPack,
             DeletePackSave, DeletePackClear, AnalysesAfterDelete, work, vars
    <3> QED
      BY <3>1, <3>2, LockFrame, FewerAnalyses DEF vault, store
  <2>2. CASE Restart
    BY <2>2 DEF Restart, AnalysesOnCurrentSource
  <2> QED
    BY <2>1, <2>2, AnalysesVaultStep, AnalysesSyncStep, AnalysesRunStep DEF Next
<1> QED
  BY <1>1, <1>2, TypeCorrect, SourcesAlwaysOfVault, PTL DEF Spec

-----------------------------------------------------------------------------
(* Identities.                                                             *)

\* Snapshots are told apart by identities that have been handed out, and the
\* file holds at most one snapshot.
SourcesIdentified ==
    /\ \A s \in sources \cup file : s.id <= lastSource
    /\ \A s, t \in sources : s.id = t.id => s = t
    /\ \A s, t \in file : s = t

\* Clearing the store or deleting the file keeps that.
LEMMA IdentifiedFrame ==
    ASSUME SourcesIdentified, lastSource' = lastSource,
           sources' \subseteq sources \/ sources' \subseteq file, file' \subseteq file
    PROVE  SourcesIdentified'
BY DEF SourcesIdentified

\* Only the commit of a refresh puts a snapshot into the store or the file.
LEMMA StoreOnlyShrinks ==
    ASSUME VaultNext \/ RunNext \/ CheckNext \/ DecisionNext \/ ProjectNext
           \/ (\E t \in Syncs : SyncStart(t) \/ SyncClear(t) \/ SyncEnd(t))
           \/ UNCHANGED vars
    PROVE  /\ lastSource' = lastSource
           /\ \/ UNCHANGED store
              \/ sources' = {} /\ healthy' = 0 /\ file' \subseteq file
<1>1. CASE VaultNext
  BY <1>1
     DEF VaultNext, SetupWrite, SetupInvalidate, SetupFailsEarly, SetupFailsLate,
         Unlock, Revoke, issued
<1>2. CASE RunNext \/ CheckNext \/ DecisionNext \/ ProjectNext
  <2>1. lastSource' = lastSource
    BY <1>2
       DEF RunNext, PrepareApi, PrepareFiles, Load, EndRun, CommitAnalysis, CheckNext,
           AskOzon, CommitPlan, EndCheck, DecisionNext, EditPlan, SelectCalculated,
           SelectOzon, ProjectNext, PutCost, PutMappings, PutPack, DeletePackSave,
           DeletePackClear, issued
  <2> QED
    BY <1>2, <2>1, VaultAndStoreFrame
<1>3. CASE \E t \in Syncs : SyncStart(t) \/ SyncClear(t) \/ SyncEnd(t)
  BY <1>3 DEF SyncStart, SyncClear, SyncEnd, issued
<1>4. CASE UNCHANGED vars
  BY <1>4 DEF vars, issued
<1> QED
  BY <1>1, <1>2, <1>3, <1>4

\* The snapshot a refresh commits: its identity is new.
LEMMA Committed ==
    ASSUME TypeOK, SourcesIdentified, NEW t \in Syncs, NEW quality, NEW smart,
           SyncActivate(t, quality, smart)
    PROVE  \E s : /\ s.id = lastSource + 1 /\ lastSource' = s.id
                  /\ s.id \in Nat /\ lastSource \in Nat
                  /\ \A x \in sources : x.id \in Nat /\ x.id < s.id
                  /\ file' = {s} /\ sources' = SourcesAfter(s)
                  /\ healthy' = HealthyAfter(s)
<1> DEFINE s == [id |-> lastSource + 1, ctx |-> sync[t].ctx,
                 rows |-> CandidateRows(sync[t], smart), quality |-> quality]
<1>1. lastSource \in Nat /\ \A x \in sources : x.id \in Nat
  BY BoundsAssumption DEF TypeOK, IssuedOK, StoreOK, Source
<1>2. \A x \in sources : x.id < lastSource + 1
  BY <1>1 DEF SourcesIdentified
<1>3. /\ file' = {s} /\ sources' = SourcesAfter(s) /\ healthy' = HealthyAfter(s)
      /\ lastSource' = lastSource + 1
  BY DEF SyncActivate, Saved
<1>4. s.id = lastSource + 1
  OBVIOUS
<1> HIDE DEF s
<1> QED
  BY <1>1, <1>2, <1>3, <1>4

\* Every step keeps the identities apart.
LEMMA IdentifiedStep ==
    ASSUME TypeOK, SourcesIdentified, [Next]_vars
    PROVE  SourcesIdentified'
<1>1. ASSUME NEW t \in Syncs, NEW quality, NEW smart, SyncActivate(t, quality, smart)
      PROVE  SourcesIdentified'
  <2>1. PICK s : /\ s.id = lastSource + 1 /\ lastSource' = s.id
                 /\ s.id \in Nat /\ lastSource \in Nat
                 /\ \A x \in sources : x.id \in Nat /\ x.id < s.id
                 /\ file' = {s} /\ sources' = SourcesAfter(s)
    BY <1>1, Committed
  <2>2. sources' \subseteq sources \cup {s}
    BY <2>1, SourcesAfterSubset
  <2> QED
    BY <2>1, <2>2 DEF SourcesIdentified
<1>2. CASE Restart
  BY <1>2, IdentifiedFrame DEF Restart, Restorable, issued
<1>3. CASE \/ VaultNext \/ RunNext \/ CheckNext \/ DecisionNext \/ ProjectNext
           \/ (\E t \in Syncs : SyncStart(t) \/ SyncClear(t) \/ SyncEnd(t))
           \/ UNCHANGED vars
  BY <1>3, StoreOnlyShrinks, IdentifiedFrame DEF store
<1> QED
  BY <1>1, <1>2, <1>3 DEF Next, SyncNext

\* The identities of sources are always apart.
LEMMA SourcesAlwaysIdentified == Spec => []SourcesIdentified
<1>1. Init => SourcesIdentified
  BY DEF Init, SourcesIdentified
<1> QED
  BY <1>1, IdentifiedStep, TypeCorrect, PTL DEF Spec

-----------------------------------------------------------------------------
(* The last healthy snapshot.                                              *)

\* put never evicts the snapshot that is the last healthy one after it.
LEMMA HealthyNotEvicted ==
    ASSUME NEW s, NEW x \in sources \cup {s}, x.id = HealthyAfter(s)
    PROVE  x \in SourcesAfter(s)
BY DEF SourcesAfter, Oldest

\* However many unhealthy snapshots follow and whatever the size of the
\* store, the newest healthy snapshot it was given stays the fallback.
THEOREM FallbackAlwaysKept == Spec => []FallbackKept
<1>1. Init => FallbackKept
  BY DEF Init, FallbackKept
<1>2. TypeOK /\ SourcesIdentified /\ FallbackKept /\ [Next]_vars => FallbackKept'
  <2> SUFFICES ASSUME TypeOK, SourcesIdentified, FallbackKept, [Next]_vars
               PROVE  FallbackKept'
    OBVIOUS
  <2>1. ASSUME NEW t \in Syncs, NEW quality, NEW smart, SyncActivate(t, quality, smart)
        PROVE  FallbackKept'
    <3>1. PICK s : /\ s.id \in Nat
                   /\ \A x \in sources : x.id \in Nat /\ x.id < s.id
                   /\ sources' = SourcesAfter(s) /\ healthy' = HealthyAfter(s)
      BY <2>1, Committed
    <3>2. sources' \subseteq sources \cup {s}
      BY <3>1, SourcesAfterSubset
    <3>3. CASE IsHealthy(s)
      <4>1. healthy' = s.id /\ s \in sources'
        BY <3>1, <3>3, HealthyNotEvicted DEF HealthyAfter
      <4> QED
        BY <3>1, <3>2, <3>3, <4>1 DEF FallbackKept, IsHealthy
    <3>4. CASE ~IsHealthy(s)
      <4>1. healthy' = healthy /\ HealthyAfter(s) = healthy
        BY <3>1, <3>4 DEF HealthyAfter
      <4>2. \A x \in sources : x.id = healthy => x \in sources'
        BY <3>1, <4>1, HealthyNotEvicted
      <4> QED
        BY <3>2, <3>4, <4>1, <4>2 DEF FallbackKept, IsHealthy
    <3> QED
      BY <3>3, <3>4
  <2>2. CASE Restart
    <3>1. \A x, y \in Restorable(file) : x = y
      BY DEF SourcesIdentified, Restorable
    <3>2. \A x \in Restorable(file) : x.id \in Nat
      BY DEF TypeOK, StoreOK, Source, Restorable
    <3> QED
      BY <2>2, <3>1, <3>2 DEF Restart, FallbackKept, IsHealthy
  <2>3. CASE \/ VaultNext \/ RunNext \/ CheckNext \/ DecisionNext \/ ProjectNext
             \/ (\E t \in Syncs : SyncStart(t) \/ SyncClear(t) \/ SyncEnd(t))
             \/ UNCHANGED vars
    BY <2>3, StoreOnlyShrinks DEF store, FallbackKept, IsHealthy
  <2> QED
    BY <2>1, <2>2, <2>3 DEF Next, SyncNext
<1> QED
  BY <1>1, <1>2, TypeCorrect, SourcesAlwaysIdentified, PTL DEF Spec

-----------------------------------------------------------------------------
(* Memory and disk.                                                        *)

\* Two snapshots are at most two.
LEMMA AtMostTwo ==
    ASSUME NEW y, NEW s
    PROVE  /\ IsFiniteSet({y} \cup {s})
           /\ Cardinality({y} \cup {s}) \in {1, 2}
<1>1. IsFiniteSet({y}) /\ Cardinality({y}) = 1
  BY FS_Singleton
<1>2. /\ IsFiniteSet({y} \cup {s})
      /\ Cardinality({y} \cup {s}) = IF s \in {y} THEN Cardinality({y})
                                                 ELSE Cardinality({y}) + 1
  BY <1>1, FS_AddElement
<1>3. Cardinality({y}) + 1 = 2
  BY <1>1
<1> QED
  BY <1>1, <1>2, <1>3

\* A store of at least two keeps the snapshot it is given: something older,
\* or the last healthy snapshot, is there to stay or to go instead.
LEMMA NewestNotEvicted ==
    ASSUME KeepSources > 1, SourcesIdentified,
           NEW s, s.id \in Nat, \A x \in sources : x.id \in Nat /\ x.id < s.id
    PROVE  s \in SourcesAfter(s)
<1> DEFINE all == sources \cup {s}
           evictable == {x \in all : x.id # HealthyAfter(s)}
<1>1. CASE \A x \in sources : x.id = HealthyAfter(s)
  <2>1. KeepSources \in Nat
    BY BoundsAssumption
  <2>2. all = {s} \/ \E y \in sources : all = {y} \cup {s}
    <3>1. \A y \in sources : sources = {y}
      BY <1>1 DEF SourcesIdentified
    <3> QED
      BY <3>1
  <2>3. Cardinality(all) \in {1, 2}
    BY <2>2, AtMostTwo, FS_Singleton
  <2>4. ~(Cardinality(all) > KeepSources)
    BY <2>1, <2>3
  <2> QED
    BY <2>4 DEF SourcesAfter
<1>2. CASE \E x \in sources : x.id # HealthyAfter(s)
  <2>1. s \notin Oldest(evictable)
    BY <1>2 DEF Oldest
  <2> QED
    BY <2>1 DEF SourcesAfter
<1> QED
  BY <1>1, <1>2

\* With room for two snapshots, the newest source in memory is the one on
\* disk, also between a half-failed replacement of the account and a restart.
THEOREM NewestAlwaysOnDisk ==
    ASSUME KeepSources > 1
    PROVE  Spec => []NewestIsOnDisk
<1>1. Init => NewestIsOnDisk
  BY DEF Init, NewestIsOnDisk
<1>2. TypeOK /\ SourcesIdentified /\ NewestIsOnDisk /\ [Next]_vars => NewestIsOnDisk'
  <2> SUFFICES ASSUME TypeOK, SourcesIdentified, NewestIsOnDisk, [Next]_vars
               PROVE  NewestIsOnDisk'
    OBVIOUS
  <2>1. ASSUME NEW t \in Syncs, NEW quality, NEW smart, SyncActivate(t, quality, smart)
        PROVE  NewestIsOnDisk'
    <3>1. PICK s : /\ s.id \in Nat
                   /\ \A x \in sources : x.id \in Nat /\ x.id < s.id
                   /\ file' = {s} /\ sources' = SourcesAfter(s)
      BY <2>1, Committed
    <3>2. s \in sources' /\ sources' \subseteq sources \cup {s}
      BY <3>1, NewestNotEvicted, SourcesAfterSubset
    <3> QED
      BY <3>1, <3>2 DEF NewestIsOnDisk, Newest
  <2>2. CASE Restart
    <3>1. \A x, y \in file : x = y
      BY DEF SourcesIdentified
    <3>2. \A x \in file : x.id \in Nat
      BY DEF TypeOK, StoreOK, Source
    <3>3. file' = file /\ sources' = Restorable(file)
      BY <2>2 DEF Restart
    <3> QED
      BY <3>1, <3>2, <3>3 DEF NewestIsOnDisk, Newest, Restorable
  <2>3. CASE \/ VaultNext \/ RunNext \/ CheckNext \/ DecisionNext \/ ProjectNext
             \/ (\E t \in Syncs : SyncStart(t) \/ SyncClear(t) \/ SyncEnd(t))
             \/ UNCHANGED vars
    BY <2>3, StoreOnlyShrinks DEF store, NewestIsOnDisk, Newest
  <2> QED
    BY <2>1, <2>2, <2>3 DEF Next, SyncNext
<1> QED
  BY <1>1, <1>2, TypeCorrect, SourcesAlwaysIdentified, PTL DEF Spec


-----------------------------------------------------------------------------
(* One refresh at a time.                                                  *)

\* The bound of the claim: overlapping refreshes do regress (run "overlap").
OneRefresh == \A t, u \in Syncs : t = u

\* Nothing newer than its base is stored while a refresh fetches.
BaseIsNewest ==
    \A t \in Syncs : sync[t].pc = "fetch" => Newest(sources) \subseteq sync[t].base

\* Only the refresh itself changes its progress.
LEMMA RefreshFrame ==
    VaultNext \/ RunNext \/ CheckNext \/ DecisionNext \/ ProjectNext => sync' = sync
<1>1. VaultNext => sync' = sync
  <2>1. VaultNext => UNCHANGED threads
    BY DEF VaultNext, SetupWrite, SetupInvalidate, SetupFailsEarly, SetupFailsLate,
           Unlock, Revoke
  <2>2. UNCHANGED threads => sync' = sync
    BY DEF threads
  <2> QED
    BY <2>1, <2>2
<1>2. RunNext \/ CheckNext => sync' = sync
  BY DEF RunNext, PrepareApi, PrepareFiles, Load, EndRun, CommitAnalysis, CheckNext,
         AskOzon, CommitPlan, EndCheck
<1>3. DecisionNext \/ ProjectNext => sync' = sync
  BY DEF DecisionNext, EditPlan, SelectCalculated, SelectOzon, ProjectNext, PutCost,
         PutMappings, PutPack, DeletePackSave, DeletePackClear, threads
<1> QED
  BY <1>1, <1>2, <1>3

\* Every step keeps the base the newest.
LEMMA BaseStep ==
    ASSUME OneRefresh, TypeOK, BaseIsNewest, [Next]_vars
    PROVE  BaseIsNewest'
<1>1. ASSUME NEW t \in Syncs, NEW quality, NEW smart, SyncActivate(t, quality, smart)
      PROVE  BaseIsNewest'
  <2>1. sync' = [sync EXCEPT ![t] = Clearing] /\ sync \in [Syncs -> SyncJob \cup {Idle, Clearing}]
    BY <1>1 DEF SyncActivate, TypeOK, ThreadsOK
  <2> QED
    BY <2>1 DEF BaseIsNewest, OneRefresh, Clearing
<1>2. ASSUME NEW t \in Syncs, SyncStart(t) \/ SyncClear(t) \/ SyncEnd(t)
      PROVE  BaseIsNewest'
  <2>1. sources' = sources /\ sync \in [Syncs -> SyncJob \cup {Idle, Clearing}]
    BY <1>2 DEF SyncStart, SyncClear, SyncEnd, store, TypeOK, ThreadsOK
  <2>2. \/ sync' = [sync EXCEPT ![t] = Idle]
        \/ sync' = [sync EXCEPT ![t] = [pc |-> "fetch", ctx |-> doc, gen |-> gen,
                                        base |-> Newest(sources)]]
    BY <1>2 DEF SyncStart, SyncClear, SyncEnd
  <2> QED
    BY <2>1, <2>2 DEF BaseIsNewest, Newest, Idle
<1>3. CASE Restart
  BY <1>3 DEF Restart, BaseIsNewest, Idle
<1>4. CASE \/ VaultNext \/ RunNext \/ CheckNext \/ DecisionNext \/ ProjectNext
           \/ UNCHANGED vars
  <2>1. sync' = sync
    <3>1. UNCHANGED vars => sync' = sync
      BY DEF vars, threads
    <3> QED
      BY <1>4, <3>1, RefreshFrame
  <2>2. sources' = sources \/ sources' = {}
    BY <1>4, StoreOnlyShrinks DEF store
  <2> QED
    BY <2>1, <2>2 DEF BaseIsNewest, Newest
<1> QED
  BY <1>1, <1>2, <1>3, <1>4 DEF Next, SyncNext

\* Of refreshes that do not overlap, none replaces the newest source by one
\* with less evidence, and a restart restores the newest.
THEOREM SourceNeverLosesEvidence ==
    ASSUME OneRefresh, KeepSources > 1
    PROVE  Spec => SourceNeverRegresses
<1>1. Init => BaseIsNewest
  BY DEF Init, BaseIsNewest, Idle
<1>2. /\ TypeOK /\ SourcesIdentified /\ NewestIsOnDisk /\ BaseIsNewest /\ [Next]_vars
      => \A s \in Newest(sources), n \in Newest(sources') : ~Regresses({s}, n.quality)
  <2> SUFFICES ASSUME TypeOK, SourcesIdentified, NewestIsOnDisk, BaseIsNewest, [Next]_vars,
                      NEW s \in Newest(sources), NEW n \in Newest(sources')
               PROVE  ~Regresses({s}, n.quality)
    OBVIOUS
  <2>1. s \in Source
    BY NewestSubset DEF TypeOK, StoreOK
  <2>2. ~Regresses({s}, s.quality)
    BY <2>1 DEF Regresses, Source, Quality
  <2>3. ASSUME NEW t \in Syncs, NEW quality, NEW smart, SyncActivate(t, quality, smart)
        PROVE  ~Regresses({s}, n.quality)
    <3> DEFINE new == [id |-> lastSource + 1, ctx |-> sync[t].ctx,
                       rows |-> CandidateRows(sync[t], smart), quality |-> quality]
    <3>1. sources' = SourcesAfter(new) /\ new.id = lastSource + 1 /\ new.quality = quality
      BY <2>3 DEF SyncActivate
    <3>2. lastSource \in Nat /\ \A x \in sources : x.id \in Nat /\ x.id < lastSource + 1
      BY BoundsAssumption DEF TypeOK, IssuedOK, StoreOK, Source, SourcesIdentified
    <3> HIDE DEF new
    <3>3. new \in sources' /\ sources' \subseteq sources \cup {new}
      BY <3>1, <3>2, NewestNotEvicted, SourcesAfterSubset
    <3>4. n = new
      BY <3>1, <3>2, <3>3 DEF Newest
    <3>5. s \in sync[t].base /\ ~Regresses(sync[t].base, quality)
      BY <2>3 DEF SyncActivate, Activated, BaseIsNewest
    <3> QED
      BY <3>1, <3>4, <3>5 DEF Regresses
  <2>4. CASE Restart
    <3>1. \A x, y \in file : x = y
      BY DEF SourcesIdentified
    <3>2. n \in file /\ s \in file
      BY <2>4, NewestSubset DEF Restart, Restorable, NewestIsOnDisk, Newest
    <3> QED
      BY <2>2, <3>1, <3>2
  <2>5. CASE \/ VaultNext \/ RunNext \/ CheckNext \/ DecisionNext \/ ProjectNext
             \/ (\E t \in Syncs : SyncStart(t) \/ SyncClear(t) \/ SyncEnd(t))
             \/ UNCHANGED vars
    <3>1. sources' = sources \/ sources' = {}
      BY <2>5, StoreOnlyShrinks DEF store
    <3>2. n = s
      BY <3>1 DEF SourcesIdentified, Newest, TypeOK, StoreOK, Source
    <3> QED
      BY <2>2, <3>2
  <2> QED
    BY <2>3, <2>4, <2>5 DEF Next, SyncNext
<1>3. /\ TypeOK /\ SourcesIdentified /\ NewestIsOnDisk /\ BaseIsNewest /\ [Next]_vars
      => [\A s \in Newest(sources), n \in Newest(sources') :
             s.ctx = n.ctx /\ ~replacing => ~Regresses({s}, n.quality)]_vars
  BY <1>2
<1> QED
  BY <1>1, <1>3, BaseStep, TypeCorrect, SourcesAlwaysIdentified, NewestAlwaysOnDisk, PTL
     DEF Spec, SourceNeverRegresses

-----------------------------------------------------------------------------
(* Pack data.                                                              *)

\* With the pack data and the deletions in progress unchanged, analyses and
\* plans may only disappear.
LEMMA PackFrame ==
    ASSUME PackDataFresh, UNCHANGED <<pack, clearing>>,
           analyses' \subseteq analyses, plans' \subseteq plans
    PROVE  PackDataFresh'
BY DEF PackDataFresh

\* Steps of the vault, of refreshes, of the manager and of master data other
\* than packs only remove analyses and plans.
LEMMA OnlyRemoves ==
    ASSUME VaultNext \/ SyncNext \/ DecisionNext
           \/ (\E c \in Costs : PutCost(c)) \/ (\E m \in Mappings : PutMappings(m))
    PROVE  /\ UNCHANGED <<pack, clearing>>
           /\ analyses' \subseteq analyses /\ plans' \subseteq plans
<1>1. CASE VaultNext
  BY <1>1, FilesOnlySubset
     DEF VaultNext, SetupWrite, SetupInvalidate, SetupFailsEarly, SetupFailsLate,
         Unlock, Revoke, project, work, threads
<1>2. CASE SyncNext
  BY ZenonT(30), <1>2, FilesOnlySubset
     DEF SyncNext, SyncStart, SyncActivate, SyncClear, SyncEnd, project, work
<1>3. CASE DecisionNext
  BY <1>3
     DEF DecisionNext, EditPlan, SelectCalculated, SelectOzon, PlansAfterEdit,
         project, threads
<1>4. CASE (\E c \in Costs : PutCost(c)) \/ (\E m \in Mappings : PutMappings(m))
  BY <1>4 DEF PutCost, PutMappings, threads
<1> QED
  BY <1>1, <1>2, <1>3, <1>4

\* However a change of the pack data, also a deletion that has saved but not
\* yet cleared, interleaves with analyses and shipment checks: once no
\* deletion is half done, what is stored was computed from the current packs.
THEOREM PackDataAlwaysFresh == Spec => []PackDataFresh
<1>1. Init => PackDataFresh
  BY DEF Init, PackDataFresh
<1>2. PackDataFresh /\ [Next]_vars => PackDataFresh'
  <2> SUFFICES ASSUME PackDataFresh, [Next]_vars PROVE PackDataFresh'
    OBVIOUS
  <2>1. CASE UNCHANGED vars
    BY <2>1, PackFrame DEF vars, project, work, threads
  <2>2. CASE VaultNext \/ SyncNext \/ DecisionNext
             \/ (\E c \in Costs : PutCost(c)) \/ (\E m \in Mappings : PutMappings(m))
    BY <2>2, OnlyRemoves, PackFrame
  <2>3. ASSUME NEW r \in Runs, PrepareApi(r) \/ PrepareFiles(r) \/ Load(r) \/ EndRun(r)
        PROVE  PackDataFresh'
    BY <2>3, PackFrame DEF PrepareApi, PrepareFiles, Load, EndRun, project, work
  <2>4. ASSUME NEW r \in Runs, NEW c \in Costs, CommitAnalysis(r, c)
        PROVE  PackDataFresh'
    <3> DEFINE new == [id |-> lastAnalysis + 1, mode |-> run[r].mode,
                       src |-> run[r].src, ctx |-> run[r].ctx, pack |-> run[r].pack,
                       cost |-> c, maps |-> run[r].maps]
    <3>1. analyses' \subseteq analyses \cup {new} /\ new.pack = pack
      BY <2>4, FifoPutSubset DEF CommitAnalysis, PackUnchanged
    <3>2. UNCHANGED <<pack, clearing, plans>>
      BY <2>4 DEF CommitAnalysis
    <3> HIDE DEF new
    <3> QED
      BY <3>1, <3>2 DEF PackDataFresh
  <2>5. ASSUME NEW q \in Checks, AskOzon(q) \/ EndCheck(q) PROVE PackDataFresh'
    BY <2>5, PackFrame DEF AskOzon, EndCheck, project, work
  <2>6. ASSUME NEW q \in Checks, CommitPlan(q) PROVE PackDataFresh'
    <3> DEFINE new == [id |-> lastPlan + 1, of |-> check[q].of,
                       decisions |-> check[q].decisions]
    <3>1. plans' \subseteq plans \cup {new} /\ new.of \in analyses
      BY <2>6, FifoPutSubset, NewestSubset
         DEF CommitPlan, CurrentDecisions, CurrentAnalysis
    <3>2. UNCHANGED <<pack, clearing, analyses>>
      BY <2>6 DEF CommitPlan, project
    <3> HIDE DEF new
    <3> QED
      BY <3>1, <3>2 DEF PackDataFresh
  <2>7. ASSUME NEW k \in Packs, PutPack(k) PROVE PackDataFresh'
    BY <2>7 DEF PutPack, PackDataFresh
  <2>8. ASSUME NEW d \in Deletes, NEW k \in Packs, DeletePackSave(d, k)
        PROVE  PackDataFresh'
    BY <2>8 DEF DeletePackSave, PackDataFresh
  <2>9. ASSUME NEW d \in Deletes, DeletePackClear(d) PROVE PackDataFresh'
    BY <2>9 DEF DeletePackClear, PackDataFresh, AnalysesAfterDelete
  <2>10. CASE Restart
    BY <2>10 DEF Restart, PackDataFresh
  <2> QED
    BY <2>1, <2>2, <2>3, <2>4, <2>5, <2>6, <2>7, <2>8, <2>9, <2>10
       DEF Next, RunNext, CheckNext, ProjectNext
<1> QED
  BY <1>1, <1>2, PTL DEF Spec

-----------------------------------------------------------------------------
(* Revoked sessions.                                                       *)

\* A session is captured with the generation of that moment, so it is never
\* ahead of the vault: this is what makes "the generations differ" final.
SessionsOfPast ==
    /\ \A t \in Syncs : sync[t].pc = "fetch" => sync[t].gen \in 0..gen
    /\ \A q \in Checks : check[q].pc = "asked" => check[q].gen \in 0..gen

\* What the refreshes and the shipment checks hold after a step is what they
\* held before, nothing, or the session of this moment.
LEMMA CapturedNow ==
    ASSUME TypeOK, SyncNext \/ RunNext \/ CheckNext \/ DecisionNext \/ ProjectNext
    PROVE  /\ \A t \in Syncs : \/ sync'[t] = sync[t] \/ sync'[t] = Idle
                               \/ sync'[t] = Clearing \/ sync'[t].gen = gen
           /\ \A q \in Checks : \/ check'[q] = check[q] \/ check'[q] = Idle
                                \/ check'[q].gen = gen
<1>1. DOMAIN sync = Syncs /\ DOMAIN check = Checks
  BY DEF TypeOK, ThreadsOK
<1>2. CASE SyncNext
  <2>1. PICK t \in Syncs :
           /\ check' = check
           /\ \/ sync' = [sync EXCEPT ![t] = Idle]
              \/ sync' = [sync EXCEPT ![t] = Clearing]
              \/ \E base : sync' = [sync EXCEPT ![t] = [pc |-> "fetch", ctx |-> doc,
                                                      gen |-> gen, base |-> base]]
    BY ZenonT(30), <1>2 DEF SyncNext, SyncStart, SyncActivate, SyncClear, SyncEnd
  <2> QED
    BY <1>1, <2>1
<1>3. CASE CheckNext
  BY <1>1, <1>3 DEF CheckNext, AskOzon, CommitPlan, EndCheck
<1>4. CASE RunNext
  BY <1>4 DEF RunNext, PrepareApi, PrepareFiles, Load, EndRun, CommitAnalysis
<1>5. CASE DecisionNext \/ ProjectNext
  BY <1>5
     DEF DecisionNext, EditPlan, SelectCalculated, SelectOzon, ProjectNext, PutCost,
         PutMappings, PutPack, DeletePackSave, DeletePackClear, threads
<1> QED
  BY <1>2, <1>3, <1>4, <1>5

\* No captured session is ahead of the vault.
LEMMA SessionsAlwaysOfPast == Spec => []SessionsOfPast
<1>1. Init => SessionsOfPast
  BY DEF Init, SessionsOfPast, Idle
<1>2. TypeOK /\ SessionsOfPast /\ [Next]_vars => SessionsOfPast'
  <2> SUFFICES ASSUME TypeOK, SessionsOfPast, [Next]_vars PROVE SessionsOfPast'
    OBVIOUS
  <2>1. gen \in Nat
    BY BoundsAssumption DEF TypeOK, VaultOK
  <2>2. CASE VaultNext
    <3>1. gen' \in Nat /\ gen' >= gen /\ UNCHANGED threads
      BY <2>1, <2>2
         DEF VaultNext, SetupWrite, SetupInvalidate, SetupFailsEarly, SetupFailsLate,
             Unlock, Revoke, NextGeneration
    <3> QED
      BY <2>1, <3>1 DEF SessionsOfPast, threads
  <2>3. CASE SyncNext \/ RunNext \/ CheckNext \/ DecisionNext \/ ProjectNext
    <3>1. gen' = gen
      BY <2>3, SyncFrame, VaultAndStoreFrame DEF SyncNext, vault
    <3> QED
      BY <2>1, <2>3, <3>1, CapturedNow DEF SessionsOfPast, Idle, Clearing
  <2>4. CASE Restart
    BY <2>4 DEF Restart, SessionsOfPast, Idle
  <2>5. CASE UNCHANGED vars
    BY <2>5 DEF vars, vault, threads, SessionsOfPast
  <2> QED
    BY <2>2, <2>3, <2>4, <2>5 DEF Next
<1> QED
  BY <1>1, <1>2, TypeCorrect, PTL DEF Spec

\* A session that was revoked while a refresh or a shipment check still holds
\* it never becomes active again, for any number of threads and transitions.
THEOREM RevokedStaysRevoked == Spec => SessionsNeverRevive
<1> DEFINE Stays(c, g) == ~Active(c, g) => ~(unlocked' /\ g = gen' /\ c = doc')
<1>1. ASSUME TypeOK, [Next]_vars
      PROVE  \/ UNCHANGED vault
             \/ gen' > gen \/ UNCHANGED <<doc, unlocked, gen>>
             \/ unlocked' = FALSE
  <2>1. gen \in Nat
    BY <1>1, BoundsAssumption DEF TypeOK, VaultOK
  <2>2. CASE VaultNext
    BY <2>1, <2>2
       DEF VaultNext, SetupWrite, SetupInvalidate, SetupFailsEarly, SetupFailsLate,
           Unlock, Revoke, NextGeneration
  <2>3. CASE SyncNext
    BY <2>3, SyncFrame DEF SyncNext
  <2>4. CASE Restart
    BY <2>4 DEF Restart
  <2>5. CASE UNCHANGED vars
    BY <2>5 DEF vars
  <2> QED
    BY <1>1, <2>2, <2>3, <2>4, <2>5, VaultAndStoreFrame DEF Next
<1>2. ASSUME TypeOK, [Next]_vars, NEW c, NEW g \in 0..gen
      PROVE  Stays(c, g)
  <2>1. gen \in Nat
    BY <1>2, BoundsAssumption DEF TypeOK, VaultOK
  <2>2. CASE gen' > gen
    <3>1. gen' \in Nat
      BY <1>2, TypeStep, BoundsAssumption DEF TypeOK, VaultOK
    <3>2. g # gen'
      BY <2>1, <2>2, <3>1
    <3> QED
      BY <3>2
  <2>3. CASE UNCHANGED <<doc, unlocked, gen>>
    BY <2>3 DEF Active
  <2>4. CASE unlocked' = FALSE
    BY <2>4
  <2> QED
    BY <1>1, <1>2, <2>2, <2>3, <2>4 DEF vault
<1>3. TypeOK /\ SessionsOfPast /\ [Next]_vars
      => /\ \A t \in Syncs : sync[t].pc = "fetch" => Stays(sync[t].ctx, sync[t].gen)
         /\ \A q \in Checks : check[q].pc = "asked" => Stays(check[q].ctx, check[q].gen)
  BY <1>2 DEF SessionsOfPast
<1>4. TypeOK /\ SessionsOfPast /\ [Next]_vars
      => [/\ \A t \in Syncs :
               sync[t].pc = "fetch" /\ sync'[t] = sync[t]
               /\ ~Active(sync[t].ctx, sync[t].gen)
               => ~(unlocked' /\ sync[t].gen = gen' /\ sync[t].ctx = doc')
          /\ \A q \in Checks :
               check[q].pc = "asked" /\ check'[q] = check[q]
               /\ ~Active(check[q].ctx, check[q].gen)
               => ~(unlocked' /\ check[q].gen = gen' /\ check[q].ctx = doc')]_vars
  BY <1>3
<1> QED
  BY <1>4, TypeCorrect, SessionsAlwaysOfPast, PTL DEF Spec, SessionsNeverRevive

-----------------------------------------------------------------------------
(* Where plans come from.                                                  *)

\* Only analyses of Ozon data are validated, and the identity of the analysis
\* of a plan or of a shipment check has been handed out.
PlansOfIssuedApi ==
    /\ \A a \in analyses : a.id <= lastAnalysis
    /\ \A p \in plans : p.of.mode = "api" /\ p.of.id <= lastAnalysis
    /\ \A q \in Checks : check[q].pc = "asked" =>
          check[q].of.mode = "api" /\ check[q].of.id <= lastAnalysis

\* Dropping what is stored, or answering a check, keeps that.
LEMMA IssuedFrame ==
    ASSUME PlansOfIssuedApi, lastAnalysis' = lastAnalysis,
           analyses' \subseteq analyses, plans' \subseteq plans,
           \A q \in Checks : check'[q] = check[q] \/ check'[q] = Idle
    PROVE  PlansOfIssuedApi'
BY DEF PlansOfIssuedApi, Idle

\* Every step keeps it.
LEMMA PlansStep ==
    ASSUME TypeOK, PlansOfIssuedApi, [Next]_vars
    PROVE  PlansOfIssuedApi'
<1>1. DOMAIN check = Checks
  BY DEF TypeOK, ThreadsOK
<1>2. CASE VaultNext \/ SyncNext \/ DecisionNext
  <2>1. analyses' \subseteq analyses /\ plans' \subseteq plans
    BY <1>2, OnlyRemoves
  <2>2. lastAnalysis' = lastAnalysis /\ check' = check
    BY ZenonT(30), <1>2
       DEF VaultNext, SetupWrite, SetupInvalidate, SetupFailsEarly, SetupFailsLate,
           Unlock, Revoke, SyncNext, SyncStart, SyncActivate, SyncClear, SyncEnd,
           DecisionNext, EditPlan, SelectCalculated, SelectOzon, threads, issued
  <2> QED
    BY <2>1, <2>2, IssuedFrame
<1>3. CASE ProjectNext
  BY <1>3, IssuedFrame
     DEF ProjectNext, PutCost, PutMappings, PutPack, DeletePackSave, DeletePackClear,
         AnalysesAfterDelete, work, threads, issued
<1>4. ASSUME NEW r \in Runs, PrepareApi(r) \/ PrepareFiles(r) \/ Load(r) \/ EndRun(r)
      PROVE  PlansOfIssuedApi'
  BY <1>4, IssuedFrame DEF PrepareApi, PrepareFiles, Load, EndRun, work, issued
<1>5. ASSUME NEW r \in Runs, NEW c \in Costs, CommitAnalysis(r, c)
      PROVE  PlansOfIssuedApi'
  <2> DEFINE new == [id |-> lastAnalysis + 1, mode |-> run[r].mode,
                     src |-> run[r].src, ctx |-> run[r].ctx, pack |-> run[r].pack,
                     cost |-> c, maps |-> run[r].maps]
  <2>1. analyses' \subseteq analyses \cup {new} /\ new.id = lastAnalysis'
    BY <1>5, FifoPutSubset DEF CommitAnalysis
  <2>2. UNCHANGED <<plans, check>> /\ lastAnalysis' = lastAnalysis + 1
    BY <1>5 DEF CommitAnalysis
  <2>3. lastAnalysis \in Nat /\ \A a \in analyses : a.id \in Nat
    BY BoundsAssumption DEF TypeOK, IssuedOK, WorkOK, Analysis, AnalysisIds
  <2>4. \A p \in plans : p.of.id \in Nat
    BY DEF TypeOK, WorkOK, Plan, Analysis, AnalysisIds
  <2>5. \A q \in Checks : check[q].pc = "asked" => check[q].of.id \in Nat
    BY DEF TypeOK, ThreadsOK, CheckJob, Analysis, AnalysisIds, Idle
  <2> HIDE DEF new
  <2>6. \A a \in analyses' : a.id <= lastAnalysis'
    BY <2>1, <2>2, <2>3 DEF PlansOfIssuedApi
  <2> QED
    BY <2>2, <2>3, <2>4, <2>5, <2>6 DEF PlansOfIssuedApi
<1>6. ASSUME NEW q \in Checks, AskOzon(q) PROVE PlansOfIssuedApi'
  <2>1. PICK a \in analyses :
           /\ a.mode = "api"
           /\ check' = [check EXCEPT ![q] =
                          [pc |-> "asked", of |-> a, decisions |-> DecisionsFor(a),
                           pack |-> pack, ctx |-> doc, gen |-> gen]]
    BY <1>6 DEF AskOzon
  <2>2. UNCHANGED <<analyses, plans, lastAnalysis>>
    BY <1>6 DEF AskOzon, work, issued
  <2> QED
    BY <1>1, <2>1, <2>2 DEF PlansOfIssuedApi
<1>7. ASSUME NEW q \in Checks, CommitPlan(q) PROVE PlansOfIssuedApi'
  <2> DEFINE new == [id |-> lastPlan + 1, of |-> check[q].of,
                     decisions |-> check[q].decisions]
  <2>1. plans' \subseteq plans \cup {new}
    BY <1>7, FifoPutSubset DEF CommitPlan
  <2>2. new.of.mode = "api" /\ new.of.id <= lastAnalysis
    BY <1>7 DEF CommitPlan, PlansOfIssuedApi
  <2>3. UNCHANGED <<analyses, lastAnalysis>> /\ check' = [check EXCEPT ![q] = Idle]
    BY <1>7 DEF CommitPlan
  <2> HIDE DEF new
  <2> QED
    BY <1>1, <2>1, <2>2, <2>3 DEF PlansOfIssuedApi, Idle
<1>8. ASSUME NEW q \in Checks, EndCheck(q) PROVE PlansOfIssuedApi'
  BY <1>1, <1>8, IssuedFrame DEF EndCheck, work, issued
<1>9. CASE Restart
  BY <1>9 DEF Restart, PlansOfIssuedApi, Idle
<1>10. CASE UNCHANGED vars
  BY <1>10, IssuedFrame DEF vars, work, threads, issued
<1> QED
  BY <1>2, <1>3, <1>4, <1>5, <1>6, <1>7, <1>8, <1>9, <1>10
     DEF Next, RunNext, CheckNext

\* Plans and checks are of API analyses whose identity was handed out.
LEMMA PlansAlwaysOfIssuedApi == Spec => []PlansOfIssuedApi
<1>1. Init => PlansOfIssuedApi
  BY DEF Init, PlansOfIssuedApi, Idle
<1> QED
  BY <1>1, PlansStep, TypeCorrect, PTL DEF Spec

-----------------------------------------------------------------------------
(* The manager's decisions.                                                *)

\* A FIFO store never drops the snapshot it is given.
LEMMA FifoPutKeeps ==
    ASSUME NEW S, NEW x, NEW keep \in Nat \ {0},
           x.id \in Nat, \A s \in S : s.id \in Nat /\ s.id < x.id
    PROVE  x \in FifoPut(S, x, keep)
<1>1. CASE S = {}
  <2>1. Cardinality(S \cup {x}) = 1
    BY <1>1, FS_Singleton
  <2> QED
    BY <2>1 DEF FifoPut
<1>2. CASE S # {}
  <2>1. x \notin Oldest(S \cup {x})
    BY <1>2 DEF Oldest
  <2> QED
    BY <2>1 DEF FifoPut
<1> QED
  BY <1>1, <1>2

\* The manager's decisions and the analyses stay, plans may only disappear.
LEMMA DecisionsFrame ==
    ASSUME PlansMatchDecisions, UNCHANGED <<analyses, selections, edits>>,
           plans' \subseteq plans
    PROVE  PlansMatchDecisions'
BY DEF PlansMatchDecisions, DecisionsFor

\* No plans, nothing to match.
LEMMA NoPlans == ASSUME plans' = {} PROVE PlansMatchDecisions'
BY DEF PlansMatchDecisions

\* A new analysis is the newest, so every stored plan is of an older one.
LEMMA DecisionsCommitStep ==
    ASSUME TypeOK, PlansOfIssuedApi, PlansMatchDecisions,
           NEW r \in Runs, NEW c \in Costs, CommitAnalysis(r, c)
    PROVE  PlansMatchDecisions'
<1> DEFINE new == [id |-> lastAnalysis + 1, mode |-> run[r].mode, src |-> run[r].src,
                   ctx |-> run[r].ctx, pack |-> run[r].pack, cost |-> c,
                   maps |-> run[r].maps]
<1>1. lastAnalysis \in Nat /\ new.id = lastAnalysis + 1
  BY BoundsAssumption DEF TypeOK, IssuedOK
<1>2. \A a \in analyses : a.id \in Nat /\ a.id < new.id
  BY <1>1, BoundsAssumption DEF TypeOK, WorkOK, Analysis, AnalysisIds, PlansOfIssuedApi
<1>3. analyses' = FifoPut(analyses, new, KeepAnalyses) /\ plans' = plans
  BY DEF CommitAnalysis
<1> HIDE DEF new
<1>4. new \in analyses'
  BY <1>1, <1>2, <1>3, FifoPutKeeps, BoundsAssumption
<1>5. ASSUME NEW p \in plans PROVE p.of \notin Newest(analyses')
  <2>1. p.of.id \in Nat /\ p.of.id <= lastAnalysis
    BY DEF TypeOK, WorkOK, Plan, Analysis, AnalysisIds, PlansOfIssuedApi
  <2> QED
    BY <1>1, <1>4, <2>1 DEF Newest
<1> QED
  BY <1>3, <1>5 DEF PlansMatchDecisions

\* Whatever edits, source selections, analyses and shipment checks interleave,
\* a stored plan of the newest analysis carries the manager's decisions of now.
THEOREM PlansAlwaysMatchDecisions == Spec => []PlansMatchDecisions
<1>1. Init => PlansMatchDecisions
  BY DEF Init, PlansMatchDecisions
<1>2. TypeOK /\ PlansOfIssuedApi /\ PlansMatchDecisions /\ [Next]_vars
      => PlansMatchDecisions'
  <2> SUFFICES ASSUME TypeOK, PlansOfIssuedApi, PlansMatchDecisions, [Next]_vars
               PROVE  PlansMatchDecisions'
    OBVIOUS
  <2>1. CASE VaultNext
    BY <2>1, DecisionsFrame, NoPlans
       DEF VaultNext, SetupWrite, SetupInvalidate, SetupFailsEarly, SetupFailsLate,
           Unlock, Revoke, project, work
  <2>2. CASE SyncNext
    BY ZenonT(30), <2>2, DecisionsFrame, NoPlans
       DEF SyncNext, SyncStart, SyncActivate, SyncClear, SyncEnd, project, work
  <2>3. ASSUME NEW r \in Runs, PrepareApi(r) \/ PrepareFiles(r) \/ Load(r) \/ EndRun(r)
        PROVE  PlansMatchDecisions'
    BY <2>3, DecisionsFrame DEF PrepareApi, PrepareFiles, Load, EndRun, project, work
  <2>4. ASSUME NEW q \in Checks, AskOzon(q) \/ EndCheck(q)
        PROVE  PlansMatchDecisions'
    BY <2>4, DecisionsFrame DEF AskOzon, EndCheck, project, work
  <2>5. ASSUME NEW q \in Checks, CommitPlan(q) PROVE PlansMatchDecisions'
    <3> DEFINE new == [id |-> lastPlan + 1, of |-> check[q].of,
                       decisions |-> check[q].decisions]
    <3>1. plans' \subseteq plans \cup {new} /\ DecisionsFor(new.of) = new.decisions
      BY <2>5, FifoPutSubset DEF CommitPlan, CurrentDecisions
    <3>2. UNCHANGED <<analyses, selections, edits>>
      BY <2>5 DEF CommitPlan, project
    <3> HIDE DEF new
    <3> QED
      BY <3>1, <3>2 DEF PlansMatchDecisions, DecisionsFor
  <2>6. CASE DecisionNext
    BY <2>6, NoPlans
       DEF DecisionNext, EditPlan, SelectCalculated, SelectOzon, PlansAfterEdit
  <2>7. CASE ProjectNext
    BY <2>7, NoPlans, DecisionsFrame
       DEF ProjectNext, PutCost, PutMappings, PutPack, DeletePackSave,
           DeletePackClear, work
  <2>8. CASE Restart
    BY <2>8, NoPlans DEF Restart
  <2>9. CASE UNCHANGED vars
    BY <2>9, DecisionsFrame DEF vars, project, work
  <2> QED
    BY <2>1, <2>2, <2>3, <2>4, <2>5, <2>6, <2>7, <2>8, <2>9, DecisionsCommitStep
       DEF Next, RunNext, CheckNext
<1> QED
  BY <1>1, <1>2, TypeCorrect, PlansAlwaysOfIssuedApi, PTL DEF Spec

-----------------------------------------------------------------------------
(* Export.                                                                 *)

\* Provided that state files can be deleted, shipment_export renders nothing
\* but plans of the vault's account, of the newest source and of the current
\* pack data and cost prices, whatever was in flight.
THEOREM ExportAlwaysFaithful ==
    ASSUME ~UnlinkMayFail
    PROVE  Spec => []ExportFaithful
<1>1. AnalysesOnCurrentSource /\ PackDataFresh /\ PlansOfIssuedApi => ExportFaithful
  BY NewestSubset
     DEF AnalysesOnCurrentSource, PackDataFresh, PlansOfIssuedApi, ExportFaithful,
         Exportable, CurrentDecisions, CurrentAnalysis, CostsUnchanged
<1> QED
  BY <1>1, AnalysesAlwaysCurrent, PackDataAlwaysFresh, PlansAlwaysOfIssuedApi, PTL
===============================================================================
