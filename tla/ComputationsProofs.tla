-------------------------- MODULE ComputationsProofs --------------------------
(***************************************************************************)
(* What the runs check of the computations side by side, for every instance*)
(* of them.                                                                *)
(***************************************************************************)
EXTENDS MCComputations, EvidenceProofs, EconomicsProofs, WorkingPlanProofs

-----------------------------------------------------------------------------
(* The computations side by side.  Each one that does not move rests, so a *)
(* behaviour of all of them is a behaviour of each.                        *)

mcVars == <<part, syncVars, econVars, financeVars, workVars, optionVars, stockVars, demandVars,
            priceVars, evidenceVars>>

LEMMA PartsRun ==
    MCSpec => /\ SyncSpec /\ EconSpec /\ FinanceSpec /\ WorkSpec /\ OptionSpec /\ StockSpec
              /\ DemandSpec /\ PriceSpec /\ ReconcileSpec
<1>1. MCInit => /\ SyncInit /\ EconInit /\ FinanceInit /\ WorkInit /\ OptionInit /\ StockInit
                /\ DemandInit /\ PriceInit /\ ReconcileInit
  BY DEF MCInit, EconStart, FinanceRests, WorkRests, OptionRests, StockRests, PriceRests, ReconcileRests
<1>2. [MCNext]_mcVars =>
          /\ [SyncNext]_syncVars /\ [EconNext]_econVars /\ [FinanceStep]_financeVars
          /\ [WorkStep]_workVars /\ [OptionStep]_optionVars /\ [AnalyseNextDay]_stockVars
          /\ [DemandStep]_demandVars /\ [PriceStep]_priceVars /\ [ReconcileStep]_evidenceVars
  BY DEF MCNext, mcVars
<1>3. MCSpec => MCInit /\ [][MCNext]_mcVars
  BY DEF MCSpec, mcVars
<1>4. MCSpec => SyncSpec /\ EconSpec /\ FinanceSpec
  BY <1>1, <1>2, <1>3, PTL DEF SyncSpec, EconSpec, FinanceSpec
<1>5. MCSpec => WorkSpec /\ OptionSpec /\ StockSpec
  BY <1>1, <1>2, <1>3, PTL DEF WorkSpec, OptionSpec, StockSpec
<1>6. MCSpec => DemandSpec /\ PriceSpec /\ ReconcileSpec
  BY <1>1, <1>2, <1>3, PTL DEF DemandSpec, PriceSpec, ReconcileSpec
<1> QED
  BY <1>4, <1>5, <1>6

(* The computations keep their types when they are side by side: the       *)
(* formula the runs check on small instances.                              *)
THEOREM ComputationsTypesCorrect == MCSpec => []ComputationsTypeOK
<1>1. MCSpec => /\ []SyncTypeOK /\ []EconTypeOK /\ []FinanceTypeOK /\ []WorkTypeOK /\ []OptionTypeOK
                /\ []StockTypeOK /\ []DemandTypeOK /\ []PriceTypeOK /\ []ReconcileTypeOK
  BY PartsRun, SyncTypesCorrect, EconTypesCorrect, FinanceTypeCorrect, WorkTypeCorrect,
     OptionTypesCorrect, StockTypesCorrect, DemandTypeCorrect, PriceTypeCorrect, EvidenceTypesCorrect
<1>2. SyncTypeOK /\ EconTypeOK /\ FinanceTypeOK /\ WorkTypeOK /\ OptionTypeOK
          /\ StockTypeOK /\ DemandTypeOK /\ PriceTypeOK /\ ReconcileTypeOK => ComputationsTypeOK
  BY DEF ComputationsTypeOK
<1> QED
  BY <1>1, <1>2, PTL

(* What the runs check of each computation holds of it beside the others.  *)
THEOREM ComputationsSound ==
    MCSpec => /\ []HistoryExact /\ []EvidenceHonest /\ []StoresOfCabinet /\ []ReportBalances
              /\ []AllocationOptimal /\ []PlanShippable /\ []SelectionFair /\ []OptionsSound
              /\ []RateMonotone /\ []TargetIsLeast /\ []OrderIndependent
              /\ ReportsConsistent /\ HistoryStable
<1> QED
  BY PartsRun, HistoryIsExact, EvidenceIsHonest, StoresKeptOfCabinet, ReportAlwaysBalances,
     PlanStaysOptimal, SelectionIsFair, OptionsAreSound, RateIsMonotone, TargetIsTheLeast,
     EvidenceOrderIndependent, ReportsAreConsistent, HistoryIsStable

=============================================================================
