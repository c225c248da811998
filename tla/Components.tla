----------------------------- MODULE Components -----------------------------
(***************************************************************************)
(* The parts of the traders that share no state, side by side: a behaviour *)
(* is a behaviour of one of them, so that one run explores each on its     *)
(* own.  In the code they are objects with fields of their own that only   *)
(* exchange values; those values are inputs of each part's actions.        *)
(***************************************************************************)
EXTENDS VenueFanout, JupiterSource, PoolSources, PollingBot, RiskRules, LatencyRecords,
        AtomicSwap, ChainExecutor, OnchainMarket, SmartAlerts, LiveDashboard, PairDiscovery, OperatorViews

CONSTANT Parts  \* the parts a run explores

VARIABLE part

partVars == <<fanVars, jupVars, poolVars, scanVars, botVars, riskVars, latVars, swVars,
              foVars, ceVars, omVars, smVars, ldVars, dsVars, vwVars>>

componentVars == <<part, partVars>>

Init ==
    /\ part \in Parts
    /\ FanInit /\ JupInit /\ PoolInit /\ ScanInit /\ RiskInit /\ LatInit
    /\ SwInit /\ FoInit /\ CeInit /\ OmInit /\ SmInit
    /\ (part # "onchain" => omDex = CHOOSE markets \in Markets : TRUE)
    /\ LdInit /\ (part # "dashboard" => ldBest = CHOOSE o \in Spreads : TRUE)
    /\ DsInit /\ (part # "pairs" => dsKind = "evm")
    /\ VwInit
    /\ BotInit /\ (part # "bot" => botWiring = [live |-> FALSE, dry |-> TRUE])

Only(p) == part = p /\ UNCHANGED part

Fanout == /\ Only("fanout") /\ FanNext
          /\ UNCHANGED <<jupVars, poolVars, scanVars, botVars, riskVars, latVars, swVars, foVars, ceVars, omVars, smVars, ldVars, dsVars, vwVars>>
Jupiter == /\ Only("jupiter") /\ JupNext
           /\ UNCHANGED <<fanVars, poolVars, scanVars, botVars, riskVars, latVars, swVars, foVars, ceVars, omVars, smVars, ldVars, dsVars, vwVars>>
Pools == /\ Only("pools") /\ PoolNext
         /\ UNCHANGED <<fanVars, jupVars, scanVars, botVars, riskVars, latVars, swVars, foVars, ceVars, omVars, smVars, ldVars, dsVars, vwVars>>
Pricing == /\ Only("pricing") /\ PriceNext
           /\ UNCHANGED <<fanVars, jupVars, scanVars, botVars, riskVars, latVars, swVars, foVars, ceVars, omVars, smVars, ldVars, dsVars, vwVars>>
Scanner == /\ Only("scanner") /\ ScanNext
           /\ UNCHANGED <<fanVars, jupVars, poolVars, botVars, riskVars, latVars, swVars, foVars, ceVars, omVars, smVars, ldVars, dsVars, vwVars>>
Bot == /\ Only("bot") /\ BotNext
       /\ UNCHANGED <<scanQuotes, scanStage, found, pendingRecords, records, hits>>
       /\ UNCHANGED <<fanVars, jupVars, poolVars, riskVars, latVars, swVars, foVars, ceVars, omVars, smVars, ldVars, dsVars, vwVars>>
Risk == /\ Only("risk") /\ RiskNext
        /\ UNCHANGED <<fanVars, jupVars, poolVars, scanVars, botVars, latVars, swVars, foVars, ceVars, omVars, smVars, ldVars, dsVars, vwVars>>
Latency == /\ Only("latency") /\ LatNext
           /\ UNCHANGED <<fanVars, jupVars, poolVars, scanVars, botVars, riskVars, swVars, foVars, ceVars, omVars, smVars, ldVars, dsVars, vwVars>>
Swap == /\ Only("swap") /\ SwNext
        /\ UNCHANGED <<fanVars, jupVars, poolVars, scanVars, botVars, riskVars, latVars, foVars, ceVars, omVars, smVars, ldVars, dsVars, vwVars>>
Chain == /\ Only("chain") /\ CeNext
         /\ UNCHANGED <<fanVars, jupVars, poolVars, scanVars, botVars, riskVars, latVars, swVars, omVars, smVars, ldVars, dsVars, vwVars>>
Onchain == /\ Only("onchain") /\ OmNext
           /\ UNCHANGED <<fanVars, jupVars, poolVars, scanVars, botVars, riskVars, latVars, swVars, foVars, ceVars, smVars, ldVars, dsVars, vwVars>>
Reports == /\ Only("reports") /\ SmNext
           /\ UNCHANGED <<fanVars, jupVars, poolVars, scanVars, botVars, riskVars, latVars, swVars, foVars, ceVars, omVars, ldVars, dsVars, vwVars>>
Dashboard == /\ Only("dashboard") /\ LdNext
             /\ UNCHANGED <<fanVars, jupVars, poolVars, scanVars, botVars, riskVars, latVars, swVars, foVars, ceVars, omVars, smVars, dsVars, vwVars>>
Pairing == /\ Only("pairs") /\ DsNext
           /\ UNCHANGED <<fanVars, jupVars, poolVars, scanVars, botVars, riskVars, latVars, swVars, foVars, ceVars, omVars, smVars, ldVars, vwVars>>

Views == /\ Only("views") /\ VwNext
         /\ UNCHANGED <<fanVars, jupVars, poolVars, scanVars, botVars, riskVars, latVars, swVars, foVars, ceVars, omVars, smVars, ldVars, dsVars>>

Next ==
    \/ Fanout \/ Jupiter \/ Pools \/ Pricing \/ Scanner \/ Bot \/ Risk \/ Latency
    \/ Swap \/ Chain \/ Onchain \/ Reports \/ Dashboard \/ Pairing \/ Views

Spec == Init /\ [][Next]_componentVars
=============================================================================
