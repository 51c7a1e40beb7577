------------------------------ MODULE Optimizer ------------------------------
(***************************************************************************)
(* OptimizerService.run_optimizer (app/services/optimizer_service.py), in  *)
(* the sessions of PortfolioRow: it recalculates the portfolio, reads the  *)
(* candles of its symbols, and stores the weights and the target notionals *)
(* it gets from the equity it holds, which may have moved since.           *)
(*                                                                         *)
(* A symbol's score is its signal strength * correlation penalty /         *)
(* volatility, a scaled integer here.  Weights are in 1/10000 and amounts  *)
(* of money in 1/100, the places the code rounds them to; a tie is rounded *)
(* up.                                                                     *)
(***************************************************************************)
EXTENDS PortfolioRow, FiniteSets, Functions

CONSTANTS
  Symbols,          \* the symbols of the request, or symbol_allowlist
  Histories,        \* the symbols that may have candles in common
  Scores,           \* the scores considered
  MaxWeight,        \* settings.optimizer_max_weight, in percent
  DeployedPct       \* settings.max_position_notional_pct, in percent

ASSUME OptimizerAssumption ==
  /\ IsFiniteSet(Symbols)
  /\ Histories \subseteq SUBSET Symbols
  /\ Scores \subseteq Int
  /\ MaxWeight \in 1 .. 100 /\ DeployedPct \in 0 .. 100

VARIABLE run        \* the row of optimizer_runs the last step added, or none

optimizerVars == <<vars, run>>

-----------------------------------------------------------------------------
Nearest(a, b) == (2 * a + b) \div (2 * b)        \* round(a / b)

Positive(scores) ==
  LET kept == {s \in DOMAIN scores : scores[s] > 0}
  IN [s \in kept |-> scores[s]]

EqualWeights == [s \in Symbols |-> Nearest(10000, Cardinality(Symbols))]

\* Mutant: the weights are divided first and cut to the maximum after.
RiskWeightsCutLast(scores) ==
  LET total == SumFunction(scores) IN
  [s \in DOMAIN scores |->
     IF 100 * scores[s] < MaxWeight * total
     THEN Nearest(10000 * scores[s], total) ELSE 100 * MaxWeight]

\* Each share of the total is cut to the maximum, then divided by their sum.
RiskWeights(scores) ==
  LET total == SumFunction(scores)
      most == MaxWeight * total
      cut == [s \in DOMAIN scores |->
                IF 100 * scores[s] < most THEN 100 * scores[s] ELSE most]
  IN [s \in DOMAIN scores |-> Nearest(10000 * cut[s], SumFunction(cut))]

\* scores: those of the symbols whose candles have instants in common.
Weights(scores) ==
  IF DOMAIN scores = {} THEN EqualWeights ELSE RiskWeights(Positive(scores))

\* Mutant: the whole equity is deployed.
DeployableWhole(worth) == AtLeast(0, worth * 100)

Deployable(worth) == AtLeast(0, worth * DeployedPct)

Targets(weights, worth) ==
  [s \in DOMAIN weights |-> Nearest(weights[s] * Deployable(worth), 10000)]

Allocation(scores, worth) ==
  [scores |-> scores, weights |-> Weights(scores),
   targets |-> Targets(Weights(scores), worth)]

\* The run of a session that has recalculated the row and still holds it, and
\* that ends with it (routes_optimizer.py, tasks.run_optimizer).
RunOptimizer(s) ==
  /\ session[s].pc = "holding"
  /\ \E known \in Histories : \E scores \in [known -> Scores] :
       run' = Allocation(scores, session[s].held.equity)
  /\ session' = [session EXCEPT ![s] = Idle]
  /\ UNCHANGED <<cash, units, traded, row, best, gap>>

NoRun == [scores |-> <<>>, weights |-> <<>>, targets |-> <<>>]

OptimizerInit == Init /\ run = NoRun

OptimizerNext ==
  \/ Next /\ run' = NoRun
  \/ \E s \in Sessions : RunOptimizer(s)

OptimizerSpec == OptimizerInit /\ [][OptimizerNext]_optimizerVars

-----------------------------------------------------------------------------
\* The weights are a whole allocation in the order of the scores: they add up
\* to one but for the rounding of each, a better score has no smaller weight,
\* and cutting at the maximum never gives a symbol more than the best score
\* would have had uncut (optimizer_service.py:56-63).
AllocationIsWhole ==
  LET positive == Positive(run.scores)
      weights == run.weights
      error == 2 * (SumFunction(weights) - 10000)
      count == Cardinality(DOMAIN weights)
  IN /\ DOMAIN weights # {} => error \in -count .. count
     /\ \A s, t \in DOMAIN positive :
          positive[s] <= positive[t] => weights[s] <= weights[t]
     /\ \A s \in DOMAIN positive : \E t \in DOMAIN positive :
          weights[s] <= Nearest(10000 * positive[t], SumFunction(positive))

\* The targets of a run add up to no more than the deployable part of the most
\* the account was ever worth, and of the error of one reading of it, but for
\* the rounding of each weight and of each target, however stale the equity they
\* were worked out from (optimizer_service.py:63, 72-73).
TargetsWithinBudget ==
  LET budget == AtLeast(0, Ceiling * DeployedPct)
      count == Cardinality(DOMAIN run.targets)
  IN 20000 * SumFunction(run.targets) <= (20000 + count) * budget + 10000 * count

=============================================================================
