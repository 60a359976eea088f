----------------------------- MODULE Saturation -----------------------------
(***************************************************************************)
(* A benchmark process of the standard benchmark: runBench with the policy *)
(* injectSaturation (main.go), which keeps the input channel full and      *)
(* looks at the stop channel only between two bursts.                      *)
(***************************************************************************)
EXTENDS Runner

CONSTANT Burst   \* transactions per worker and burst (16 in the code)
ASSUME BurstAssumption == Burst \in Nat \ {0}

\* Mutant: the stop channel is looked at, but a burst may be preferred to it.
DefaultAnytime ==
  /\ injected + NW * Burst <= MaxSteps
  /\ StartBurst(NW * Burst)

\* default: a burst, entered only when no sender waits on the stop channel.
\* The first conjunct bounds the model, not the code.
Default ==
  /\ injected + NW * Burst <= MaxSteps
  /\ timer # "firing"
  /\ StartBurst(NW * Burst)

SaturationInit == RunnerInit

SaturationNext == Common \/ Default \/ EndBurst \/ Terminated

\* The driver, the workers and the timer are goroutines the Go runtime runs
\* whenever they can take a step.
SaturationFairness ==
  /\ WF_runnerVars(Driver \/ Default \/ EndBurst)
  /\ \A w \in Workers : WF_runnerVars(Worker(w))
  /\ WF_runnerVars(Fire)

SaturationSpec == SaturationInit /\ [][SaturationNext]_runnerVars
FairSaturationSpec == SaturationSpec /\ SaturationFairness

-----------------------------------------------------------------------------
\* The price of not checking the stop channel for each transaction: once the
\* timer has fired, at most the rest of one burst is still injected.
OvershootBounded == late <= NW * Burst
=============================================================================
