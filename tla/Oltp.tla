-------------------------------- MODULE Oltp --------------------------------
(***************************************************************************)
(* A benchmark process of the OLTP benchmark: runBench with the policy     *)
(* injectOLTP (main.go), which paces the injection with a ticker so that   *)
(* TPS transactions enter the input channel each second.                   *)
(***************************************************************************)
EXTENDS Runner

CONSTANT TPS   \* the -tps flag
ASSUME TPSAssumption == TPS \in Nat

VARIABLES tick,     \* the ticker's channel holds a tick (its buffer has one slot)
          iPeriod   \* index of the current period in the second

oltpVars == <<tick, iPeriod>>
vars == <<runnerVars, oltpVars>>

\* Milliseconds between two bursts, for a throughput of tps.
Period(tps) == CASE tps < 10                 -> 1000
                 [] tps >= 10  /\ tps < 100  -> 100
                 [] tps >= 100 /\ tps < 500  -> 50
                 [] tps >= 500 /\ tps < 1000 -> 20
                 [] tps >= 1000              -> 10

NbPeriods(tps) == 1000 \div Period(tps)
NbTrans(tps) == tps \div NbPeriods(tps)

\* The remainder of the division, added to the first period of each second; less
\* than zero, it would be none.
NbTransFirst(tps) ==
  LET rest == tps - NbTrans(tps) * NbPeriods(tps) IN IF rest < 0 THEN 0 ELSE rest

\* Mutant: the correction is added to every period.
BurstSizeCorrected == NbTrans(TPS) + NbTransFirst(TPS)

BurstSize == NbTrans(TPS) + (IF iPeriod = 0 THEN NbTransFirst(TPS) ELSE 0)

OltpTypeOK ==
  /\ TypeOK
  /\ tick \in BOOLEAN
  /\ iPeriod \in 0..NbPeriods(TPS) - 1

OltpInit == RunnerInit /\ tick = FALSE /\ iPeriod = 0

\* A period elapses.  A tick is dropped when the previous one was not received.
Tick ==
  /\ pc \in {"inject", "burst"}
  /\ tick' = TRUE
  /\ UNCHANGED <<runnerVars, iPeriod>>

\* case <-ticker.  The first conjunct bounds the model, not the code.
ReceiveTick ==
  /\ injected + BurstSize <= MaxSteps
  /\ tick
  /\ StartBurst(BurstSize)
  /\ tick' = FALSE
  /\ UNCHANGED iPeriod

\* The loop ends; iPeriod++, modulo the number of periods.
EndPeriod ==
  /\ EndBurst
  /\ iPeriod' = IF iPeriod + 1 = NbPeriods(TPS) THEN 0 ELSE iPeriod + 1
  /\ UNCHANGED tick

OltpNext ==
  \/ Common /\ UNCHANGED oltpVars
  \/ Tick \/ ReceiveTick \/ EndPeriod
  \/ Terminated /\ UNCHANGED oltpVars

\* With a tick and a stop both ready, select chooses one at random: a stop that
\* waits is received after finitely many turns, however slow the injector is.
OltpFairness ==
  /\ WF_vars((Driver /\ UNCHANGED oltpVars) \/ ReceiveTick \/ EndPeriod)
  /\ SF_vars(ReceiveStop /\ UNCHANGED oltpVars)
  /\ \A w \in Workers : WF_vars(Worker(w) /\ UNCHANGED oltpVars)
  /\ WF_vars(Fire /\ UNCHANGED oltpVars)

OltpSpec == OltpInit /\ [][OltpNext]_vars
FairOltpSpec == OltpSpec /\ OltpFairness

-----------------------------------------------------------------------------
\* What has been injected since the current second of pacing began.
InjectedThisSecond ==
  IF iPeriod = 0 THEN 0 ELSE NbTransFirst(TPS) + iPeriod * NbTrans(TPS)

\* Between two bursts the transactions injected are exactly those of the
\* periods elapsed: each round of NbPeriods bursts injects TPS transactions,
\* the rounding error included once, whatever ticks were dropped and however
\* often the injector was blocked by a full channel.
PaceKept ==
  pc = "inject" /\ TPS > 0 => injected % TPS = InjectedThisSecond

\* The correction of the rounding error stays below one transaction per period.
PeriodsCoverThroughput ==
  \A tps \in Nat :
    /\ NbTransFirst(tps) \in 0..NbPeriods(tps) - 1
    /\ NbTransFirst(tps) + NbPeriods(tps) * NbTrans(tps) = tps
    /\ NbPeriods(tps) > 1 => NbTrans(tps) > 0
    /\ Period(tps) * NbPeriods(tps) = 1000
=============================================================================
