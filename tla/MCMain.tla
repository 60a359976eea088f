------------------------------- MODULE MCMain -------------------------------
(* Up to three processes of each kind and two transactions in each.  One to *)
(* three nodes of up to two processors, one of them without a processor.    *)
EXTENDS Main

\* The default is four workers for the one CPU.
MCWorkerFlags == {-1, 1, 2}
MCThreadFlags == {-1}
MCMachines == {<<{0, 1}>>, <<{1}, {0, 2}>>, <<{0, 2}, {}, {1, 3}>>}
=============================================================================
