----------------------------- MODULE MCTxPipeline -----------------------------
(* Small instances of the transmit pipeline for TLC.                       *)
EXTENDS TxPipelineProps

CONSTANTS k1, app, beacon

OneCall   == {k1}
OneBeacon == {beacon}

Mail(n)  == [kind |-> "DIRECTED", group |-> FALSE, verb |-> "MSG", to |-> k1,
             frames |-> n, by |-> app]
Beat     == [kind |-> "HEARTBEAT", group |-> TRUE, verb |-> "other",
             to |-> NoCall, frames |-> 1, by |-> beacon]

MailAndBeat == {Mail(2), Beat}

(* Crash, raising tick and clock step are each tried at every point of a   *)
(* run, one to a run.                                                      *)
AtMostOneFault == crashes + errors + clockSteps <= 1
===============================================================================
