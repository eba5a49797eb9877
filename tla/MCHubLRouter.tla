----------------------------- MODULE MCHubLRouter -----------------------------
(***************************************************************************)
(* From graph to answer: the labels and the router on all graphs of        *)
(* MCHubLabels.                                                            *)
(***************************************************************************)
EXTENDS HubLRouter, MCHubLabels
==============================================================================
