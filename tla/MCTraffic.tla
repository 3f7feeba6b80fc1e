----------------------------- MODULE MCTraffic -----------------------------
(* Two models, a window of two periods, two requests in a period for a       *)
(* threshold of two, so that both can be hot at once and a model hot again   *)
(* as soon as it may be signalled again; a request channel of two, which     *)
(* fills, and a signal channel with one place for each model.                *)
EXTENDS Traffic, TLC

CONSTANTS a, b
=============================================================================
