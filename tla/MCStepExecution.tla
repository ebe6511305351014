--------------------------- MODULE MCStepExecution ---------------------------
(* Plans of two steps: what one step leaves behind meets the next.          *)
EXTENDS StepExecution
=============================================================================
