-------------------------- MODULE MCAutomationManager --------------------------
(* Small instances of the automation manager.                              *)
EXTENDS AutomationManager

CONSTANTS a1, a2, c1, h1

Records == 1 .. MaxRuns
=============================================================================
