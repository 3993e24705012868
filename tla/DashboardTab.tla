---------------------------- MODULE DashboardTab ----------------------------
(* What the pages of the merchant dashboard share: the merchant the tab      *)
(* works on, kept in localStorage, and requests that may fail.               *)
EXTENDS InFlight

CONSTANTS
  Merchants,
  None,
  MaxFaults    \* bound: requests that fail, answers lost, sessions that expire

VARIABLES
  merchantId,
  faults
=============================================================================
