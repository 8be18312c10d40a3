--------------------------- MODULE MCLauncherParts ---------------------------
(***************************************************************************)
(* For TLC: the parts of the launcher side that do not interact with each  *)
(* other, in one state space.  A behaviour is one of the idle detector     *)
(* under its harness, of a PtyProcess, of the stdin filter, or of the      *)
(* capture tool, chosen in the initial state; the others stand still.      *)
(***************************************************************************)
EXTENDS IdleHarness, PtyProcess, CsiFilter, Capture

VARIABLE part

partsVars == <<part, harnessVars, ptyVars, filterVars, captureVars>>

PartsInit ==
  /\ part \in {"idle", "pty", "filter", "capture"}
  /\ HarnessInit /\ PtyInit /\ FilterInit /\ CaptureInit

PartsNext ==
  \/ /\ part = "idle" /\ HarnessNext
     /\ UNCHANGED <<part, ptyVars, filterVars, captureVars>>
  \/ /\ part = "pty" /\ PtyNext
     /\ UNCHANGED <<part, harnessVars, filterVars, captureVars>>
  \/ /\ part = "filter" /\ FilterNext
     /\ UNCHANGED <<part, harnessVars, ptyVars, captureVars>>
  \/ /\ part = "capture" /\ CaptureNext
     /\ UNCHANGED <<part, harnessVars, ptyVars, filterVars>>

\* The fairness of the part in question.
PartsSpec ==
  /\ PartsInit
  /\ [][PartsNext]_partsVars
  /\ part = "pty" => PtyFairness
  /\ part = "capture" => CaptureFairness

\* The type invariants of the parts.
PartsTypeOK == HarnessTypeOK /\ PtyTypeOK /\ FilterTypeOK /\ CaptureTypeOK

=============================================================================
