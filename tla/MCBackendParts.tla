---------------------------- MODULE MCBackendParts ----------------------------
(***************************************************************************)
(* For TLC: the parts of the backend side that are modelled on their own,  *)
(* in one state space.  A behaviour is one of the server, of the processes *)
(* around the PID file, of the tool runner, or of the output buffer,       *)
(* chosen in the initial state; the others stand still.                    *)
(***************************************************************************)
EXTENDS Server, PidFile, ToolRunner, OutputBuffer

VARIABLE part

partsVars == <<part, serverVars, pidVars, toolVars, outputVars>>

PartsInit ==
  /\ part \in {"server", "pid", "tool", "output"}
  /\ ServerInit /\ PidInit /\ ToolInit /\ OutputInit

PartsNext ==
  \/ /\ part = "server" /\ ServerNext
     /\ UNCHANGED <<part, pidVars, toolVars, outputVars>>
  \/ /\ part = "pid" /\ PidNext
     /\ UNCHANGED <<part, serverVars, toolVars, outputVars>>
  \/ /\ part = "tool" /\ ToolNext
     /\ UNCHANGED <<part, serverVars, pidVars, outputVars>>
  \/ /\ part = "output" /\ OutputNext
     /\ UNCHANGED <<part, serverVars, pidVars, toolVars>>

\* The fairness of the part in question; launchers leave sometime.
PartsSpec ==
  /\ PartsInit
  /\ [][PartsNext]_partsVars
  /\ part = "server" => ServerFairness /\ PoliteLaunchers
  /\ part = "tool" => ToolFairness

-----------------------------------------------------------------------------
(* The words of the output buffer, one byte each: b names a compiler, a    *)
(* closing bracket a linter, an opening bracket a test run; an opening     *)
(* bracket at the beginning of a line is an error and a backslash there is *)
(* an ok.                                                                  *)

CompileWord == <<98>>
LintWord == <<93>>
TestWord == <<91>>
FailureWord == <<91>>
SuccessWord == <<92>>

=============================================================================
