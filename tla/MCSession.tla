------------------------------ MODULE MCSession ------------------------------
(***************************************************************************)
(* Instances of two components that share no state: the session lock and    *)
(* input capture.  A behaviour chooses its subject at the start and is a    *)
(* behaviour of that component; the other stays as it began.                *)
(***************************************************************************)
EXTENDS SessionLock, InputCapture

CONSTANT Subjects   \* \subseteq {"lock", "capture"}

VARIABLE subject

sessionVars == <<subject, vars, captureVars>>

\* What distinguishes two states; the rest is as it was at the start.
Distinct == IF subject = "lock" THEN <<subject, vars>> ELSE <<subject, captureVars>>

Interchangeable == Permutations(Outputs)

SessionInit == subject \in Subjects /\ Init /\ CaptureInit

LockStep    == subject = "lock" /\ Next /\ UNCHANGED <<subject, captureVars>>
CaptureStep == subject = "capture" /\ CaptureNext /\ UNCHANGED <<subject, vars>>

SessionNext == LockStep \/ CaptureStep
SessionSpec == SessionInit /\ [][SessionNext]_sessionVars

=============================================================================
