------------------------------ MODULE MCServices -----------------------------
(***************************************************************************)
(* Instances of components that share no state: what the inventory          *)
(* promises, IPC, the presentation of one window and the answer to a        *)
(* session lock.  A behaviour chooses its subject at the start and is a     *)
(* behaviour of that component; the others stay as they began, with nothing *)
(* their fairness would have to do.                                         *)
(***************************************************************************)
EXTENDS WorkspaceLifecycle, Ipc, Presentation, TLC

CONSTANTS Subjects,   \* \subseteq {"inventory", "ipc", "presentation", "lock"}
          Seats, LockDepths, LockAnimated, MaxLockChanges   \* the constants of SessionLock

VARIABLES subject, phase, secured, remembered, focus, surfaces, covers, entry, power, wants,
          flight, screen, depth, lockChanges

L == INSTANCE SessionLock WITH Outputs <- Seats, Depths <- LockDepths,
       Animated <- LockAnimated, MaxChanges <- MaxLockChanges, mapped <- covers,
       changes <- lockChanges

lockVars == <<phase, secured, remembered, focus, surfaces, covers, entry, power, wants, flight,
              screen, depth, lockChanges>>
serviceVars == <<subject, vars, ipcVars, presentationVars, lockVars>>

\* What distinguishes two states; the rest is as it was at the start.
Distinct == CASE subject = "inventory" -> <<subject, vars>>
              [] subject = "ipc" -> <<subject, ipcVars>>
              [] subject = "presentation" -> <<subject, presentationVars>>
              [] subject = "lock" -> <<subject, lockVars>>

\* Sound with the temporal properties below: only the inventory knows workspaces, and a
\* behaviour that is about it has no step of the others.
Interchangeable == Permutations(Ids)

ServicesInit == subject \in Subjects /\ Init /\ IpcInit /\ PresentationInit /\ L!Init

InventoryStep == /\ subject = "inventory" /\ Next
                 /\ UNCHANGED <<subject, ipcVars, presentationVars, lockVars>>
IpcStep == /\ subject = "ipc" /\ IpcNext
           /\ UNCHANGED <<subject, vars, presentationVars, lockVars>>
PresentationStep == /\ subject = "presentation" /\ PresentationNext
                    /\ UNCHANGED <<subject, vars, ipcVars, lockVars>>
LockStep == /\ subject = "lock" /\ L!Next
            /\ UNCHANGED <<subject, vars, ipcVars, presentationVars>>

ServicesNext == InventoryStep \/ IpcStep \/ PresentationStep \/ LockStep
ServicesSpec ==
  ServicesInit /\ [][ServicesNext]_serviceVars /\ IpcFairness /\ L!Fairness

\* A request to lock the session is answered: confirmed, or the lock is gone.
LockAnswered == L!LockAnswered

=============================================================================
