----------------------------- MODULE MCSymSync -----------------------------
(***************************************************************************)
(* The mutexes and the events of the nnSdk layer in one finite instance.   *)
(* They share no state, and no property here speaks of both, so that the   *)
(* behaviors in which one of them runs and the other rests stand for their *)
(* interleavings; part is the one that runs.                               *)
(***************************************************************************)
EXTENDS SymMutex, SymEvents

VARIABLE part

(* What was in the memory of the mutexes matters only if they run. *)
SyncInit ==
    /\ part \in {"mutexes", "events"} /\ Init /\ EventsInit
    /\ part = "events" =>
          \A m \in Mutexes :
             ~rec[m] /\ rmutex[m].owner = Junk /\ mutex[m] = Junk

SyncNext ==
    /\ part' = part
    /\ \/ part = "mutexes" /\ Next /\ UNCHANGED eventVars
       \/ part = "events" /\ EventsNext /\ UNCHANGED vars

SyncSpec ==
    /\ SyncInit /\ [][SyncNext]_<<part, vars, eventVars>>
    /\ \A t \in Threads : SF_vars(LockReturns(t))
=============================================================================
