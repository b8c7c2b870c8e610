------------------------------- MODULE NnMutex -------------------------------
(***************************************************************************)
(* What nn::os::MutexType promises to the modules that use it: one owner,  *)
(* which may take a recursive mutex again and has to give it back as often *)
(* as it took it.                                                          *)
(***************************************************************************)
EXTENDS Integers

CONSTANTS
    Threads,
    Mutexes,
    NoThread  \* the owner of a mutex that is free, none of Threads

VARIABLE lock  \* lock[m]: whether it is live, its kind, owner and depth

Unmade == [live |-> FALSE, rec |-> FALSE, owner |-> NoThread, depth |-> 0]
Fresh(rec) == [live |-> TRUE, rec |-> rec, owner |-> NoThread, depth |-> 0]

(* A live mutex with another owner and depth. *)
OwnedBy(m, owner, depth) ==
    [live |-> TRUE, rec |-> lock[m].rec, owner |-> owner, depth |-> depth]

Init == lock = [m \in Mutexes |-> Unmade]

Make(m, rec) ==
    /\ ~lock[m].live
    /\ lock' = [lock EXCEPT ![m] = Fresh(rec)]

Acquire(t, m) ==
    /\ lock[m].live
    /\ \/ lock[m].owner = NoThread
       \/ lock[m].rec /\ lock[m].owner = t
    /\ lock' = [lock EXCEPT ![m] = OwnedBy(m, t, lock[m].depth + 1)]

Release(t, m) ==
    /\ lock[m].live /\ lock[m].owner = t
    /\ LET left == IF lock[m].depth = 1 THEN NoThread ELSE t
       IN  lock' = [lock EXCEPT ![m] = OwnedBy(m, left, lock[m].depth - 1)]

Drop(m) ==
    /\ lock[m].live /\ lock[m].owner = NoThread
    /\ lock' = [lock EXCEPT ![m] = Unmade]

Next ==
    \E m \in Mutexes :
        \/ \E rec \in BOOLEAN : Make(m, rec)
        \/ \E t \in Threads : Acquire(t, m) \/ Release(t, m)
        \/ Drop(m)

Spec == Init /\ [][Next]_lock
=============================================================================
