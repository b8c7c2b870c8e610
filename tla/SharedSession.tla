---------------------------- MODULE SharedSession ----------------------------
(***************************************************************************)
(* What the service guard of libnx-ext promises to the users of a service: *)
(* a session that is open exactly while somebody holds it, taken and given *)
(* back in one step.  A user is one pair of Initialize and Exit calls; a   *)
(* program that initializes a service twice is two users.                  *)
(***************************************************************************)
CONSTANT Users

VARIABLES
    holders,    \* users whose Initialize succeeded and who have not exited
    users,      \* holders that are in the middle of a command
    open        \* whether the session is open

vars == <<holders, users, open>>

Init ==
    /\ holders = {}
    /\ users = {}
    /\ open = FALSE

(* Initialize succeeds. *)
Acquire(u) ==
    /\ u \notin holders
    /\ holders' = holders \cup {u}
    /\ open' = TRUE
    /\ UNCHANGED users

(* Exit: the last one closes the session.  Nobody else is disturbed. *)
Release(u) ==
    /\ u \in holders \ users
    /\ holders' = holders \ {u}
    /\ open' = (holders # {u})
    /\ UNCHANGED users

(* A command is only ever sent on an open session. *)
BeginUse(u) ==
    /\ u \in holders \ users
    /\ open
    /\ users' = users \cup {u}
    /\ UNCHANGED <<holders, open>>

EndUse(u) ==
    /\ u \in users
    /\ open
    /\ users' = users \ {u}
    /\ UNCHANGED <<holders, open>>

Next == \E u \in Users : Acquire(u) \/ Release(u) \/ BeginUse(u) \/ EndUse(u)

Spec == Init /\ [][Next]_vars
=============================================================================
