--------------------------- MODULE SessionLifecycle ---------------------------
(***************************************************************************)
(* What signing in and out promises: a session is open from the sign-in of *)
(* its user until it is closed, and never opens again.  A sign-out closes  *)
(* one session; a forced logout closes every session of one user.          *)
(* Exchanging refresh tokens is invisible here.                            *)
(***************************************************************************)
CONSTANTS Sessions, Users, Nobody

VARIABLES
    holder,  \* the user of each session
    status   \* "none", "open" or "closed"

vars == <<holder, status>>

Init ==
    /\ holder = [s \in Sessions |-> Nobody]
    /\ status = [s \in Sessions |-> "none"]

SignIn(s, u) ==
    /\ status[s] = "none"
    /\ status' = [status EXCEPT ![s] = "open"]
    /\ holder' = [holder EXCEPT ![s] = u]

SignOut(s) ==
    /\ status[s] = "open"
    /\ status' = [status EXCEPT ![s] = "closed"]
    /\ UNCHANGED holder

SignOutEverywhere(u) ==
    /\ status' = [s \in Sessions |-> IF holder[s] = u /\ status[s] = "open"
                                     THEN "closed" ELSE status[s]]
    /\ UNCHANGED holder

Next ==
    \/ \E s \in Sessions, u \in Users : SignIn(s, u)
    \/ \E s \in Sessions : SignOut(s)
    \/ \E u \in Users : SignOutEverywhere(u)

Spec == Init /\ [][Next]_vars

=============================================================================
