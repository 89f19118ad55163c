----------------------------- MODULE HostLease ------------------------------
(***************************************************************************)
(* What setup and teardown promise to whoever measures on the host: the    *)
(* host is leased to one run at a time; no process of another run is on it *)
(* when the lease is taken, none when it is returned, and its setting is   *)
(* restored but for a write that slipped; nothing is measured without the  *)
(* lease; and the lease of a run that was cut short stays lost until the   *)
(* host is booted again, whatever later runs try.                          *)
(***************************************************************************)
VARIABLES
    lease,          \* "booted" before the first run, then "free", "held" by
                    \* the run in progress, or "lost"
    occupied,       \* processes of a run are on the host
    altered,        \* a setting of the host is not as booted
    slipped,        \* the last write of that setting failed, and nobody knows
    measuring       \* a measurement is going on

hostState == <<occupied, altered, slipped>>
leaseVars == <<lease, occupied, altered, slipped, measuring>>

Clean == ~occupied /\ (altered => slipped)

Init == lease = "booted" /\ ~occupied /\ ~altered /\ ~slipped /\ ~measuring

Begin ==
    /\ lease = "booted"
    /\ lease' = "free"
    /\ UNCHANGED <<hostState, measuring>>

Acquire ==
    /\ lease = "free" /\ Clean
    /\ lease' = "held"
    /\ UNCHANGED <<hostState, measuring>>

(* The holder, or something it started, changes the host. *)
Use ==
    /\ lease = "held"
    /\ occupied' \in BOOLEAN /\ altered' \in BOOLEAN /\ slipped' \in BOOLEAN
    /\ UNCHANGED <<lease, measuring>>

Measure ==
    /\ lease = "held"
    /\ measuring' = ~measuring
    /\ UNCHANGED <<lease, hostState>>

Release ==
    /\ lease = "held" /\ Clean /\ ~measuring
    /\ lease' = "free"
    /\ UNCHANGED <<hostState, measuring>>

Lose ==
    /\ lease = "held" /\ ~measuring
    /\ lease' = "lost"
    /\ UNCHANGED <<hostState, measuring>>

(* The processes of a lost run end by themselves; nothing new is added. *)
Decay ==
    /\ lease = "lost"
    /\ occupied /\ ~occupied'
    /\ UNCHANGED <<lease, altered, slipped, measuring>>

(* The only way back from "lost", and the only way to "booted". *)
Reboot ==
    /\ lease' = "booted"
    /\ ~occupied' /\ ~altered' /\ ~slipped' /\ ~measuring'

Next == Begin \/ Acquire \/ Use \/ Measure \/ Release \/ Lose \/ Decay \/ Reboot

Spec == Init /\ [][Next]_leaseVars
=============================================================================
