----------------------------- MODULE HkyService -----------------------------
(***************************************************************************)
(* What a reload promises the clients of a server, without descriptors,    *)
(* listener tables or retries.  The server promises to listen on the       *)
(* addresses of its configuration.  A reload listens on what the new one   *)
(* adds before it drops anything of the old one; from the first drop on it *)
(* can only succeed; and if it gives up, exactly the old addresses remain. *)
(* HkyCycle implements this module.                                        *)
(***************************************************************************)
CONSTANT Addrs

VARIABLES
    phase,     \* "steady", "opening", "dropping" or "exited"
    conf,      \* the addresses of the configuration in force
    wanted,    \* those of the configuration being loaded
    listened   \* the addresses a client can connect to

vars == <<phase, conf, wanted, listened>>

Init ==
    /\ phase = "steady"
    /\ conf \in SUBSET Addrs /\ wanted = conf /\ listened = conf

Begin ==
    /\ phase = "steady" /\ phase' = "opening"
    /\ wanted' \in SUBSET Addrs
    /\ UNCHANGED <<conf, listened>>

Listen(a) ==
    /\ phase = "opening" /\ a \in wanted \ listened
    /\ listened' = listened \cup {a}
    /\ UNCHANGED <<phase, conf, wanted>>

\* A process that could not load its first configuration is of no use.
GiveUp ==
    /\ phase = "opening" /\ phase' \in {"steady", "exited"}
    /\ listened' = conf /\ wanted' = conf
    /\ UNCHANGED conf

AllOpen ==
    /\ phase = "opening" /\ phase' = "dropping"
    /\ wanted \subseteq listened
    /\ UNCHANGED <<conf, wanted, listened>>

Drop(a) ==
    /\ phase = "dropping" /\ a \in listened \ wanted
    /\ listened' = listened \ {a}
    /\ UNCHANGED <<phase, conf, wanted>>

Switch ==
    /\ phase = "dropping" /\ phase' = "steady"
    /\ listened = wanted /\ conf' = wanted
    /\ UNCHANGED <<wanted, listened>>

\* exit(1) of a module or of a failed allocation ends the process.
Exit ==
    /\ phase # "exited" /\ phase' = "exited"
    /\ UNCHANGED <<conf, wanted, listened>>

Next ==
    \/ Begin \/ GiveUp \/ AllOpen \/ Switch \/ Exit
    \/ \E a \in Addrs : Listen(a) \/ Drop(a)

Spec == Init /\ [][Next]_vars
=============================================================================
