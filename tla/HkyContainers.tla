--------------------------- MODULE HkyContainers ----------------------------
(* The containers of src/core: arrays and lists, which take their elements     *)
(* from a pool (HkyArray), and queues, which link what their users own         *)
(* (HkyQueue).  They share nothing: a behaviour uses the one or the other.     *)
EXTENDS HkyArray, HkyQueue

VARIABLE using              \* "arrays" or "queues"

vars == <<arrayVars, queueVars, using>>

ContainersInit ==
    /\ using \in {"arrays", "queues"}
    /\ ArraysInit
    /\ LinksInit
    /\ using = "arrays" => ~debug      \* the build matters to queues only

ContainersNext ==
    \/ using = "arrays" /\ ArraysNext /\ UNCHANGED <<queueVars, using>>
    \/ using = "queues" /\ LinksNext /\ UNCHANGED <<arrayVars, using>>

ContainersSpec == ContainersInit /\ [][ContainersNext]_vars
=============================================================================
