--------------------------- MODULE AgentLifecycle ---------------------------
(***************************************************************************)
(* What the operator promises about the WhatapAgent, seen from outside: a  *)
(* resource is guarded by the finalizer before anything is installed for   *)
(* it, what is installed belongs to the resource of that moment, and       *)
(* nothing is installed once the operator has released the resource.       *)
(* WhatapReconciler, with its queue, caches, stale copies, failures and    *)
(* restarts, implements it.                                                *)
(***************************************************************************)
EXTENDS Naturals

VARIABLES
    last,    \* the uid of the latest WhatapAgent; 0 before the first
    phase,   \* where the latest WhatapAgent stands
    owners   \* the uids of the resources that own a managed object

vars == <<last, phase, owners>>

\* new: the finalizer is not on it; guarded: it is; deleting: it is, and the
\* resource is deleted; released: it is deleted, without the finalizer, and
\* something else holds it.
Phases == {"absent", "new", "guarded", "deleting", "released"}

Init == last = 0 /\ phase = "absent" /\ owners = {}

Create ==
    /\ phase = "absent"
    /\ last' = last + 1 /\ phase' = "new"
    /\ UNCHANGED owners

Guard ==
    /\ phase = "new" /\ phase' = "guarded"
    /\ UNCHANGED <<last, owners>>

\* An object is created, updated, or taken over from an earlier resource.
Install ==
    /\ phase \in {"guarded", "deleting"}
    /\ last \in owners' /\ owners' \subseteq owners \cup {last}
    /\ UNCHANGED <<last, phase>>

Delete ==
    /\ \/ phase = "new" /\ phase' \in {"absent", "released"}
       \/ phase = "guarded" /\ phase' = "deleting"
    /\ UNCHANGED <<last, owners>>

Release ==
    /\ phase = "deleting" /\ phase' \in {"absent", "released"}
    /\ UNCHANGED <<last, owners>>

\* Objects go: cleaned up, disabled, collected or deleted by somebody else.
Uninstall ==
    /\ owners' \subseteq owners
    /\ UNCHANGED <<last, phase>>

\* A held resource goes after its objects.
Vanish ==
    /\ phase = "released" /\ last \notin owners
    /\ phase' = "absent"
    /\ UNCHANGED <<last, owners>>

Next ==
    \/ Create \/ Guard \/ Install \/ Delete \/ Release \/ Uninstall \/ Vanish

Spec == Init /\ [][Next]_vars
=============================================================================
