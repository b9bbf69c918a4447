-------------------------- MODULE AdmissionServing --------------------------
(***************************************************************************)
(* Who serves the admission webhooks, and for whom: the processes of the   *)
(* operator with their certificates and the lease (cmd/main.go), the       *)
(* webhook configuration their leader writes (whatapagent_controller.go)   *)
(* and the validation of WhatapAgents they answer                          *)
(* (internal/webhook/v2alpha1/whatapagent_webhook.go).                     *)
(*                                                                         *)
(* A process is the number of its certificate authority: every start makes *)
(* a new one.  Every process serves, and the API server sends a call to    *)
(* any of them, but it trusts one authority only, and goes on without an   *)
(* answer when the call fails.  Only the leader reconciles.                *)
(***************************************************************************)
EXTENDS Naturals, FiniteSets

CONSTANTS
    Names,      \* names of WhatapAgents
    Valid,      \* the one name the validator lets pass
    MaxStarts,  \* bound: starts of a process
    MaxEdits,   \* bound: creations and deletions of WhatapAgents
    MaxFaults,  \* bound: failed steps, lost leases and deletions by others
    None        \* no owner, no resource

ASSUME NamesAssumption  == Valid \in Names /\ None \notin Names
ASSUME BoundsAssumption == MaxStarts \in Nat \ {0} /\ MaxEdits \in Nat /\ MaxFaults \in Nat

\* The Service, the webhook configuration, and all the rest that is installed.
Objects == {"service", "webhook", "agents"}
Starts  == 1 .. MaxStarts

VARIABLES
    running,   \* the processes that run
    born,      \* how many have been started
    leader,    \* the holder of the lease, or 0
    out,       \* the processes that have lost the lease and will exit
    step,      \* for each process, where its pass stands and for whom
    queue,     \* the work queue of the leader
    timer,     \* the resources whose pass is repeated after five minutes
    cr,        \* WhatapAgents: None, new, live with finalizer, or deleting
    owner,     \* the controller reference of every object
    hook,      \* the authority in the webhook configuration, or 0
    hookSeen,  \* the same as admission in the API server knows it
    edits, faults

procs   == <<running, born, leader, out>>
work    == <<queue, timer>>
objects == <<owner, hook>>
vars == <<procs, step, work, cr, objects, hookSeen, edits, faults>>

Idle == [at |-> "idle", for |-> None]

Init ==
    /\ running = {1} /\ born = 1 /\ leader = 0 /\ out = {}
    /\ step = [p \in Starts |-> Idle]
    /\ queue = {} /\ timer = {}
    /\ cr = [n \in Names |-> None]
    /\ owner = [o \in Objects |-> None] /\ hook = 0 /\ hookSeen = 0
    /\ edits = 0 /\ faults = 0

Fault == faults < MaxFaults /\ faults' = faults + 1

-----------------------------------------------------------------------------
(***************************************************************************)
(* Admission.                                                              *)
(***************************************************************************)

\* The API server reaches a process and trusts its certificate.
Vouched(p) == owner["service"] # None /\ hookSeen = p

\* validateAgentConfigurations.
Refuses(p, n) == Vouched(p) /\ n # Valid

\* Creation or update of a WhatapAgent; a call that fails is ignored.
MayPass(n)    == running = {} \/ \E p \in running : ~Refuses(p, n)
MayBeDenied(n) == \E p \in running : Refuses(p, n)

SeeHook ==
    /\ hookSeen # hook
    /\ hookSeen' = hook
    /\ UNCHANGED <<procs, step, work, cr, objects, edits, faults>>

-----------------------------------------------------------------------------
(***************************************************************************)
(* Passes.                                                                 *)
(***************************************************************************)

Go(p, at) == step' = [step EXCEPT ![p].at = at]
EndPass(p) == step' = [step EXCEPT ![p] = Idle]

\* The change of an object queues its owner.
Notify(ns) == queue' = queue \cup (ns \ {None})

\* An error brings the resource back into the queue of this process.
Fail(p) ==
    /\ EndPass(p)
    /\ queue' = IF p = leader THEN queue \cup {step[p].for} ELSE queue

StartPass(p, n) ==
    /\ p = leader /\ p \in running /\ step[p] = Idle /\ n \in queue
    /\ queue' = queue \ {n}
    /\ step' = [step EXCEPT ![p] =
                  IF cr[n] = None THEN Idle
                  ELSE [for |-> n, at |-> CASE cr[n] = "new"      -> "finalize"
                                            [] cr[n] = "live"     -> "service"
                                            [] cr[n] = "deleting" -> "drop agents"]]
    /\ UNCHANGED <<procs, timer, cr, objects, hookSeen, edits, faults>>

\* Adding the finalizer is an update, which the validator sees.  A resource that
\* was deleted and created again in between counts as the same.
AddFinalizer(p) ==
    LET n == step[p].for
    IN  /\ step[p].at = "finalize"
        /\ \/ cr[n] = "new" /\ MayPass(n)
              /\ cr' = [cr EXCEPT ![n] = "live"]
              /\ Go(p, "service") /\ UNCHANGED queue
           \/ (cr[n] # "new" \/ MayBeDenied(n)) /\ Fail(p) /\ UNCHANGED cr
        /\ UNCHANGED <<procs, timer, objects, hookSeen, edits, faults>>

\* SetControllerReference compares names.
MayOwn(n, o) == owner[o] \in {None, n}

\* Faulty variant: an existing webhook configuration is left as it is.
AuthorityFirst(p) == IF hook = 0 THEN p ELSE hook

\* The configuration is written with the authority of the process.
Authority(p) == p

\* CreateOrUpdate of an object; the last one ends the pass.
Ensure(p) ==
    LET n == step[p].for
        o == step[p].at
    IN  /\ o \in Objects
        /\ \/ /\ MayOwn(n, o)
              /\ owner' = [owner EXCEPT ![o] = n]
              /\ hook' = IF o = "webhook" THEN Authority(p) ELSE hook
              /\ Notify(IF objects' # objects THEN {n} ELSE {})
              /\ CASE o = "service" -> Go(p, "webhook") /\ UNCHANGED timer
                   [] o = "webhook" -> Go(p, "agents") /\ UNCHANGED timer
                   [] o = "agents"  -> /\ EndPass(p)
                                       /\ timer' = IF p = leader THEN timer \cup {n} ELSE timer
           \/ ~MayOwn(n, o) /\ Fail(p) /\ UNCHANGED <<objects, timer>>
        /\ UNCHANGED <<procs, cr, hookSeen, edits, faults>>

Gone(o) ==
    /\ owner' = [owner EXCEPT ![o] = None]
    /\ hook' = IF o = "webhook" THEN 0 ELSE hook

\* Faulty variant: admission is left in place.
DropsAgents == [at \in {"drop agents", "drop webhook", "drop service"} |-> "agents"]

\* cleanupAgents deletes what it knows by name, whoever owns it.
Drops ==
    [at \in {"drop agents", "drop webhook", "drop service"} |->
        CASE at = "drop agents"  -> "agents"
          [] at = "drop webhook" -> "webhook"
          [] OTHER               -> "service"]

\* A deletion that fails is logged.
Drop(p) ==
    /\ step[p].at \in DOMAIN Drops
    /\ LET o == Drops[step[p].at]
       IN  \/ Gone(o) /\ Notify({owner[o]}) /\ UNCHANGED faults
           \/ Fault /\ UNCHANGED <<objects, queue>>
    /\ Go(p, CASE step[p].at = "drop agents"  -> "drop webhook"
               [] step[p].at = "drop webhook" -> "drop service"
               [] step[p].at = "drop service" -> "unfinalize")
    /\ UNCHANGED <<procs, timer, cr, hookSeen, edits>>

\* So is the update that removes the finalizer seen by the validator.
RemoveFinalizer(p) ==
    LET n == step[p].for
    IN  /\ step[p].at = "unfinalize"
        /\ \/ cr[n] = "deleting" /\ MayPass(n)
              /\ cr' = [cr EXCEPT ![n] = None]
              /\ EndPass(p) /\ UNCHANGED queue
           \/ (cr[n] # "deleting" \/ MayBeDenied(n)) /\ Fail(p) /\ UNCHANGED cr
        /\ UNCHANGED <<procs, timer, objects, hookSeen, edits, faults>>

StepFails(p) ==
    /\ step[p].at \in {"finalize", "unfinalize"} \cup Objects
    /\ Fault /\ Fail(p)
    /\ UNCHANGED <<procs, timer, cr, objects, hookSeen, edits>>

Step(p) == AddFinalizer(p) \/ Ensure(p) \/ Drop(p) \/ RemoveFinalizer(p)

Tick(n) ==
    /\ n \in timer
    /\ timer' = timer \ {n} /\ Notify({n})
    /\ UNCHANGED <<procs, step, cr, objects, hookSeen, edits, faults>>

-----------------------------------------------------------------------------
(***************************************************************************)
(* Processes and the lease.                                                *)
(***************************************************************************)

\* Another process is there, or may still be started (the bound on starts).
Spare(p) == running \ ({p} \cup out) # {} \/ born < MaxStarts

\* A rolling update has at most one process more than the one that is wanted.
StartProcess ==
    /\ born < MaxStarts /\ Cardinality(running) < 2
    /\ born' = born + 1 /\ running' = running \cup {born'}
    /\ UNCHANGED <<leader, out, step, work, cr, objects, hookSeen, edits, faults>>

\* A crash, the end of a process that has lost its lease, or of an old one in a
\* rolling update.  The lease is not released.
StopProcess(p) ==
    /\ p \in running /\ Spare(p)
    /\ running' = running \ {p} /\ out' = out \ {p}
    /\ EndPass(p)
    /\ UNCHANGED <<born, leader, work, cr, objects, hookSeen, edits, faults>>

Expire ==
    /\ leader # 0 /\ leader \notin running
    /\ leader' = 0 /\ queue' = {} /\ timer' = {}
    /\ UNCHANGED <<running, born, out, step, cr, objects, hookSeen, edits, faults>>

\* A process cut off for too long loses its lease; the pass it is in may go on
\* until it exits.
LoseLease(p) ==
    /\ leader = p /\ p \in running /\ Spare(p)
    /\ Fault
    /\ leader' = 0 /\ out' = out \cup {p} /\ queue' = {} /\ timer' = {}
    /\ UNCHANGED <<running, born, step, cr, objects, hookSeen, edits>>

\* Faulty variant: the process does not wait for the lease.
AcquireAtOnce(p) ==
    /\ leader # p /\ p \in running \ out
    /\ leader' = p
    /\ queue' = {n \in Names : cr[n] # None} /\ timer' = {}
    /\ UNCHANGED <<running, born, out, step, cr, objects, hookSeen, edits, faults>>

\* Faulty variant: a process that has lost the lease does not exit but tries again.
AcquireAgain(p) ==
    /\ leader = 0 /\ p \in running
    /\ leader' = p
    /\ queue' = {n \in Names : cr[n] # None} /\ timer' = {}
    /\ UNCHANGED <<running, born, out, step, cr, objects, hookSeen, edits, faults>>

\* The informers of the new leader begin with every resource there is.
Acquire(p) ==
    /\ leader = 0 /\ p \in running \ out
    /\ leader' = p
    /\ queue' = {n \in Names : cr[n] # None} /\ timer' = {}
    /\ UNCHANGED <<running, born, out, step, cr, objects, hookSeen, edits, faults>>

-----------------------------------------------------------------------------
(***************************************************************************)
(* Users, others and the garbage collector.                                *)
(***************************************************************************)

Create(n) ==
    /\ edits < MaxEdits /\ edits' = edits + 1
    /\ cr[n] = None /\ MayPass(n)
    /\ cr' = [cr EXCEPT ![n] = "new"] /\ Notify({n})
    /\ UNCHANGED <<procs, step, timer, objects, hookSeen, faults>>

Delete(n) ==
    /\ edits < MaxEdits /\ edits' = edits + 1
    /\ cr[n] \in {"new", "live"}
    /\ cr' = [cr EXCEPT ![n] = IF cr[n] = "new" THEN None ELSE "deleting"] /\ Notify({n})
    /\ UNCHANGED <<procs, step, timer, objects, hookSeen, faults>>

ForeignDelete(o) ==
    /\ owner[o] # None /\ Fault
    /\ Gone(o) /\ Notify({owner[o]})
    /\ UNCHANGED <<procs, step, timer, cr, hookSeen, edits>>

Collect(o) ==
    /\ owner[o] # None /\ cr[owner[o]] = None
    /\ Gone(o) /\ Notify({owner[o]})
    /\ UNCHANGED <<procs, step, timer, cr, hookSeen, edits, faults>>

-----------------------------------------------------------------------------
Next ==
    \/ SeeHook \/ StartProcess \/ Expire
    \/ \E p \in Starts : \/ Step(p) \/ StepFails(p) \/ StopProcess(p) \/ LoseLease(p) \/ Acquire(p)
                         \/ \E n \in Names : StartPass(p, n)
    \/ \E n \in Names : Tick(n) \/ Create(n) \/ Delete(n)
    \/ \E o \in Objects : ForeignDelete(o) \/ Collect(o)

\* The Deployment brings a process back, and ends the older of two; a process
\* without its lease exits; the work queue is fair to its resources.
Spec ==
    /\ Init /\ [][Next]_vars
    /\ WF_vars(SeeHook) /\ WF_vars(Expire)
    /\ WF_vars(running = {} /\ StartProcess)
    /\ WF_vars(\E p \in Starts : Acquire(p))
    /\ \A p \in Starts :
        /\ WF_vars(Step(p))
        /\ WF_vars((p \in out \/ \E q \in running : q > p) /\ StopProcess(p))
    /\ \A n \in Names : WF_vars(Tick(n)) /\ SF_vars(\E p \in Starts : StartPass(p, n))
    /\ \A o \in Objects : WF_vars(Collect(o))

-----------------------------------------------------------------------------
(***************************************************************************)
(* Properties.                                                             *)
(***************************************************************************)

\* The types, and that only a process that runs has a pass, and an authority is
\* one that was made.
TypeOK ==
    /\ running \subseteq 1 .. born /\ born \in Starts /\ Cardinality(running) <= 2
    /\ leader \in 0 .. born /\ out \subseteq running /\ leader \notin out
    /\ step \in [Starts -> [for : Names \cup {None},
                            at : {"idle", "finalize", "unfinalize"} \cup Objects \cup DOMAIN Drops]]
    /\ \A p \in Starts : (step[p].at = "idle") = (step[p].for = None)
    /\ queue \subseteq Names /\ timer \subseteq Names
    /\ cr \in [Names -> {None, "new", "live", "deleting"}]
    /\ owner \in [Objects -> Names \cup {None}]
    /\ hook \in 0 .. born /\ hookSeen \in 0 .. born
    /\ hook = 0 <=> owner["webhook"] = None
    /\ edits \in 0 .. MaxEdits /\ faults \in 0 .. MaxFaults

\* One process reconciles at a time, apart from the pass of one that has just
\* lost its lease and exits (leader election, cmd/main.go).
OneReconciles ==
    \A p \in Starts : step[p] # Idle => p \in running /\ (p = leader \/ p \in out)

\* Resources of different names do not take objects from each other, whoever
\* reconciles them in whichever order: an object changes hands only after it was
\* gone (SetControllerReference).
OwnersKept ==
    [][\A o \in Objects : owner[o] # None => owner'[o] \in {None, owner[o]}]_vars

\* After crashes, rolling updates and lost leases the API server ends up
\* trusting the one process that serves, and everything belongs to the valid
\* resource, once no other stands in its way (ensureMutatingWebhookConfiguration
\* and generateSelfSignedCert), whatever the cleanup of another took away.
EndsUpVouched ==
    <>[](cr[Valid] # None /\ cr[Valid] # "deleting" /\ (\A n \in Names \ {Valid} : cr[n] = None) =>
            /\ \A o \in Objects : owner[o] = Valid
            /\ running = {hook} /\ hookSeen = hook)

\* A resource with another name, let in while nobody was trusted, can be deleted
\* when it is alone, although the validator refuses to let go of its finalizer:
\* its cleanup removes the webhook configuration first.
MisnamedGoes ==
    <>[](cr[Valid] = None => \A n \in Names \ {Valid} : cr[n] # "deleting")
=============================================================================
