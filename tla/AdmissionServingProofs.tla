----------------------- MODULE AdmissionServingProofs -----------------------
(***************************************************************************)
(* Proofs about who reconciles and what the resources of different names   *)
(* take from each other, for any names and any bounds.  OneReconciles and  *)
(* the types are inductive only together: an authority is written by a     *)
(* process that has a pass, and such a process runs, so that it was made.  *)
(***************************************************************************)
EXTENDS AdmissionServing, FiniteSetTheorems, TLAPS

IInv == TypeOK /\ OneReconciles

Places == {"idle", "finalize", "unfinalize", "service", "webhook", "agents",
           "drop agents", "drop webhook", "drop service"}

\* The parts of the types, with the sets of constants written out.
StepTyped == /\ step \in [Starts -> [for : Names \cup {None}, at : Places]]
             /\ \A p \in Starts : (step[p].at = "idle") = (step[p].for = None)
ProcsTyped == /\ running \subseteq 1 .. born /\ born \in Starts /\ Cardinality(running) <= 2
              /\ leader \in 0 .. born /\ out \subseteq running /\ leader \notin out
WorkTyped == queue \subseteq Names /\ timer \subseteq Names
ObjectsTyped == /\ owner \in [Objects -> Names \cup {None}]
                /\ hook \in 0 .. born /\ hookSeen \in 0 .. born
                /\ hook = 0 <=> owner["webhook"] = None
RestTyped == /\ cr \in [Names -> {None, "new", "live", "deleting"}]
             /\ edits \in 0 .. MaxEdits /\ faults \in 0 .. MaxFaults

\* The types are the conjunction of their parts.
LEMMA TypeParts ==
    TypeOK <=> StepTyped /\ ProcsTyped /\ WorkTyped /\ ObjectsTyped /\ RestTyped
<1>1. {"idle", "finalize", "unfinalize"} \cup Objects \cup DOMAIN Drops = Places
  BY DEF Objects, Drops, Places
<1> QED
  BY <1>1 DEF TypeOK, StepTyped, ProcsTyped, WorkTyped, ObjectsTyped, RestTyped

\* What a step has to show.
LEMMA Together ==
    ASSUME StepTyped', ProcsTyped', WorkTyped', ObjectsTyped', RestTyped', OneReconciles'
    PROVE  IInv'
<1>1. (TypeOK <=> StepTyped /\ ProcsTyped /\ WorkTyped /\ ObjectsTyped /\ RestTyped)'
  BY TypeParts, PTL
<1> QED
  BY <1>1 DEF IInv

\* A process that is in a pass has one of the resources.
LEMMA InPass ==
    ASSUME StepTyped, NEW p \in Starts, step[p].at # "idle"
    PROVE  step[p].for \in Names /\ step[p] # Idle /\ step[p].for # None
BY NamesAssumption DEF StepTyped, Idle

\* Going on with a pass, and ending one, keeps the passes well-formed and does
\* not start one.
LEMMA GoTyped ==
    ASSUME StepTyped, NEW p \in Starts, step[p].at # "idle",
           NEW at \in Places \ {"idle"}, Go(p, at)
    PROVE  StepTyped' /\ (OneReconciles /\ UNCHANGED procs => OneReconciles')
<1>1. StepTyped'
  BY InPass DEF StepTyped, Go, Starts, Places
<1>2. step[p] # Idle
  BY InPass
<1>3. \A q \in Starts : step'[q] # Idle => step[q] # Idle
  BY <1>2 DEF Go, StepTyped
<1> QED
  BY <1>1, <1>3 DEF OneReconciles, procs

LEMMA EndTyped ==
    ASSUME StepTyped, NEW p \in Starts, EndPass(p)
    PROVE  StepTyped' /\ (OneReconciles /\ UNCHANGED procs => OneReconciles')
<1>1. StepTyped'
  BY NamesAssumption DEF StepTyped, EndPass, Idle, Places, Starts
<1>2. \A q \in Starts : step'[q] # Idle => step[q] # Idle
  BY DEF EndPass, StepTyped
<1> QED
  BY <1>1, <1>2 DEF OneReconciles, procs

LEMMA FailTyped ==
    ASSUME StepTyped, WorkTyped, NEW p \in Starts, step[p].at # "idle", Fail(p), UNCHANGED timer
    PROVE  StepTyped' /\ WorkTyped' /\ (OneReconciles /\ UNCHANGED procs => OneReconciles')
BY InPass, EndTyped DEF Fail, WorkTyped

\* A name in the queue and an object gone leave the types as they are.
LEMMA NotifyTyped ==
    ASSUME WorkTyped, NEW ns, ns \subseteq Names \cup {None}, Notify(ns), UNCHANGED timer
    PROVE  WorkTyped'
BY DEF WorkTyped, Notify

LEMMA GoneTyped ==
    ASSUME ObjectsTyped, NEW o \in Objects, Gone(o), UNCHANGED <<born, hookSeen>>,
           born \in Nat
    PROVE  ObjectsTyped' /\ owner[o] \in Names \cup {None}
<1>1. owner' \in [Objects -> Names \cup {None}] /\ owner[o] \in Names \cup {None}
  BY DEF ObjectsTyped, Gone
<1>2. hook' \in 0 .. born' /\ hookSeen' \in 0 .. born'
  BY DEF ObjectsTyped, Gone
<1>3. hook' = 0 <=> owner'["webhook"] = None
  BY DEF ObjectsTyped, Gone, Objects
<1> QED
  BY <1>1, <1>2, <1>3 DEF ObjectsTyped

-----------------------------------------------------------------------------
LEMMA BornNat == ASSUME ProcsTyped PROVE born \in Nat /\ born > 0 /\ born <= MaxStarts
BY BoundsAssumption DEF ProcsTyped, Starts

LEMMA InitIInv == Init => IInv
<1> SUFFICES ASSUME Init PROVE IInv
  OBVIOUS
<1>1. StepTyped /\ OneReconciles
  BY NamesAssumption DEF Init, StepTyped, OneReconciles, Idle, Places, Starts
<1>2. ProcsTyped
  <2>1. Cardinality(running) = 1
    BY FS_Singleton DEF Init
  <2> QED
    BY <2>1, BoundsAssumption DEF Init, ProcsTyped, Starts
<1>3. WorkTyped /\ ObjectsTyped /\ RestTyped
  BY BoundsAssumption DEF Init, WorkTyped, ObjectsTyped, RestTyped, Objects
<1> QED
  BY <1>1, <1>2, <1>3, TypeParts DEF IInv

\* Every step of a pass keeps the types and who reconciles.
LEMMA StepKeeps ==
    ASSUME IInv, NEW p \in Starts, Step(p)
    PROVE  IInv'
<1> USE DEF IInv
<1>0. /\ StepTyped /\ ProcsTyped /\ WorkTyped /\ ObjectsTyped /\ RestTyped
      /\ born \in Nat /\ UNCHANGED procs
  BY TypeParts, BornNat DEF Step, AddFinalizer, Ensure, Drop, RemoveFinalizer
<1>p. ProcsTyped'
  BY <1>0 DEF ProcsTyped, procs
<1>1. CASE AddFinalizer(p)
  <2>1. step[p].at = "finalize" /\ step[p].for \in Names
    BY <1>0, <1>1, InPass DEF AddFinalizer
  <2>2. RestTyped' /\ ObjectsTyped'
    BY <1>0, <1>1, <2>1 DEF AddFinalizer, RestTyped, ObjectsTyped, objects, procs
  <2>3. CASE Go(p, "service") /\ UNCHANGED queue
    BY <1>0, <1>p, <1>1, <2>1, <2>2, <2>3, GoTyped, Together
    DEF AddFinalizer, WorkTyped, Places
  <2>4. CASE Fail(p)
    BY <1>0, <1>p, <1>1, <2>1, <2>2, <2>4, FailTyped, Together DEF AddFinalizer
  <2> QED
    BY <1>1, <2>3, <2>4 DEF AddFinalizer
<1>2. CASE Ensure(p)
  <2>1. step[p].at \in Objects /\ step[p].at # "idle" /\ step[p].for \in Names /\ step[p].for # None
    BY <1>0, <1>2, InPass DEF Ensure, Objects
  <2>2. RestTyped'
    BY <1>0, <1>2 DEF Ensure, RestTyped
  <2>3. CASE ~MayOwn(step[p].for, step[p].at)
    <3>0. Fail(p) /\ UNCHANGED <<objects, timer>>
      BY <1>2, <2>3 DEF Ensure
    <3>1. ObjectsTyped'
      BY <1>0, <1>2, <3>0 DEF ObjectsTyped, objects, procs, Ensure
    <3> QED
      BY <1>0, <1>p, <2>1, <2>2, <3>0, <3>1, FailTyped, Together
  <2>4. CASE MayOwn(step[p].for, step[p].at)
    <3> DEFINE n == step[p].for
               o == step[p].at
    <3>1. /\ owner' = [owner EXCEPT ![o] = n]
          /\ hook' = IF o = "webhook" THEN Authority(p) ELSE hook
          /\ Notify(IF objects' # objects THEN {n} ELSE {})
          /\ UNCHANGED <<procs, cr, hookSeen, edits, faults>>
      BY <1>2, <2>4 DEF Ensure
    <3>2. \/ o = "service" /\ Go(p, "webhook") /\ UNCHANGED timer
          \/ o = "webhook" /\ Go(p, "agents") /\ UNCHANGED timer
          \/ o = "agents" /\ EndPass(p) /\ timer' = IF p = leader THEN timer \cup {n} ELSE timer
      BY <1>2, <2>1, <2>4 DEF Ensure, Objects
    <3>3. StepTyped' /\ OneReconciles'
      BY <1>0, <2>1, <3>1, <3>2, GoTyped, EndTyped DEF Places
    <3>4. WorkTyped'
      <4>1. queue' \subseteq Names
        BY <1>0, <2>1, <3>1 DEF Notify, WorkTyped
      <4> QED
        BY <1>0, <2>1, <3>2, <4>1 DEF WorkTyped
    <3>5. p \in 1 .. born
      BY <1>0, <2>1, InPass DEF OneReconciles, ProcsTyped
    <3>6. ObjectsTyped'
      <4>1. owner' \in [Objects -> Names \cup {None}]
        BY <1>0, <2>1, <3>1 DEF ObjectsTyped
      <4>2. hook' \in 0 .. born' /\ hookSeen' \in 0 .. born'
        BY <1>0, <3>1, <3>5 DEF ObjectsTyped, Authority, procs
      <4>3. hook' = 0 <=> owner'["webhook"] = None
        <5>1. CASE o = "webhook"
          BY <1>0, <2>1, <3>1, <3>5, <5>1 DEF ObjectsTyped, Authority
        <5>2. CASE o # "webhook"
          BY <1>0, <2>1, <3>1, <5>2 DEF ObjectsTyped
        <5> QED
          BY <5>1, <5>2
      <4> QED
        BY <4>1, <4>2, <4>3 DEF ObjectsTyped
    <3> QED
      BY <1>p, <2>2, <3>3, <3>4, <3>6, Together
  <2> QED
    BY <1>2, <2>3, <2>4 DEF Ensure
<1>3. CASE Drop(p)
  <2>1. step[p].at \in {"drop agents", "drop webhook", "drop service"}
    BY <1>3 DEF Drop, Drops
  <2>2. Drops[step[p].at] \in Objects
    BY <2>1 DEF Drops, Objects
  <2>3. StepTyped' /\ OneReconciles'
    <3>1. \/ Go(p, "drop webhook")
          \/ Go(p, "drop service")
          \/ Go(p, "unfinalize")
      BY <1>3, <2>1 DEF Drop
    <3> QED
      BY <1>0, <2>1, <3>1, GoTyped DEF Places
  <2>4. RestTyped'
    <3>1. UNCHANGED <<cr, edits>> /\ (Fault \/ UNCHANGED faults)
      BY <1>3 DEF Drop
    <3> QED
      BY <1>0, <3>1, BoundsAssumption DEF RestTyped, Fault
  <2>5. ObjectsTyped' /\ WorkTyped'
    <3>1. CASE Gone(Drops[step[p].at]) /\ Notify({owner[Drops[step[p].at]]})
      BY <1>0, <1>3, <2>2, <3>1, GoneTyped, NotifyTyped DEF Drop, procs
    <3>2. CASE UNCHANGED <<objects, queue>>
      BY <1>0, <1>3, <3>2 DEF Drop, objects, procs, ObjectsTyped, WorkTyped
    <3> QED
      BY <1>3, <3>1, <3>2 DEF Drop
  <2> QED
    BY <1>p, <2>3, <2>4, <2>5, Together
<1>4. CASE RemoveFinalizer(p)
  <2>1. step[p].at = "unfinalize" /\ step[p].for \in Names
    BY <1>0, <1>4, InPass DEF RemoveFinalizer
  <2>2. RestTyped' /\ ObjectsTyped'
    BY <1>0, <1>4, <2>1 DEF RemoveFinalizer, RestTyped, ObjectsTyped, objects, procs
  <2>3. CASE EndPass(p) /\ UNCHANGED queue
    BY <1>0, <1>p, <1>4, <2>1, <2>2, <2>3, EndTyped, Together DEF RemoveFinalizer, WorkTyped
  <2>4. CASE Fail(p)
    BY <1>0, <1>p, <1>4, <2>1, <2>2, <2>4, FailTyped, Together DEF RemoveFinalizer
  <2> QED
    BY <1>4, <2>3, <2>4 DEF RemoveFinalizer
<1> QED
  BY <1>1, <1>2, <1>3, <1>4 DEF Step

\* The start, the end and the crash of a process, and what becomes of the lease.
LEMMA ProcessKeeps ==
    ASSUME IInv,
           \/ StartProcess \/ Expire
           \/ \E p \in Starts : StopProcess(p) \/ LoseLease(p) \/ Acquire(p)
    PROVE  IInv'
<1> USE DEF IInv
<1>0. /\ StepTyped /\ ProcsTyped /\ WorkTyped /\ ObjectsTyped /\ RestTyped
      /\ born \in Nat /\ born > 0 /\ born <= MaxStarts /\ OneReconciles
  BY TypeParts, BornNat
<1>f. IsFiniteSet(running)
  <2>1. IsFiniteSet(1 .. born)
    BY <1>0, FS_Interval
  <2> QED
    BY <1>0, <2>1, FS_Subset DEF ProcsTyped
<1>1. CASE StartProcess
  <2>1. /\ born < MaxStarts /\ Cardinality(running) < 2
        /\ born' = born + 1 /\ running' = running \cup {born'}
        /\ UNCHANGED <<leader, out, step, work, cr, objects, hookSeen, edits, faults>>
    BY <1>1 DEF StartProcess
  <2>2. born + 1 \notin running
    BY <1>0 DEF ProcsTyped
  <2>3. Cardinality(running \cup {born + 1}) = Cardinality(running) + 1
    BY <1>f, <2>2, FS_AddElement
  <2>4. Cardinality(running) \in Nat
    BY <1>f, FS_CardinalityType
  <2>5. Cardinality(running') <= 2
    BY <2>1, <2>3, <2>4
  <2>6. ProcsTyped'
    BY <1>0, <2>1, <2>5, BoundsAssumption DEF ProcsTyped, Starts
  <2>7. StepTyped' /\ WorkTyped' /\ RestTyped'
    BY <1>0, <2>1 DEF StepTyped, WorkTyped, RestTyped, work
  <2>8. ObjectsTyped'
    BY <1>0, <2>1 DEF ObjectsTyped, objects
  <2>9. OneReconciles'
    BY <1>0, <2>1 DEF OneReconciles
  <2> QED
    BY <2>6, <2>7, <2>8, <2>9, Together
<1>2. CASE Expire
  <2>1. ProcsTyped' /\ WorkTyped'
    BY <1>0, <1>2 DEF Expire, ProcsTyped, WorkTyped
  <2>2. StepTyped' /\ RestTyped' /\ ObjectsTyped'
    BY <1>0, <1>2 DEF Expire, StepTyped, RestTyped, ObjectsTyped, objects
  <2>3. OneReconciles'
    BY <1>0, <1>2 DEF Expire, OneReconciles
  <2> QED
    BY <2>1, <2>2, <2>3, Together
<1>3. ASSUME NEW p \in Starts, StopProcess(p) PROVE IInv'
  <2>1. Cardinality(running \ {p}) <= 2
    <3>1. Cardinality(running \ {p}) <= Cardinality(running) /\ IsFiniteSet(running \ {p})
      BY <1>f, FS_Subset
    <3>2. Cardinality(running \ {p}) \in Nat /\ Cardinality(running) \in Nat
      BY <1>f, <3>1, FS_CardinalityType
    <3> QED
      BY <1>0, <3>1, <3>2 DEF ProcsTyped
  <2>2. ProcsTyped' /\ WorkTyped' /\ RestTyped'
    BY <1>0, <1>3, <2>1 DEF StopProcess, ProcsTyped, WorkTyped, RestTyped, work
  <2>3. ObjectsTyped'
    BY <1>0, <1>3 DEF StopProcess, ObjectsTyped, objects
  <2>4. StepTyped'
    BY <1>0, <1>3, EndTyped DEF StopProcess
  <2>5. OneReconciles'
    <3>1. \A q \in Starts : step'[q] # Idle => step[q] # Idle /\ q # p
      BY <1>0, <1>3 DEF StopProcess, EndPass, StepTyped
    <3> QED
      BY <1>0, <1>3, <3>1 DEF StopProcess, OneReconciles
  <2> QED
    BY <2>2, <2>3, <2>4, <2>5, Together
<1>4. ASSUME NEW p \in Starts, LoseLease(p) PROVE IInv'
  <2>1. ProcsTyped' /\ WorkTyped'
    BY <1>0, <1>4 DEF LoseLease, ProcsTyped, WorkTyped
  <2>2. StepTyped' /\ ObjectsTyped'
    BY <1>0, <1>4 DEF LoseLease, StepTyped, ObjectsTyped, objects
  <2>3. RestTyped'
    BY <1>0, <1>4, BoundsAssumption DEF LoseLease, RestTyped, Fault
  <2>4. OneReconciles'
    BY <1>0, <1>4 DEF LoseLease, OneReconciles
  <2> QED
    BY <2>1, <2>2, <2>3, <2>4, Together
<1>5. ASSUME NEW p \in Starts, Acquire(p) PROVE IInv'
  <2>1. ProcsTyped' /\ WorkTyped'
    BY <1>0, <1>5 DEF Acquire, ProcsTyped, WorkTyped
  <2>2. StepTyped' /\ ObjectsTyped' /\ RestTyped'
    BY <1>0, <1>5 DEF Acquire, StepTyped, ObjectsTyped, RestTyped, objects
  <2>3. OneReconciles'
    BY <1>0, <1>5 DEF Acquire, OneReconciles, Starts
  <2> QED
    BY <2>1, <2>2, <2>3, Together
<1> QED
  BY <1>1, <1>2, <1>3, <1>4, <1>5

\* The rest: the queue, the users, others and the garbage collector.
LEMMA OthersKeep ==
    ASSUME IInv,
           \/ SeeHook
           \/ \E p \in Starts : StepFails(p) \/ \E n \in Names : StartPass(p, n)
           \/ \E n \in Names : Tick(n) \/ Create(n) \/ Delete(n)
           \/ \E o \in Objects : ForeignDelete(o) \/ Collect(o)
    PROVE  IInv'
<1> USE DEF IInv
<1>0. /\ StepTyped /\ ProcsTyped /\ WorkTyped /\ ObjectsTyped /\ RestTyped
      /\ born \in Nat /\ OneReconciles /\ UNCHANGED procs
  BY TypeParts, BornNat DEF SeeHook, StepFails, StartPass, Tick, Create, Delete, ForeignDelete, Collect
<1>p. ProcsTyped'
  BY <1>0 DEF ProcsTyped, procs
<1>s. ASSUME UNCHANGED step PROVE StepTyped' /\ OneReconciles'
  BY <1>0, <1>s DEF StepTyped, OneReconciles, procs
<1>o. ASSUME UNCHANGED <<objects, hookSeen>> PROVE ObjectsTyped'
  BY <1>0, <1>o DEF ObjectsTyped, objects, procs
<1>r. ASSUME UNCHANGED cr, UNCHANGED edits, Fault \/ UNCHANGED faults PROVE RestTyped'
  BY <1>0, <1>r, BoundsAssumption DEF RestTyped, Fault
<1>1. CASE SeeHook
  <2>1. ObjectsTyped' /\ WorkTyped' /\ UNCHANGED <<step, cr, edits, faults>>
    BY <1>0, <1>1 DEF SeeHook, ObjectsTyped, WorkTyped, objects, work, procs
  <2> QED
    BY <1>p, <1>s, <1>r, <2>1, Together
<1>2. ASSUME NEW p \in Starts, StepFails(p) PROVE IInv'
  <2>1. step[p].at # "idle"
    BY <1>2 DEF StepFails, Objects
  <2>2. /\ Fail(p) /\ Fault
        /\ UNCHANGED <<procs, timer, cr, objects, hookSeen, edits>>
    BY <1>2 DEF StepFails
  <2> QED
    BY <1>0, <1>p, <1>o, <1>r, <2>1, <2>2, FailTyped, Together
<1>3. ASSUME NEW p \in Starts, NEW n \in Names, StartPass(p, n) PROVE IInv'
  <2>1. /\ p = leader /\ p \in running /\ queue' = queue \ {n}
        /\ UNCHANGED <<procs, timer, cr, objects, hookSeen, edits, faults>>
    BY <1>3 DEF StartPass
  <2>2. \E at \in {"finalize", "service", "drop agents"} :
          step' = [step EXCEPT ![p] = IF cr[n] = None THEN Idle ELSE [for |-> n, at |-> at]]
    <3>1. cr[n] \in {None, "new", "live", "deleting"}
      BY <1>0 DEF RestTyped
    <3>2. CASE cr[n] = None
      BY <1>3, <3>2 DEF StartPass
    <3>3. CASE cr[n] # None
      BY <1>3, <3>1, <3>3 DEF StartPass
    <3> QED
      BY <3>2, <3>3
  <2>3. StepTyped'
    <3>1. PICK at \in {"finalize", "service", "drop agents"} :
            step' = [step EXCEPT ![p] = IF cr[n] = None THEN Idle ELSE [for |-> n, at |-> at]]
      BY <2>2
    <3>2. n # None /\ at \in Places /\ at # "idle"
      BY NamesAssumption DEF Places
    <3>3. CASE cr[n] = None
      BY <1>0, <3>1, <3>3 DEF StepTyped, Idle, Places
    <3>4. CASE cr[n] # None
      BY <1>0, <3>1, <3>2, <3>4 DEF StepTyped
    <3> QED
      BY <3>3, <3>4
  <2>4. OneReconciles'
    <3>1. \A q \in Starts : step'[q] # Idle => step[q] # Idle \/ q = p
      BY <1>0, <2>2 DEF StepTyped
    <3> QED
      BY <1>0, <2>1, <3>1 DEF OneReconciles, procs
  <2>5. WorkTyped'
    BY <1>0, <2>1 DEF WorkTyped
  <2> QED
    BY <1>p, <1>o, <1>r, <2>1, <2>3, <2>4, <2>5, Together
<1>4. ASSUME NEW n \in Names, Tick(n) PROVE IInv'
  <2>1. WorkTyped' /\ UNCHANGED <<step, cr, objects, hookSeen, edits, faults>>
    BY <1>0, <1>4 DEF Tick, WorkTyped, Notify
  <2> QED
    BY <1>p, <1>s, <1>o, <1>r, <2>1, Together
<1>5. ASSUME NEW n \in Names, Create(n) \/ Delete(n) PROVE IInv'
  <2>1. /\ WorkTyped' /\ UNCHANGED <<step, objects, hookSeen, faults>>
        /\ edits < MaxEdits /\ edits' = edits + 1
        /\ \E to \in {None, "new", "deleting"} : cr' = [cr EXCEPT ![n] = to]
    BY <1>0, <1>5 DEF Create, Delete, WorkTyped, Notify
  <2>2. RestTyped'
    <3>1. edits' \in 0 .. MaxEdits
      BY <1>0, <2>1, BoundsAssumption DEF RestTyped
    <3> QED
      BY <1>0, <2>1, <3>1 DEF RestTyped
  <2> QED
    BY <1>p, <1>s, <1>o, <2>1, <2>2, Together
<1>6. ASSUME NEW o \in Objects, ForeignDelete(o) \/ Collect(o) PROVE IInv'
  <2>1. /\ Gone(o) /\ Notify({owner[o]}) /\ UNCHANGED <<procs, step, timer, cr, hookSeen, edits>>
        /\ Fault \/ UNCHANGED faults
    BY <1>6 DEF ForeignDelete, Collect
  <2>2. ObjectsTyped' /\ owner[o] \in Names \cup {None}
    BY <1>0, <2>1, GoneTyped DEF procs
  <2>3. WorkTyped'
    BY <1>0, <2>1, <2>2, NotifyTyped
  <2> QED
    BY <1>p, <1>s, <1>r, <2>1, <2>2, <2>3, Together
<1> QED
  BY <1>1, <1>2, <1>3, <1>4, <1>5, <1>6

LEMMA NextIInv == IInv /\ [Next]_vars => IInv'
<1> SUFFICES ASSUME IInv, [Next]_vars PROVE IInv'
  OBVIOUS
<1>1. CASE Next
  BY <1>1, StepKeeps, ProcessKeeps, OthersKeep DEF Next
<1>2. CASE UNCHANGED vars
  <2>1. /\ StepTyped /\ ProcsTyped /\ WorkTyped /\ ObjectsTyped /\ RestTyped /\ OneReconciles
    BY TypeParts DEF IInv
  <2>2. StepTyped' /\ ProcsTyped' /\ WorkTyped' /\ OneReconciles'
    BY <1>2, <2>1 DEF vars, StepTyped, ProcsTyped, WorkTyped, OneReconciles, procs, work
  <2>3. ObjectsTyped' /\ RestTyped'
    BY <1>2, <2>1 DEF vars, ObjectsTyped, RestTyped, procs, objects
  <2> QED
    BY <2>2, <2>3, Together
<1> QED
  BY <1>1, <1>2

\* The state is well-formed: a process that has lost the lease never holds it,
\* and the webhook configuration names an authority that some start made
\* (cmd/main.go).
THEOREM ServingTypes == Spec => []TypeOK
<1>1. IInv => TypeOK
  BY DEF IInv
<1> QED
  BY InitIInv, NextIInv, <1>1, PTL DEF Spec

\* One process reconciles at a time, but for the pass of one that has just lost
\* its lease (leader election, cmd/main.go), for any number of starts.
THEOREM OneLeaderReconciles == Spec => []OneReconciles
<1>1. IInv => OneReconciles
  BY DEF IInv
<1> QED
  BY InitIInv, NextIInv, <1>1, PTL DEF Spec

-----------------------------------------------------------------------------
\* No step hands an object from one resource to another.
LEMMA StepOwners ==
    ASSUME IInv, Next, NEW o \in Objects, owner[o] # None
    PROVE  owner'[o] \in {None, owner[o]}
<1>0. ObjectsTyped /\ StepTyped
  BY TypeParts DEF IInv
<1>1. ASSUME NEW p \in Starts, Ensure(p) PROVE owner'[o] \in {None, owner[o]}
  BY <1>0, <1>1 DEF Ensure, MayOwn, ObjectsTyped, objects
<1>2. ASSUME NEW x \in Objects, Gone(x) PROVE owner'[o] \in {None, owner[o]}
  BY <1>0, <1>2 DEF Gone, ObjectsTyped
<1>3. ASSUME NEW p \in Starts, Drop(p) PROVE owner'[o] \in {None, owner[o]}
  <2>1. Drops[step[p].at] \in Objects
    BY <1>3 DEF Drop, Drops, Objects
  <2> QED
    BY <1>2, <1>3, <2>1 DEF Drop, objects
<1>4. CASE \E x \in Objects : ForeignDelete(x) \/ Collect(x)
  BY <1>2, <1>4 DEF ForeignDelete, Collect
<1>5. CASE SeeHook \/ StartProcess \/ Expire \/ \E n \in Names : Tick(n) \/ Create(n) \/ Delete(n)
  BY <1>5 DEF SeeHook, StartProcess, Expire, Tick, Create, Delete, objects
<1>6. ASSUME NEW p \in Starts,
             \/ AddFinalizer(p) \/ RemoveFinalizer(p) \/ StepFails(p) \/ StopProcess(p)
             \/ LoseLease(p) \/ Acquire(p) \/ \E n \in Names : StartPass(p, n)
      PROVE  owner'[o] \in {None, owner[o]}
  BY <1>6 DEF AddFinalizer, RemoveFinalizer, StepFails, StopProcess, LoseLease, Acquire, StartPass, objects
<1> QED
  BY <1>1, <1>3, <1>4, <1>5, <1>6 DEF Next, Step

\* Resources of different names never take an object from each other
\* (SetControllerReference), for any names, processes and faults.
THEOREM OwnersAreKept == Spec => OwnersKept
<1>1. IInv /\ [Next]_vars =>
        [\A o \in Objects : owner[o] # None => owner'[o] \in {None, owner[o]}]_vars
  BY StepOwners
<1> QED
  BY <1>1, InitIInv, NextIInv, PTL DEF Spec, OwnersKept
=============================================================================
