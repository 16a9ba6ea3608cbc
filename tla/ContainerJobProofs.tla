------------------------- MODULE ContainerJobProofs -------------------------
(***************************************************************************)
(* Proofs about ContainerJob, for any services, labels, faults, number of  *)
(* containers and runs in progress at once.                                *)
(*                                                                         *)
(* The invariants say where a container may be: only containers that were  *)
(* created are named by the stream, the cache, a job or a run; what a run  *)
(* has stopped is in its map, and at the end among what it has to start;   *)
(* and of each service it is the last event but removals, if there is one, *)
(* and else the cache, that tells the newest container.                    *)
(***************************************************************************)
EXTENDS ContainerJob, FiniteSetTheorems, SequenceTheorems, TLAPS

-----------------------------------------------------------------------------
(* The inductive invariant *)

Event == [ev : {"create", "update", "destroy"}, id : Ids]
StateTyped == TypeOK /\ stream \in Seq(Event)

(* A run has a container exactly while it is at its backup; there are no runs,
   events or updates but while borgd watches. *)
AtOne(r) == pc[r] \in {"self", "dependencies", "dependents", "exec", "read"}
RunFits(r) ==
  /\ Idle(r) => job[r] = NoJob
  /\ AtOne(r) <=> job[r].cur # Nil
ProcFits ==
  proc # "up" =>
    /\ stream = <<>> /\ update = "none" /\ task = "none"
    /\ \A r \in Run : Idle(r)
    /\ \A i \in Ids : downBy[i] = Nil
ControlOK == ProcFits /\ \A r \in Run : RunFits(r)

InPlan(p) == {p[k] : k \in DOMAIN p}
EntryIds == IF entry = Nil THEN {} ELSE InPlan(entry.plan)
Hands(r) == (InPlan(job[r].plan) \cup {job[r].cur} \cup job[r].todo) \ {Nil}

BornOK ==
  /\ \E n \in 0..MaxId : Created = 1..n
  /\ \A i \in Created : service[i] \in Service
  /\ \A k \in DOMAIN stream : stream[k].id \in Created
  /\ \A k \in DOMAIN stream : stream[k].ev = "destroy" => state[stream[k].id] = "gone"
KnownOK ==
  /\ \A s \in Service :
       containers[s] # Nil => containers[s] \in Created /\ service[containers[s]] = s
  /\ EntryIds \subseteq Created
  /\ \A r \in Run : Hands(r) \subseteq Created

(* What a run has stopped is in its map, and it still has to start it. *)
WakesOK ==
  \A i \in Ids, r \in Run :
    downBy[i] = r =>
      /\ ~Idle(r) /\ i \in Alive /\ i \in IdsIn(Map(r))
      /\ pc[r] = "restart" => i \in job[r].todo

Quiet(r, S) == \A i \in S : state[i] = "running" => i \in stirred[r]
ModeOf(r) == LabelOf(job[r].cur).mode
QuietAt(r) ==
  /\ pc[r] \in {"dependencies", "dependents", "exec"} => ModeOf(r) # "offline"
  /\ pc[r] = "dependents" => ModeOf(r) = "dependentOffline"
  /\ pc[r] = "dependents" /\ ~job[r].failed => Quiet(r, Dependents(r) \ job[r].todo)
  /\ pc[r] \in {"exec", "read"} /\ ModeOf(r) = "dependentOffline" =>
       Quiet(r, Dependents(r))
  /\ pc[r] = "read" /\ ModeOf(r) = "offline" => Quiet(r, {job[r].cur})
QuietOK == \A r \in Run : QuietAt(r)

(* What the worker has yet to take is said in update and task. *)
EntryOK ==
  /\ update = "dropped" => containers = Empty
  /\ update = "none" /\ task = "dropped" => containers = Empty
  /\ proc # "down" /\ update = "none" /\ task = "none" => entry \in Jobs(containers)

(* Of each service that was not missed the last creation or update in the stream,
   or, when there is none, the cache, has the newest container; if that is gone
   there is none, and its removal is still to come. *)
About(s) == {k \in DOMAIN stream : stream[k].ev # "destroy" /\ service[stream[k].id] = s}
NewestOf(s, i) == IF i \in Alive THEN \A j \in Of(s) : j <= i ELSE Of(s) = {}
Goes(i, n) == \E l \in DOMAIN stream : n < l /\ stream[l] = [ev |-> "destroy", id |-> i]
CachedAt(s) ==
  /\ NewestOf(s, containers[s])
  /\ containers[s] \notin Alive \cup {Nil} => Goes(containers[s], 0)
LastAt(s, k) ==
  /\ NewestOf(s, stream[k].id)
  /\ stream[k].id \notin Alive => Goes(stream[k].id, k)
CacheAt(s) ==
  /\ About(s) = {} => CachedAt(s)
  /\ \A k \in About(s) : (\A l \in About(s) : l <= k) => LastAt(s, k)
CacheOK == proc # "down" => \A s \in Service \ missed : CacheAt(s)

-----------------------------------------------------------------------------
(* Plans, maps and the stream *)

LEMMA NilIsNoId == Nil \notin Ids /\ Nil \notin Run /\ Ids \subseteq Nat
  BY BoundsAssumption, NilAssumption DEF Ids

(* A map has no more containers than there are services. *)
LEMMA IdsInFew ==
  ASSUME NEW m \in Maps
  PROVE  /\ IdsIn(m) \subseteq Ids
         /\ IsFiniteSet(IdsIn(m))
         /\ Cardinality(IdsIn(m)) \in 0..Cardinality(Service)
  <1> DEFINE T == {m[s] : s \in Service}
  <1>1. m \in [Service -> Ids \cup {Nil}]
    BY DEF Maps
  <1>2. m \in Surjection(Service, T)
    BY <1>1 DEF Surjection
  <1>3. IsFiniteSet(T) /\ Cardinality(T) <= Cardinality(Service)
    BY <1>2, BoundsAssumption, FS_Surjection
  <1>4. IdsIn(m) \in SUBSET T
    BY DEF IdsIn
  <1>5. IsFiniteSet(IdsIn(m)) /\ Cardinality(IdsIn(m)) <= Cardinality(T)
    BY <1>3, <1>4, FS_Subset
  <1>6. /\ Cardinality(IdsIn(m)) \in Nat /\ Cardinality(T) \in Nat
        /\ Cardinality(Service) \in Nat
    BY <1>3, <1>5, BoundsAssumption, FS_CardinalityType
  <1>7. IdsIn(m) \subseteq Ids
    BY <1>1 DEF IdsIn
  <1> QED
    BY <1>3, <1>5, <1>6, <1>7

LEMMA EmptyIsMap == Empty \in Maps /\ IdsIn(Empty) = {}
  BY DEF Empty, Maps, IdsIn

LEMMA PlanIsSeq ==
  ASSUME NEW p \in Plan
  PROVE  p \in Seq(Ids) /\ Len(p) \in 0..Cardinality(Service) /\ DOMAIN p = 1..Len(p)
  <1>1. PICK n \in 0..Cardinality(Service) : p \in [1..n -> Ids]
    BY DEF Plan
  <1>2. Cardinality(Service) \in Nat
    BY BoundsAssumption, FS_CardinalityType
  <1>3. n \in Nat
    BY <1>2
  <1>4. p \in Seq(Ids) /\ Len(p) = n
    BY <1>1, <1>3
  <1> QED
    BY <1>4, LenProperties

LEMMA SeqIsPlan ==
  ASSUME NEW p \in Seq(Ids), Len(p) <= Cardinality(Service)
  PROVE  p \in Plan
  <1>1. Cardinality(Service) \in Nat
    BY BoundsAssumption, FS_CardinalityType
  <1>2. Len(p) \in 0..Cardinality(Service) /\ p \in [1..Len(p) -> Ids]
    BY <1>1, LenProperties
  <1> QED
    BY <1>2 DEF Plan

LEMMA PlanOfNone == <<>> \in Plan /\ InPlan(<<>>) = {}
  <1>1. Cardinality(Service) \in Nat
    BY BoundsAssumption, FS_CardinalityType
  <1>2. <<>> \in Seq(Ids) /\ Len(<<>>) <= Cardinality(Service)
    BY <1>1
  <1>3. <<>> \in Plan
    BY ONLY <1>2, SeqIsPlan
  <1>4. InPlan(<<>>) = {}
    BY DEF InPlan
  <1> QED
    BY <1>3, <1>4

LEMMA PlanTail ==
  ASSUME NEW p \in Plan, p # <<>>
  PROVE  /\ Head(p) \in Ids /\ Tail(p) \in Plan
         /\ InPlan(p) = {Head(p)} \cup InPlan(Tail(p))
  <1>1. p \in Seq(Ids) /\ Len(p) \in 0..Cardinality(Service) /\ DOMAIN p = 1..Len(p)
    BY PlanIsSeq
  <1>2. /\ Head(p) \in Ids /\ Tail(p) \in Seq(Ids) /\ Len(Tail(p)) = Len(p) - 1
        /\ \A i \in 1..Len(Tail(p)) : Tail(p)[i] = p[i + 1]
    BY <1>1, HeadTailProperties
  <1>3. Len(p) \in Nat \ {0} /\ Head(p) = p[1]
    BY <1>1
  <1>4. Cardinality(Service) \in Nat
    BY BoundsAssumption, FS_CardinalityType
  <1>a. Len(Tail(p)) <= Cardinality(Service)
    BY <1>1, <1>2, <1>3, <1>4
  <1>5. Tail(p) \in Plan
    BY ONLY <1>2, <1>a, SeqIsPlan
  <1>6. DOMAIN Tail(p) = 1..Len(Tail(p))
    BY <1>2, LenProperties
  <1>7. InPlan(Tail(p)) = {p[i + 1] : i \in 1..(Len(p) - 1)}
    BY <1>2, <1>6 DEF InPlan
  <1>8. ASSUME NEW k \in 1..Len(p), k # 1
        PROVE  p[k] \in {p[i + 1] : i \in 1..(Len(p) - 1)}
    <2>1. k - 1 \in 1..(Len(p) - 1) /\ (k - 1) + 1 = k
      BY <1>3, <1>8
    <2> QED
      BY <2>1
  <1>9. ASSUME NEW k \in 1..(Len(p) - 1)
        PROVE  p[k + 1] \in InPlan(p)
    BY <1>1, <1>3 DEF InPlan
  <1>b. InPlan(p) = {p[k] : k \in 1..Len(p)}
    BY <1>1 DEF InPlan
  <1>c. p[1] \in InPlan(p)
    BY <1>b, <1>3
  <1>d. InPlan(p) \subseteq {p[1]} \cup InPlan(Tail(p))
    BY <1>b, <1>7, <1>8
  <1>e. InPlan(Tail(p)) \subseteq InPlan(p)
    BY <1>7, <1>9
  <1> QED
    BY <1>2, <1>3, <1>5, <1>c, <1>d, <1>e

LEMMA PlansArePlans ==
  ASSUME NEW m \in Maps, NEW S \in SUBSET IdsIn(m), NEW p \in Plans(S)
  PROVE  p \in Plan /\ InPlan(p) \subseteq S
  <1>1. /\ IdsIn(m) \subseteq Ids /\ IsFiniteSet(IdsIn(m))
        /\ Cardinality(IdsIn(m)) \in 0..Cardinality(Service)
    BY IdsInFew
  <1>2. IsFiniteSet(S) /\ Cardinality(S) <= Cardinality(IdsIn(m))
    BY <1>1, FS_Subset
  <1>3. Cardinality(S) \in Nat /\ Cardinality(Service) \in Nat
    BY <1>2, BoundsAssumption, FS_CardinalityType
  <1>4. p \in [1..Cardinality(S) -> S]
    BY DEF Plans
  <1>5. p \in [1..Cardinality(S) -> Ids] /\ Cardinality(S) \in 0..Cardinality(Service)
    BY <1>1, <1>2, <1>3, <1>4
  <1>6. InPlan(p) \subseteq S
    BY <1>4 DEF InPlan
  <1> QED
    BY <1>5, <1>6 DEF Plan

Entries == [plan : Plan, live : BOOLEAN]

LEMMA JobsAreEntries ==
  ASSUME NEW m \in Maps, NEW e \in Jobs(m), e # Nil
  PROVE  e \in Entries /\ e.live = TRUE /\ InPlan(e.plan) \subseteq IdsIn(m)
  <1> DEFINE S == {i \in IdsIn(m) : NeedsBackup(i)}
  <1>1. e \in [plan : Plans(S), live : {TRUE}]
    BY DEF Jobs
  <1>2. S \in SUBSET IdsIn(m)
    OBVIOUS
  <1>3. e.plan \in Plans(S) /\ e.live = TRUE /\ e = [plan |-> e.plan, live |-> TRUE]
    BY <1>1
  <1> HIDE DEF S
  <1>4. e.plan \in Plan /\ InPlan(e.plan) \subseteq S
    BY <1>2, <1>3, PlansArePlans
  <1> QED
    BY <1>2, <1>3, <1>4 DEF Entries

LEMMA OfAppend ==
  ASSUME NEW s \in Seq(Event), NEW e \in Event
  PROVE  LET t == Append(s, e)  n == Len(s) + 1
         IN  /\ t \in Seq(Event) /\ DOMAIN t = DOMAIN s \cup {n} /\ t[n] = e
             /\ n \in Nat /\ n \notin DOMAIN s
             /\ \A k \in DOMAIN s : t[k] = s[k] /\ k \in Nat /\ 0 < k /\ k < n
  <1>1. /\ Append(s, e) \in Seq(Event) /\ Len(Append(s, e)) = Len(s) + 1
        /\ \A k \in 1..Len(s) : Append(s, e)[k] = s[k]
        /\ Append(s, e)[Len(s) + 1] = e
    BY AppendProperties
  <1>2. /\ DOMAIN s = 1..Len(s) /\ Len(s) \in Nat
        /\ DOMAIN Append(s, e) = 1..Len(Append(s, e))
    BY <1>1, LenProperties
  <1>3. 1..(Len(s) + 1) = (1..Len(s)) \cup {Len(s) + 1}
    BY <1>2
  <1>4. Len(s) + 1 \in Nat /\ Len(s) + 1 \notin 1..Len(s)
    BY <1>2
  <1>5. \A k \in 1..Len(s) : k \in Nat /\ 0 < k /\ k < Len(s) + 1
    BY <1>2
  <1> QED
    BY <1>1, <1>2, <1>3, <1>4, <1>5

LEMMA OfTail ==
  ASSUME NEW s \in Seq(Event), s # <<>>
  PROVE  /\ s[1] = Head(s) /\ 1 \in DOMAIN s /\ Head(s) \in Event
         /\ Tail(s) \in Seq(Event)
         /\ \A k \in DOMAIN Tail(s) :
              k \in Nat /\ 0 < k /\ k + 1 \in DOMAIN s /\ Tail(s)[k] = s[k + 1]
         /\ \A k \in DOMAIN s :
              k \in Nat /\ (k # 1 => k - 1 \in DOMAIN Tail(s) /\ Tail(s)[k - 1] = s[k])
  <1> DEFINE t == Tail(s)
  <1>1. /\ Head(s) \in Event /\ t \in Seq(Event) /\ Len(t) = Len(s) - 1
        /\ \A k \in 1..Len(t) : t[k] = s[k + 1]
    BY HeadTailProperties
  <1>2. DOMAIN s = 1..Len(s) /\ DOMAIN t = 1..Len(t) /\ Len(s) \in Nat \ {0}
    BY <1>1, LenProperties, EmptySeq
  <1>3. Head(s) = s[1] /\ 1 \in DOMAIN s
    BY <1>2
  <1> HIDE DEF t
  <1>4. \A k \in DOMAIN t : k \in Nat /\ 0 < k /\ k + 1 \in DOMAIN s /\ t[k] = s[k + 1]
    BY <1>1, <1>2
  <1>5. ASSUME NEW k \in DOMAIN s, k # 1
        PROVE  k - 1 \in DOMAIN t /\ t[k - 1] = s[k]
    <2>1. k - 1 \in 1..Len(t) /\ (k - 1) + 1 = k
      BY <1>1, <1>2, <1>5
    <2> QED
      BY <1>1, <1>2, <2>1
  <1>6. \A k \in DOMAIN s : k \in Nat
    BY <1>2
  <1> QED
    BY <1>1, <1>3, <1>4, <1>5, <1>6 DEF t

-----------------------------------------------------------------------------
(* Types *)

States == {"unborn", "exited", "running", "gone"}
Phases == {"idle", "next", "self", "dependencies", "dependents",
           "exec", "read", "range", "restart"}
Shape == StateTyped /\ ControlOK /\ BornOK /\ KnownOK

(* borgd ends, of itself or killed, and leaves only what the engine has; at most
   it has started one more container. *)
Ends ==
  /\ Dies /\ UNCHANGED <<labels, service>>
  /\ \/ state' = state
     \/ \E i \in Alive : state' = [state EXCEPT ![i] = "running"]

LEMMA LabelIs ==
  ASSUME TypeOK, NEW i \in Ids, service[i] \in Service
  PROVE  LabelOf(i) \in Label
  BY LabelsAssumption DEF TypeOK, LabelOf

LEMMA NoJobTyped == NoJob \in Job
  <1>1. Cardinality(Service) \in Nat
    BY BoundsAssumption, FS_CardinalityType
  <1> QED
    BY <1>1, PlanOfNone DEF NoJob, Job

(* A run that is at a container has one that exists, with a label. *)
LEMMA CurIs ==
  ASSUME Shape, NEW r \in Run, AtOne(r)
  PROVE  /\ job[r].cur \in Ids /\ job[r].cur \in Hands(r)
         /\ job[r].cur \in Created /\ service[job[r].cur] \in Service
         /\ LabelOf(job[r].cur) \in Label
  <1>1. job[r].cur \in Ids
    BY DEF Shape, StateTyped, TypeOK, Job, ControlOK, RunFits
  <1>2. job[r].cur \in Hands(r)
    BY <1>1, NilIsNoId DEF Hands
  <1>3. job[r].cur \in Created
    BY <1>2 DEF Shape, KnownOK
  <1> QED
    BY <1>1, <1>2, <1>3, LabelIs DEF Shape, StateTyped, BornOK

LEMMA MapIs ==
  ASSUME StateTyped, NEW r \in Run
  PROVE  /\ Map(r) \in Maps
         /\ IdsIn(Map(r)) \subseteq Ids
         /\ IdsIn(Map(r)) \subseteq IdsIn(containers)
         /\ ~job[r].live => IdsIn(Map(r)) = {}
         /\ Cardinality(IdsIn(Map(r))) \in 0..Cardinality(Service)
  <1>1. Map(r) \in Maps
    BY EmptyIsMap DEF StateTyped, TypeOK, Map
  <1> QED
    BY <1>1, IdsInFew, EmptyIsMap DEF Map

LEMMA EnsureIs ==
  ASSUME StateTyped, NEW r \in Run, NEW i, NEW want \in {"exited", "running"},
         NEW ok \in BOOLEAN, Ensure(r, i, want, ok)
  PROVE  /\ state' \in [Ids -> States]
         /\ downBy' \in [Ids -> Run \cup {Nil}]
         /\ stirred' \in [Run -> SUBSET Ids]
         /\ \A j \in Ids : j # i => state'[j] = state[j] /\ downBy'[j] = downBy[j]
         /\ i \notin Alive => ~ok /\ UNCHANGED <<state, downBy, stirred>>
         /\ i \in Alive =>
              /\ state'[i] \in {want, state[i]}
              /\ ok => state'[i] = want
              /\ \/ downBy'[i] \in {Nil, downBy[i]}
                 \/ downBy'[i] = r /\ i \in IdsIn(Map(r))
              /\ want = "running" /\ pc[r] = "restart" => downBy'[i] = Nil
              /\ state'[i] = "running" /\ state[i] # "running" =>
                   \A q \in Run \ {r} : job[q].cur # Nil => i \in stirred'[q]
         /\ stirred'[r] = stirred[r]
         /\ \A q \in Run : stirred[q] \subseteq stirred'[q]
  <1>1. CASE i \notin Alive
    BY <1>1 DEF Ensure, StateTyped, TypeOK, States
  <1>2. CASE i \in Alive
    <2> DEFINE down(s) == IF s = "exited" /\ state[i] = "running"
                          THEN IF i \in IdsIn(Map(r)) THEN r ELSE Nil
                          ELSE IF s = "running" \/ pc[r] = "restart" THEN Nil ELSE downBy[i]
    <2>1. i \in Ids /\ state[i] \in {"exited", "running"}
      BY <1>2 DEF Alive
    <2>2. PICK s \in {want, state[i]} :
            /\ ok => s = want
            /\ state' = [state EXCEPT ![i] = s]
            /\ downBy' = [downBy EXCEPT ![i] = down(s)]
            /\ Stir(IF s = "running" /\ state[i] # s THEN {i} ELSE {}, Run \ {r})
      BY <1>2, <2>1 DEF Ensure, StateTyped, TypeOK
    <2>3. s \in {"exited", "running"}
      BY <2>1
    <2>4. down(s) \in Run \cup {Nil}
      BY <2>1 DEF StateTyped, TypeOK
    <2>5. \/ down(s) \in {Nil, downBy[i]}
          \/ down(s) = r /\ i \in IdsIn(Map(r))
      OBVIOUS
    <2>6. want = "running" /\ pc[r] = "restart" => down(s) = Nil
      BY <2>2
    <2> HIDE DEF down
    <2>7. /\ state' \in [Ids -> States] /\ downBy' \in [Ids -> Run \cup {Nil}]
          /\ state'[i] = s /\ downBy'[i] = down(s)
          /\ \A j \in Ids : j # i => state'[j] = state[j] /\ downBy'[j] = downBy[j]
      BY <2>1, <2>2, <2>3, <2>4 DEF StateTyped, TypeOK, States
    <2>8. /\ stirred' \in [Run -> SUBSET Ids]
          /\ stirred'[r] = stirred[r]
          /\ \A q \in Run : stirred[q] \subseteq stirred'[q]
          /\ s = "running" /\ state[i] # "running" =>
               \A q \in Run \ {r} : job[q].cur # Nil => i \in stirred'[q]
      BY <2>1, <2>2 DEF Stir, StateTyped, TypeOK
    <2> QED
      BY <1>2, <2>2, <2>5, <2>6, <2>7, <2>8
  <1> QED
    BY <1>1, <1>2

(* A call of EnsureContainerRunning or EnsureContainerStopped brings nothing to
   life and removes nothing. *)
LEMMA EnsureKeeps ==
  ASSUME StateTyped, NEW r \in Run, NEW i, NEW want \in {"exited", "running"},
         NEW ok \in BOOLEAN, Ensure(r, i, want, ok)
  PROVE  \A j \in Ids :
           /\ state'[j] \in {"exited", "running"} <=> state[j] \in {"exited", "running"}
           /\ state'[j] = "unborn" <=> state[j] = "unborn"
           /\ state'[j] = "gone" <=> state[j] = "gone"
  <1>1. /\ \A j \in Ids : j # i => state'[j] = state[j]
        /\ i \in Alive => state'[i] \in {want, state[i]}
        /\ i \notin Alive => UNCHANGED state
    BY EnsureIs
  <1>2. i \in Alive =>
          state[i] \in {"exited", "running"} /\ state'[i] \in {"exited", "running"}
    BY <1>1 DEF Alive
  <1> QED
    BY <1>1, <1>2

-----------------------------------------------------------------------------
(* The steps of a run *)

At == {"self", "dependencies", "dependents", "exec", "read"}

(* Where a run may go, with what in its hands. *)
Fit(r, phase, j) ==
  /\ phase \in Phases /\ j \in Job
  /\ phase = "idle" => j = NoJob
  /\ phase \in At <=> j.cur # Nil
  /\ InPlan(j.plan) \subseteq InPlan(job[r].plan)
  /\ j.cur \in {Nil, job[r].cur} \cup InPlan(job[r].plan)
  /\ j.todo \subseteq job[r].todo \cup IdsIn(Map(r)) \cup {Nil}
  /\ j.live = job[r].live \/ j = NoJob
Turns(r) == \E phase \in Phases, j \in Job : Goto(r, phase, j) /\ Fit(r, phase, j)

LEMMA JobIs ==
  ASSUME StateTyped, NEW r \in Run
  PROVE  /\ job[r] \in Job /\ pc[r] \in Phases
         /\ InPlan(job[r].plan) \subseteq Ids
  <1>1. job[r] \in Job /\ pc[r] \in Phases
    BY DEF StateTyped, TypeOK, Phases
  <1>2. job[r].plan \in Plan
    BY <1>1 DEF Job
  <1>3. \A k \in DOMAIN job[r].plan : job[r].plan[k] \in Ids
    BY <1>2, PlanIsSeq, ElementOfSeq
  <1> QED
    BY <1>1, <1>3 DEF InPlan

LEMMA NoJobIs ==
  ASSUME NEW r \in Run
  PROVE  Fit(r, "idle", NoJob)
  BY NoJobTyped, PlanOfNone DEF Fit, NoJob, At, Phases

LEMMA AgainFits ==
  ASSUME StateTyped, NEW r \in Run
  PROVE  Fit(r, "next", Again(r))
  <1>1. job[r] \in Job
    BY JobIs
  <1>2. /\ Again(r) \in Job /\ Again(r).cur = Nil /\ Again(r).todo = {}
        /\ Again(r).plan = job[r].plan /\ Again(r).live = job[r].live
    BY <1>1 DEF Again, Job
  <1> QED
    BY <1>2 DEF Fit, At, Phases

LEMMA SameFits ==
  ASSUME StateTyped, NEW r \in Run, AtOne(r), ControlOK, NEW phase \in At
  PROVE  Fit(r, phase, job[r])
  <1>1. job[r] \in Job /\ job[r].cur # Nil
    BY JobIs DEF ControlOK, RunFits
  <1> QED
    BY <1>1 DEF Fit, At, Phases

LEMMA GiveUpTurns ==
  ASSUME StateTyped, NEW r \in Run, GiveUp(r)
  PROVE  Turns(r)
  BY AgainFits DEF GiveUp, Turns, Fit

LEMMA ProceedTurns ==
  ASSUME StateTyped, NEW r \in Run, AtOne(r), ControlOK, Proceed(r)
  PROVE  Turns(r)
  <1>1. PICK phase \in {"exec", "read"} : Goto(r, phase, job[r])
    BY DEF Proceed
  <1> QED
    BY <1>1, SameFits DEF Turns, Fit, At

LEMMA PickTurns ==
  ASSUME StateTyped, NEW r \in Run, Pick(r)
  PROVE  Turns(r)
  <1> DEFINE j == [job[r] EXCEPT !.cur = Head(job[r].plan), !.plan = Tail(@)]
  <1>1. job[r] \in Job /\ job[r].plan \in Plan /\ job[r].plan # <<>>
    BY JobIs DEF Pick, Job
  <1>2. /\ Head(job[r].plan) \in Ids /\ Tail(job[r].plan) \in Plan
        /\ InPlan(job[r].plan) = {Head(job[r].plan)} \cup InPlan(Tail(job[r].plan))
    BY <1>1, PlanTail
  <1>3. /\ j \in Job /\ j.cur = Head(job[r].plan) /\ j.plan = Tail(job[r].plan)
        /\ j.todo = job[r].todo /\ j.live = job[r].live
    BY <1>1, <1>2 DEF Job
  <1>4. Goto(r, "self", j)
    BY DEF Pick
  <1> HIDE DEF j
  <1>5. Fit(r, "self", j)
    BY <1>2, <1>3, NilIsNoId DEF Fit, At, Phases
  <1> QED
    BY <1>4, <1>5 DEF Turns, Fit

LEMMA GroupTurns ==
  ASSUME StateTyped, NEW r \in Run, ControlOK, NEW phase \in {"dependencies", "dependents"},
         NEW want, Group(r, phase, want)
  PROVE  Turns(r)
  <1>1. PICK i \in job[r].todo, ok \in BOOLEAN :
          Goto(r, phase, [job[r] EXCEPT !.todo = @ \ {i}, !.failed = @ \/ ~ok])
    BY DEF Group
  <1> DEFINE j == [job[r] EXCEPT !.todo = @ \ {i}, !.failed = @ \/ ~ok]
  <1>2. job[r] \in Job /\ job[r].cur # Nil
    BY JobIs DEF Group, ControlOK, RunFits, AtOne
  <1>3. /\ j \in Job /\ j.cur = job[r].cur /\ j.plan = job[r].plan
        /\ j.todo \subseteq job[r].todo /\ j.live = job[r].live
    BY <1>2 DEF Job
  <1> HIDE DEF j
  <1>4. Fit(r, phase, j)
    BY <1>2, <1>3 DEF Fit, At, Phases
  <1>5. Goto(r, phase, j)
    BY <1>1 DEF j
  <1> QED
    BY <1>4, <1>5 DEF Turns, Fit

(* A run takes what it has to start or stop from its map. *)
LEMMA TakesFits ==
  ASSUME StateTyped, NEW r \in Run, AtOne(r), ControlOK, NEW phase \in At,
         NEW S \in SUBSET (IdsIn(Map(r)) \cup {Nil})
  PROVE  Fit(r, phase, [job[r] EXCEPT !.todo = S])
  <1> DEFINE j == [job[r] EXCEPT !.todo = S]
  <1>1. job[r] \in Job /\ job[r].cur # Nil /\ S \subseteq Ids \cup {Nil}
    BY JobIs, MapIs DEF ControlOK, RunFits
  <1>2. /\ j \in Job /\ j.cur = job[r].cur /\ j.plan = job[r].plan
        /\ j.todo = S /\ j.live = job[r].live
    BY <1>1 DEF Job
  <1> HIDE DEF j
  <1>3. Fit(r, phase, j)
    BY <1>1, <1>2 DEF Fit, At, Phases
  <1> QED
    BY <1>3 DEF j

LEMMA EnsureSelfTurns ==
  ASSUME Shape, NEW r \in Run, EnsureSelf(r)
  PROVE  Turns(r)
  <1> USE DEF Shape
  <1>1. AtOne(r) /\ pc[r] = "self"
    BY DEF EnsureSelf, AtOne
  <1>2. \/ GiveUp(r) \/ Goto(r, "read", job[r])
        \/ Goto(r, "dependencies", [job[r] EXCEPT !.todo = Dependencies(r)])
    BY DEF EnsureSelf
  <1>3. LabelOf(job[r].cur) \in Label
    BY <1>1, CurIs
  <1>4. LabelOf(job[r].cur).deps \subseteq Service
    BY <1>3 DEF Label
  <1>5. Dependencies(r) \in SUBSET (IdsIn(Map(r)) \cup {Nil})
    BY <1>4 DEF Dependencies, IdsIn
  <1>6. CASE GiveUp(r)
    BY <1>6, GiveUpTurns
  <1>7. CASE Goto(r, "read", job[r])
    BY <1>1, <1>7, SameFits DEF Turns, Fit, At
  <1>8. CASE Goto(r, "dependencies", [job[r] EXCEPT !.todo = Dependencies(r)])
    <2>1. Fit(r, "dependencies", [job[r] EXCEPT !.todo = Dependencies(r)])
      BY <1>1, <1>5, TakesFits DEF At
    <2> QED
      BY <1>8, <2>1 DEF Turns, Fit
  <1> QED
    BY <1>2, <1>6, <1>7, <1>8

LEMMA DependenciesDoneTurns ==
  ASSUME StateTyped, ControlOK, NEW r \in Run, DependenciesDone(r)
  PROVE  Turns(r)
  <1>1. AtOne(r)
    BY DEF DependenciesDone, AtOne
  <1>2. \/ GiveUp(r) \/ Proceed(r)
        \/ Goto(r, "dependents", [job[r] EXCEPT !.todo = Dependents(r)])
    BY DEF DependenciesDone
  <1>3. CASE Goto(r, "dependents", [job[r] EXCEPT !.todo = Dependents(r)])
    <2>1. Dependents(r) \in SUBSET (IdsIn(Map(r)) \cup {Nil})
      BY DEF Dependents
    <2>2. Fit(r, "dependents", [job[r] EXCEPT !.todo = Dependents(r)])
      BY <1>1, <2>1, TakesFits DEF At
    <2> QED
      BY <1>3, <2>2 DEF Turns, Fit
  <1> QED
    BY <1>1, <1>2, <1>3, GiveUpTurns, ProceedTurns

LEMMA ReadingTurns ==
  ASSUME StateTyped, ControlOK, NEW r \in Run,
         DependentsDone(r) \/ Exec(r) \/ ReadDone(r)
  PROVE  Turns(r)
  <1>1. AtOne(r)
    BY DEF DependentsDone, Exec, ReadDone, AtOne
  <1>2. GiveUp(r) \/ Proceed(r) \/ Goto(r, "read", job[r])
    BY DEF DependentsDone, Exec, ReadDone
  <1>3. CASE Goto(r, "read", job[r])
    BY <1>1, <1>3, SameFits DEF Turns, Fit, At
  <1> QED
    BY <1>1, <1>2, <1>3, GiveUpTurns, ProceedTurns

LEMMA RestartingTurns ==
  ASSUME StateTyped, ControlOK, NEW r \in Run,
         Count(r) \/ RangeOver(r) \/ End(r)
  PROVE  Turns(r)
  <1>1. job[r] \in Job /\ Cardinality(IdsIn(Map(r))) \in 0..Cardinality(Service)
    BY JobIs, MapIs
  <1>2. Cardinality(Service) \in Nat
    BY BoundsAssumption, FS_CardinalityType
  <1>3. CASE Count(r)
    <2> DEFINE j == [job[r] EXCEPT !.wg = Cardinality(IdsIn(Map(r)))]
    <2>1. job[r].cur = Nil
      BY <1>3 DEF Count, ControlOK, RunFits, AtOne
    <2>2. /\ j \in Job /\ j.cur = Nil /\ j.plan = job[r].plan
          /\ j.todo = job[r].todo /\ j.live = job[r].live
      BY <1>1, <2>1 DEF Job
    <2>3. Goto(r, "range", j)
      BY <1>3 DEF Count
    <2> HIDE DEF j
    <2>4. Fit(r, "range", j)
      BY <2>2 DEF Fit, At, Phases
    <2> QED
      BY <2>3, <2>4 DEF Turns, Fit
  <1>4. CASE RangeOver(r)
    <2> DEFINE n == Cardinality(IdsIn(Map(r)))
               wg == job[r].wg
               j == [job[r] EXCEPT !.todo = ToRestart(r), !.short = IF n < wg THEN wg - n ELSE 0]
    <2>1. job[r].cur = Nil
      BY <1>4 DEF RangeOver, ControlOK, RunFits, AtOne
    <2>2. Goto(r, "restart", j)
      BY <1>4 DEF RangeOver
    <2>3. (IF n < wg THEN wg - n ELSE 0) \in 0..Cardinality(Service)
      BY <1>1, <1>2 DEF Job
    <2>4. ToRestart(r) = IdsIn(Map(r)) /\ IdsIn(Map(r)) \subseteq Ids
      BY MapIs DEF ToRestart
    <2>5. /\ j \in Job /\ j.cur = Nil /\ j.plan = job[r].plan
          /\ j.todo = IdsIn(Map(r)) /\ j.live = job[r].live
      BY <1>1, <2>1, <2>3, <2>4 DEF Job
    <2> HIDE DEF j
    <2>6. Fit(r, "restart", j)
      BY <2>5 DEF Fit, At, Phases
    <2> QED
      BY <2>2, <2>6 DEF Turns, Fit
  <1>5. CASE End(r)
    <2> DEFINE j == [job[r] EXCEPT !.own = FALSE]
    <2>1. pc[r] = "restart" /\ job[r].cur = Nil
      BY <1>5 DEF End, ControlOK, RunFits, AtOne
    <2>2. Goto(r, "idle", NoJob) \/ Goto(r, "restart", j)
      BY <1>5 DEF End
    <2>3. /\ j \in Job /\ j.cur = Nil /\ j.plan = job[r].plan
          /\ j.todo = job[r].todo /\ j.live = job[r].live
      BY <1>1, <2>1 DEF Job
    <2> HIDE DEF j
    <2>4. Fit(r, "restart", j)
      BY <2>3 DEF Fit, At, Phases
    <2> QED
      BY <2>2, <2>4, NoJobIs DEF Turns, Fit
  <1> QED
    BY <1>3, <1>4, <1>5

LEMMA RestartTurns ==
  ASSUME StateTyped, ControlOK, NEW r \in Run, Restart(r)
  PROVE  Turns(r) \/ Ends
  <1>1. ASSUME NEW i, Dies, UNCHANGED <<labels, service>>,
               state' = state \/ (i \in Alive /\ state' = [state EXCEPT ![i] = "running"])
        PROVE  Ends
    BY <1>1 DEF Ends
  <1>2. ASSUME NEW i \in job[r].todo, NEW ok \in BOOLEAN, job[r].wg > 0,
               Goto(r, "restart", [job[r] EXCEPT !.todo = @ \ {i}, !.wg = CountedDown(r, ok)])
        PROVE  Turns(r)
    <2> DEFINE j == [job[r] EXCEPT !.todo = @ \ {i}, !.wg = CountedDown(r, ok)]
    <2>1. job[r] \in Job
      BY JobIs
    <2>2. job[r].cur = Nil
      BY DEF Restart, ControlOK, RunFits, AtOne
    <2>3. CountedDown(r, ok) \in 0..Cardinality(Service)
      <3>1. Cardinality(Service) \in Nat
        BY BoundsAssumption, FS_CardinalityType
      <3> QED
        BY <1>2, <2>1, <3>1 DEF CountedDown, Job
    <2>4. /\ j \in Job /\ j.cur = Nil /\ j.plan = job[r].plan
          /\ j.todo \subseteq job[r].todo /\ j.live = job[r].live
      BY <2>1, <2>2, <2>3 DEF Job
    <2> HIDE DEF j
    <2>5. Fit(r, "restart", j)
      BY <2>4 DEF Fit, At, Phases
    <2>6. Goto(r, "restart", j)
      BY <1>2 DEF j
    <2> QED
      BY <2>5, <2>6 DEF Turns, Fit
  <1> QED
    BY <1>1, <1>2 DEF Restart

(* What a run does to the engine and to the observer's variables. *)
Works(r) ==
  /\ UNCHANGED <<labels, service, stream, worker, missed>>
  /\ state' \in [Ids -> States] /\ downBy' \in [Ids -> Run \cup {Nil}]
  /\ stirred' \in [Run -> SUBSET Ids]
  /\ \A i \in Ids :
       /\ state'[i] \in {"exited", "running"} <=> state[i] \in {"exited", "running"}
       /\ state'[i] = "unborn" <=> state[i] = "unborn"
       /\ state'[i] = "gone" <=> state[i] = "gone"
  /\ \A i \in Ids :
       \/ downBy'[i] \in {Nil, downBy[i]}
       \/ downBy'[i] = r /\ i \in Alive /\ i \in IdsIn(Map(r))

LEMMA EnsureWorks ==
  ASSUME StateTyped, NEW r \in Run, NEW i \in {job[r].cur} \cup job[r].todo,
         NEW want \in {"exited", "running"}, NEW ok \in BOOLEAN,
         Ensure(r, i, want, ok), Running
  PROVE  Works(r)
  <1>1. /\ state' \in [Ids -> States] /\ downBy' \in [Ids -> Run \cup {Nil}]
        /\ stirred' \in [Run -> SUBSET Ids]
    BY EnsureIs
  <1>2. \A j \in Ids : j # i => downBy'[j] = downBy[j]
    BY DEF Ensure, StateTyped, TypeOK
  <1>3. i \notin Alive => UNCHANGED downBy
    BY EnsureIs
  <1>7. i \in Alive => \/ downBy'[i] \in {Nil, downBy[i]}
                       \/ downBy'[i] = r /\ i \in IdsIn(Map(r))
    BY EnsureIs
  <1>4. \A j \in Ids :
          \/ downBy'[j] \in {Nil, downBy[j]}
          \/ downBy'[j] = r /\ j \in Alive /\ j \in IdsIn(Map(r))
    BY <1>2, <1>3, <1>7
  <1>5. \A j \in Ids :
          /\ state'[j] \in {"exited", "running"} <=> state[j] \in {"exited", "running"}
          /\ state'[j] = "unborn" <=> state[j] = "unborn"
          /\ state'[j] = "gone" <=> state[j] = "gone"
    BY EnsureKeeps
  <1>6. UNCHANGED <<labels, service, stream, worker, missed>>
    BY DEF Running
  <1> QED
    BY <1>1, <1>4, <1>5, <1>6 DEF Works

LEMMA DecidingWorks ==
  ASSUME StateTyped, NEW r \in Run,
         \/ Deciding
         \/ /\ stirred' = [stirred EXCEPT ![r] = {}]
            /\ UNCHANGED <<labels, engine, worker, downBy, missed>>
  PROVE  Works(r)
  <1>1. UNCHANGED <<labels, state, service, stream, worker, downBy, missed>>
    BY DEF Deciding, engine, seen
  <1>2. stirred' \in [Run -> SUBSET Ids]
    BY DEF Deciding, seen, StateTyped, TypeOK
  <1>3. state' = state /\ downBy' = downBy
    BY <1>1
  <1>4. state \in [Ids -> States] /\ downBy \in [Ids -> Run \cup {Nil}]
    BY DEF StateTyped, TypeOK, States
  <1>5. UNCHANGED <<labels, service, stream, worker, missed>>
    BY <1>1
  <1> QED
    BY <1>2, <1>3, <1>4, <1>5 DEF Works

LEMMA StepForms ==
  ASSUME Shape, NEW r \in Run, Step(r)
  PROVE  (Turns(r) /\ Works(r)) \/ Ends
  <1> USE DEF Shape
  <1>1. CASE Pick(r)
    BY <1>1, PickTurns, DecidingWorks DEF Pick
  <1>2. CASE EnsureSelf(r)
    <2>1. PICK ok \in BOOLEAN, want \in {"exited", "running"} :
            Ensure(r, job[r].cur, want, ok)
      BY <1>2 DEF EnsureSelf
    <2>2. Running
      BY <1>2 DEF EnsureSelf
    <2>3. Works(r)
      BY <2>1, <2>2, EnsureWorks
    <2> QED
      BY <1>2, <2>3, EnsureSelfTurns
  <1>3. ASSUME NEW phase \in {"dependencies", "dependents"},
               NEW want \in {"exited", "running"}, Group(r, phase, want)
        PROVE  Turns(r) /\ Works(r)
    <2>1. PICK i \in job[r].todo, ok \in BOOLEAN : Ensure(r, i, want, ok)
      BY <1>3 DEF Group
    <2>2. Running
      BY <1>3 DEF Group
    <2>3. Works(r)
      BY <2>1, <2>2, EnsureWorks
    <2> QED
      BY <1>3, <2>3, GroupTurns
  <1>4. CASE DependenciesDone(r)
    BY <1>4, DependenciesDoneTurns, DecidingWorks DEF DependenciesDone
  <1>5. CASE DependentsDone(r) \/ Exec(r) \/ ReadDone(r)
    <2>1. Deciding
      BY <1>5 DEF DependentsDone, Exec, ReadDone
    <2> QED
      BY <1>5, <2>1, ReadingTurns, DecidingWorks
  <1>6. CASE Count(r)
    BY <1>6, RestartingTurns, DecidingWorks DEF Count
  <1>7. CASE RangeOver(r)
    BY <1>7, RestartingTurns, DecidingWorks DEF RangeOver
  <1>8. CASE End(r)
    BY <1>8, RestartingTurns, DecidingWorks DEF End
  <1>9. CASE Restart(r)
    <2>1. ASSUME NEW i, Dies, UNCHANGED <<labels, service>>,
                 state' = state \/ (i \in Alive /\ state' = [state EXCEPT ![i] = "running"])
          PROVE  Ends
      BY <2>1 DEF Ends
    <2>2. ASSUME NEW i \in job[r].todo, NEW ok \in BOOLEAN,
                 Ensure(r, i, "running", ok), Running
          PROVE  Works(r)
      BY <2>2, EnsureWorks
    <2> QED
      BY <1>9, <2>1, <2>2, RestartTurns DEF Restart
  <1> QED
    BY <1>1, <1>2, <1>3, <1>4, <1>5, <1>6, <1>7, <1>8, <1>9 DEF Step

(* The runs that do not take the step keep what they have, and the one that does
   takes nothing but from its own plan and map. *)
LEMMA TurnIs ==
  ASSUME StateTyped, NEW r \in Run, Turns(r), Works(r)
  PROVE  /\ pc' \in [Run -> Phases] /\ job' \in [Run -> Job]
         /\ \A q \in Run : q # r => pc'[q] = pc[q] /\ job'[q] = job[q]
         /\ pc'[r] = "idle" => job'[r] = NoJob
         /\ pc'[r] \in At <=> job'[r].cur # Nil
         /\ job'[r].live = job[r].live \/ job'[r] = NoJob
         /\ Hands(r)' \subseteq Hands(r) \cup IdsIn(Map(r))
         /\ \A q \in Run : q # r => Hands(q)' = Hands(q)
  <1>1. PICK phase \in Phases, j \in Job : Goto(r, phase, j) /\ Fit(r, phase, j)
    BY DEF Turns
  <1>2. /\ pc' \in [Run -> Phases] /\ job' \in [Run -> Job]
        /\ pc'[r] = phase /\ job'[r] = j
        /\ \A q \in Run : q # r => pc'[q] = pc[q] /\ job'[q] = job[q]
    BY <1>1 DEF Goto, StateTyped, TypeOK, Phases
  <1>3. /\ InPlan(job'[r].plan) \subseteq InPlan(job[r].plan)
        /\ job'[r].cur \in {Nil, job[r].cur} \cup InPlan(job[r].plan)
        /\ job'[r].todo \subseteq job[r].todo \cup IdsIn(Map(r)) \cup {Nil}
    BY <1>1, <1>2 DEF Fit
  <1>4. Hands(r)' \subseteq Hands(r) \cup IdsIn(Map(r))
    BY <1>3 DEF Hands
  <1>5. \A q \in Run : q # r => Hands(q)' = Hands(q)
    BY <1>2 DEF Hands
  <1> QED
    BY <1>1, <1>2, <1>4, <1>5 DEF Fit

LEMMA WorksKeeps ==
  ASSUME NEW r \in Run, Works(r)
  PROVE  /\ Alive' = Alive /\ Created' = Created
         /\ \A s \in Service : Of(s)' = Of(s)
         /\ IdsIn(containers)' = IdsIn(containers)
         /\ \A m \in Maps : (\A i \in IdsIn(m) : LabelOf(i)' = LabelOf(i))
         /\ EntryIds' = EntryIds
  <1>1. Alive' = Alive /\ Created' = Created
    BY DEF Works, Alive, Created
  <1>2. stream' = stream /\ service' = service /\ labels' = labels
    BY DEF Works
  <1>4. containers' = containers /\ entry' = entry
    BY DEF Works, worker
  <1> QED
    BY <1>1, <1>2, <1>4 DEF Of, IdsIn, LabelOf, EntryIds

LEMMA RunUp ==
  ASSUME ControlOK, NEW r \in Run, Step(r)
  PROVE  proc = "up" /\ ~Idle(r)
  <1>1. ~Idle(r)
    BY DEF Step, Pick, EnsureSelf, Group, DependenciesDone, DependentsDone, Exec,
           ReadDone, Count, RangeOver, Restart, End, Idle
  <1> QED
    BY <1>1 DEF ControlOK, ProcFits

LEMMA RunStepShape ==
  ASSUME Shape, NEW r \in Run, Step(r), Turns(r), Works(r)
  PROVE  Shape'
  <1> USE DEF Shape
  <1>1. StateTyped'
    <2>1. /\ pc' \in [Run -> Phases] /\ job' \in [Run -> Job]
      BY TurnIs
    <2>2. UNCHANGED <<labels, service, stream, worker, missed>>
      BY DEF Works
    <2>3. /\ state' \in [Ids -> States] /\ downBy' \in [Ids -> Run \cup {Nil}]
          /\ stirred' \in [Run -> SUBSET Ids]
      BY DEF Works
    <2> QED
      BY <2>1, <2>2, <2>3 DEF StateTyped, TypeOK, worker, Phases, States
  <1>2. ControlOK'
    <2>1. proc' = "up"
      BY RunUp DEF Works, worker
    <2>2. ASSUME NEW q \in Run
          PROVE  RunFits(q)'
      BY TurnIs DEF ControlOK, RunFits, Idle, AtOne, At
    <2> QED
      BY <2>1, <2>2 DEF ControlOK, ProcFits
  <1>3. BornOK'
    <2>1. Created' = Created
      BY WorksKeeps
    <2>2. stream' = stream /\ service' = service
      BY DEF Works
    <2>3. \A i \in Ids : state[i] = "gone" => state'[i] = "gone"
      BY DEF Works
    <2>4. \A k \in DOMAIN stream : stream[k].id \in Ids
      BY DEF BornOK, Created
    <2> QED
      BY <2>1, <2>2, <2>3, <2>4 DEF BornOK
  <1>4. KnownOK'
    <2>1. Created' = Created /\ EntryIds' = EntryIds
      BY WorksKeeps
    <2>2. containers' = containers /\ service' = service
      BY DEF Works, worker
    <2>3. IdsIn(containers) \subseteq Created
      BY DEF KnownOK, IdsIn
    <2>4. IdsIn(Map(r)) \subseteq Created
      BY <2>3, MapIs
    <2>5. \A q \in Run : Hands(q)' \subseteq Created
      BY <2>4, TurnIs DEF KnownOK
    <2> QED
      BY <2>1, <2>2, <2>5 DEF KnownOK
  <1> QED
    BY <1>1, <1>2, <1>3, <1>4

LEMMA EndsShape ==
  ASSUME Shape, Ends
  PROVE  Shape'
  <1> USE DEF Shape, Ends
  <1>1. StateTyped'
    <2>1. /\ proc' = "down" /\ stream' = <<>> /\ containers' = Empty
          /\ update' = "none" /\ task' = "none" /\ entry' = Nil /\ missed' = {}
          /\ UNCHANGED <<labels, service>>
      BY DEF Dies
    <2>a. state' \in [Ids -> States]
      BY DEF StateTyped, TypeOK, States
    <2>2. /\ pc' \in [Run -> Phases] /\ downBy' \in [Ids -> Run \cup {Nil}]
          /\ stirred' \in [Run -> SUBSET Ids]
      BY DEF Dies, Phases
    <2>3. job' \in [Run -> Job]
      BY NoJobTyped DEF Dies
    <2>4. stream' \in Seq(Event) /\ \A k \in DOMAIN stream' : stream'[k] \in Event
      BY <2>1
    <2> QED
      BY <2>1, <2>2, <2>3, <2>4, <2>a, EmptyIsMap
      DEF StateTyped, TypeOK, Phases, States, Event
  <1>2. ControlOK'
    <2>1. \A r \in Run : pc'[r] = "idle" /\ job'[r] = NoJob
      BY DEF Dies
    <2>a. NoJob.cur = Nil
      BY DEF NoJob
    <2>2. ASSUME NEW r \in Run
          PROVE  RunFits(r)'
      BY <2>1, <2>a DEF RunFits, Idle, AtOne
    <2>3. ProcFits'
      BY <2>1 DEF Dies, ProcFits, Idle
    <2> QED
      BY <2>2, <2>3 DEF ControlOK
  <1>3. Created' = Created
    BY DEF Created, Alive, StateTyped, TypeOK
  <1>5. BornOK'
    <2>1. DOMAIN stream' = {} /\ service' = service
      BY DEF Dies
    <2> QED
      BY <1>3, <2>1 DEF BornOK
  <1>6. KnownOK'
    <2>1. \A s \in Service : containers'[s] = Nil
      BY DEF Dies, Empty
    <2>2. EntryIds' = {}
      BY DEF Dies, EntryIds
    <2>3. ASSUME NEW r \in Run
          PROVE  Hands(r)' = {}
      <3>1. job'[r] = NoJob
        BY DEF Dies
      <3> QED
        BY <3>1, PlanOfNone DEF Hands, NoJob
    <2> QED
      BY <2>1, <2>2, <2>3 DEF KnownOK
  <1> QED
    BY <1>1, <1>2, <1>5, <1>6

-----------------------------------------------------------------------------
(* The engine, and those who use it *)

LEMMA EmitIs ==
  ASSUME StateTyped, NEW ev \in {"create", "update", "destroy"}, NEW i \in Ids, Emit(ev, i)
  PROVE  /\ stream' \in Seq(Event)
         /\ \A k \in DOMAIN stream' :
              \/ k \in DOMAIN stream /\ stream'[k] = stream[k]
              \/ proc = "up" /\ stream'[k] = [ev |-> ev, id |-> i]
         /\ proc # "up" => stream' = stream
  <1> DEFINE e == [ev |-> ev, id |-> i]
  <1>1. e \in Event
    BY DEF Event
  <1>2. stream' = IF proc = "up" THEN Append(stream, e) ELSE stream
    BY DEF Emit
  <1>3. stream \in Seq(Event)
    BY DEF StateTyped
  <1> HIDE DEF e
  <1>4. CASE proc = "up"
    <2>1. stream' = Append(stream, e)
      BY <1>2, <1>4
    <2>2. /\ stream' \in Seq(Event)
          /\ DOMAIN stream' = DOMAIN stream \cup {Len(stream) + 1}
          /\ stream'[Len(stream) + 1] = e
          /\ \A k \in DOMAIN stream : stream'[k] = stream[k]
      BY <1>1, <1>3, <2>1, OfAppend
    <2> QED
      BY <1>4, <2>2 DEF e
  <1>5. CASE proc # "up"
    BY <1>2, <1>3, <1>5
  <1> QED
    BY <1>4, <1>5

LEMMA CreateIs ==
  ASSUME Shape, NEW s \in Service, Create(s)
  PROVE  \E i \in Ids :
           /\ state[i] = "unborn" /\ Emit("create", i)
           /\ state' = [state EXCEPT ![i] = "exited"]
           /\ service' = [service EXCEPT ![i] = s]
           /\ i \notin Created /\ Created' = Created \cup {i}
           /\ Created = 1..(i - 1) /\ Created' = 1..i
           /\ Alive' = Alive \cup {i}
           /\ UNCHANGED <<labels, worker, runs, downBy, stirred>>
  <1> DEFINE i == Cardinality(Created) + 1
  <1>1. PICK n \in 0..MaxId : Created = 1..n
    BY DEF Shape, BornOK
  <1>2. n \in Nat /\ 1 \in Nat
    BY <1>1, BoundsAssumption
  <1>3. Cardinality(Created) = n
    BY <1>1, <1>2, FS_Interval
  <1>4. i = n + 1 /\ i \in Ids /\ i \notin Created /\ Created = 1..(i - 1)
    BY <1>1, <1>2, <1>3, BoundsAssumption DEF Create, Ids
  <1>5. state' = [state EXCEPT ![i] = "exited"] /\ service' = [service EXCEPT ![i] = s]
    BY DEF Create
  <1>6. Emit("create", i) /\ UNCHANGED <<labels, worker, runs, downBy, stirred>>
    BY DEF Create
  <1> HIDE DEF i
  <1>7. state[i] = "unborn"
    BY <1>4 DEF Created
  <1>8. state \in [Ids -> States]
    BY DEF Shape, StateTyped, TypeOK, States
  <1>9. Created' = Created \cup {i} /\ Alive' = Alive \cup {i}
    BY <1>4, <1>5, <1>8 DEF Created, Alive
  <1>10. Created' = 1..i
    BY <1>1, <1>2, <1>4, <1>9
  <1> QED
    BY <1>4, <1>5, <1>6, <1>7, <1>9, <1>10

LEMMA CreateShape ==
  ASSUME Shape, NEW s \in Service, Create(s)
  PROVE  Shape'
  <1> USE DEF Shape
  <1>1. PICK i \in Ids :
           /\ state[i] = "unborn" /\ Emit("create", i)
           /\ state' = [state EXCEPT ![i] = "exited"]
           /\ service' = [service EXCEPT ![i] = s]
           /\ i \notin Created /\ Created' = Created \cup {i}
           /\ Created = 1..(i - 1) /\ Created' = 1..i
           /\ Alive' = Alive \cup {i}
           /\ UNCHANGED <<labels, worker, runs, downBy, stirred>>
    BY CreateIs
  <1>2. /\ stream' \in Seq(Event)
        /\ \A k \in DOMAIN stream' :
              \/ k \in DOMAIN stream /\ stream'[k] = stream[k]
              \/ proc = "up" /\ stream'[k] = [ev |-> "create", id |-> i]
        /\ proc # "up" => stream' = stream
    BY <1>1, EmitIs
  <1>a. missed' \subseteq Service
    BY DEF Create, StateTyped, TypeOK
  <1>3. /\ state' \in [Ids -> States] /\ service' \in [Ids -> Service \cup {Nil}]
        /\ state'[i] = "exited" /\ service'[i] = s
        /\ \A j \in Ids : j # i => state'[j] = state[j] /\ service'[j] = service[j]
    BY <1>1 DEF StateTyped, TypeOK, States
  <1>4. StateTyped'
    <2>1. \A k \in DOMAIN stream' : stream'[k] \in Event
      BY <1>2, ElementOfSeq, LenProperties
    <2>2. UNCHANGED <<labels, proc, containers, update, task, entry, pc, job, downBy, stirred>>
      BY <1>1 DEF worker, runs
    <2> QED
      BY <1>2, <1>3, <1>a, <2>1, <2>2 DEF StateTyped, TypeOK, States, Event
  <1>5. ControlOK'
    <2>1. UNCHANGED <<proc, update, task, pc, job, downBy>>
      BY <1>1 DEF worker, runs
    <2>2. proc # "up" => stream' = stream
      BY <1>2
    <2>3. ProcFits'
      BY <2>1, <2>2 DEF ControlOK, ProcFits, Idle
    <2>4. \A r \in Run : RunFits(r)'
      BY <2>1 DEF ControlOK, RunFits, Idle, AtOne
    <2> QED
      BY <2>3, <2>4 DEF ControlOK
  <1>6. BornOK'
    <2>1. i \in 0..MaxId
      BY <1>1, BoundsAssumption DEF Ids
    <2>2. \A j \in Created' : service'[j] \in Service
      BY <1>1, <1>3 DEF BornOK, Created
    <2>3. ASSUME NEW k \in DOMAIN stream'
          PROVE  /\ stream'[k].id \in Created'
                 /\ stream'[k].ev = "destroy" => state'[stream'[k].id] = "gone"
      <3>1. CASE k \in DOMAIN stream /\ stream'[k] = stream[k]
        <4>1. stream[k].id \in Created /\ stream[k].id # i /\ stream[k].id \in Ids
          BY <1>1, <3>1 DEF BornOK, Created
        <4> QED
          BY <1>1, <1>3, <3>1, <4>1 DEF BornOK
      <3>2. CASE stream'[k] = [ev |-> "create", id |-> i]
        BY <1>1, <3>2
      <3> QED
        BY <1>2, <3>1, <3>2
    <2> QED
      BY <1>1, <2>1, <2>2, <2>3 DEF BornOK
  <1>8. KnownOK'
    <2>1. UNCHANGED <<containers, entry, job, downBy>>
      BY <1>1 DEF worker, runs
    <2>2. \A j \in Created : service'[j] = service[j]
      BY <1>1, <1>3 DEF Created
    <2>3. EntryIds' = EntryIds /\ \A r \in Run : Hands(r)' = Hands(r)
      BY <2>1 DEF EntryIds, Hands
    <2> QED
      BY <1>1, <2>1, <2>2, <2>3 DEF KnownOK
  <1> QED
    BY <1>4, <1>5, <1>6, <1>8

(* What the engine does with a container that there is. *)
Changes(i) == Update(i) \/ Destroy(i) \/ Start(i) \/ Exit(i)

LEMMA ChangeIs ==
  ASSUME Shape, NEW i \in Ids, Changes(i)
  PROVE  /\ state' \in [Ids -> States]
         /\ state[i] \in {"exited", "running"}
         /\ state'[i] \in {"exited", "running", "gone"}
         /\ \A j \in Ids : j # i => state'[j] = state[j]
         /\ Created' = Created
         /\ stream' \in Seq(Event) /\ missed' \subseteq Service
         /\ \A k \in DOMAIN stream' :
              \/ k \in DOMAIN stream /\ stream'[k] = stream[k]
              \/ stream'[k].id = i /\ (stream'[k].ev = "destroy" => state'[i] = "gone")
         /\ proc # "up" => stream' = stream
         /\ downBy' \in [Ids -> Run \cup {Nil}]
         /\ \A j \in Ids : downBy'[j] \in {Nil, downBy[j]}
         /\ state'[i] = "gone" => downBy'[i] = Nil
         /\ stirred' \in [Run -> SUBSET Ids]
         /\ UNCHANGED <<labels, service, worker, runs>>
  <1> USE DEF Shape
  <1>1. CASE Destroy(i)
    <2>1. /\ state' = [state EXCEPT ![i] = "gone"]
          /\ downBy' = [downBy EXCEPT ![i] = Nil]
          /\ stirred' = [r \in Run |-> stirred[r] \ {i}]
          /\ Emit("destroy", i) /\ state[i] \in {"exited", "running"}
          /\ UNCHANGED <<labels, service, worker, runs>>
      BY <1>1 DEF Destroy, Alive
    <2>2. /\ stream' \in Seq(Event)
          /\ \A k \in DOMAIN stream' :
               \/ k \in DOMAIN stream /\ stream'[k] = stream[k]
               \/ stream'[k] = [ev |-> "destroy", id |-> i]
          /\ proc # "up" => stream' = stream
      BY <2>1, EmitIs
    <2>3. /\ state' \in [Ids -> States] /\ state'[i] = "gone"
          /\ \A j \in Ids : j # i => state'[j] = state[j]
          /\ downBy' \in [Ids -> Run \cup {Nil}] /\ downBy'[i] = Nil
          /\ \A j \in Ids : downBy'[j] \in {Nil, downBy[j]}
          /\ stirred' \in [Run -> SUBSET Ids]
      BY <2>1 DEF StateTyped, TypeOK, States
    <2>4. Created' = Created
      BY <2>1, <2>3 DEF Created
    <2>5. service[i] \in Service
      BY <2>1 DEF BornOK, Created
    <2>6. missed' \subseteq Service
      BY <1>1, <2>5 DEF Destroy, StateTyped, TypeOK
    <2> QED
      BY <2>1, <2>2, <2>3, <2>4, <2>6
  <1>2. CASE Start(i) \/ Exit(i)
    <2>1. PICK s \in {"exited", "running"} : state' = [state EXCEPT ![i] = s]
      BY <1>2 DEF Start, Exit
    <2>2. /\ UNCHANGED <<labels, service, stream, worker, runs, missed>>
          /\ state[i] \in {"exited", "running"}
      BY <1>2 DEF Start, Exit, seen
    <2>3. downBy' \in {downBy, [downBy EXCEPT ![i] = Nil]}
      BY <1>2 DEF Start, Exit, seen
    <2>4. stirred' \in [Run -> SUBSET Ids]
      BY <1>2 DEF Start, Exit, seen, Stir, StateTyped, TypeOK
    <2>5. /\ state' \in [Ids -> States] /\ state'[i] = s
          /\ \A j \in Ids : j # i => state'[j] = state[j]
      BY <2>1 DEF StateTyped, TypeOK, States
    <2>6. /\ downBy' \in [Ids -> Run \cup {Nil}]
          /\ \A j \in Ids : downBy'[j] \in {Nil, downBy[j]}
      BY <2>3 DEF StateTyped, TypeOK
    <2>7. Created' = Created
      BY <2>2, <2>5 DEF Created
    <2>8. stream' = stream /\ stream \in Seq(Event) /\ missed' \subseteq Service
      BY <2>2 DEF StateTyped, TypeOK
    <2> QED
      BY <2>2, <2>4, <2>5, <2>6, <2>7, <2>8
  <1>3. CASE Update(i)
    <2>1. /\ Emit("update", i) /\ i \in Alive
          /\ UNCHANGED <<labels, state, service, worker, runs, downBy, stirred>>
      BY <1>3 DEF Update
    <2>2. /\ stream' \in Seq(Event)
          /\ \A k \in DOMAIN stream' :
               \/ k \in DOMAIN stream /\ stream'[k] = stream[k]
               \/ stream'[k] = [ev |-> "update", id |-> i]
          /\ proc # "up" => stream' = stream
      BY <2>1, EmitIs
    <2>3. service[i] \in Service /\ Created' = Created /\ state[i] \in {"exited", "running"}
      BY <2>1 DEF BornOK, Created, Alive
    <2>4. missed' \subseteq Service
      BY <1>3, <2>3 DEF Update, StateTyped, TypeOK
    <2>5. /\ state' \in [Ids -> States] /\ downBy' \in [Ids -> Run \cup {Nil}]
          /\ stirred' \in [Run -> SUBSET Ids]
          /\ state' = state /\ downBy' = downBy
      BY <2>1 DEF StateTyped, TypeOK, States
    <2> QED
      BY <2>1, <2>2, <2>3, <2>4, <2>5
  <1> QED
    BY <1>1, <1>2, <1>3 DEF Changes

LEMMA ChangeShape ==
  ASSUME Shape, NEW i \in Ids, Changes(i)
  PROVE  Shape'
  <1> USE DEF Shape
  <1>1. /\ state' \in [Ids -> States]
        /\ state[i] \in {"exited", "running"}
        /\ \A j \in Ids : j # i => state'[j] = state[j]
        /\ Created' = Created
    BY ChangeIs
  <1>2. /\ stream' \in Seq(Event) /\ missed' \subseteq Service
        /\ \A k \in DOMAIN stream' :
              \/ k \in DOMAIN stream /\ stream'[k] = stream[k]
              \/ stream'[k].id = i /\ (stream'[k].ev = "destroy" => state'[i] = "gone")
        /\ proc # "up" => stream' = stream
    BY ChangeIs
  <1>3. /\ downBy' \in [Ids -> Run \cup {Nil}]
        /\ \A j \in Ids : downBy'[j] \in {Nil, downBy[j]}
        /\ stirred' \in [Run -> SUBSET Ids]
    BY ChangeIs
  <1>4. UNCHANGED <<labels, service, proc, containers, update, task, entry, pc, job>>
    BY ChangeIs DEF worker, runs
  <1>5. StateTyped'
    <2>1. \A k \in DOMAIN stream' : stream'[k] \in Event
      BY <1>2, ElementOfSeq, LenProperties
    <2> QED
      BY <1>1, <1>2, <1>3, <1>4, <2>1 DEF StateTyped, TypeOK, States, Event
  <1>6. ControlOK'
    <2>1. ProcFits'
      BY <1>2, <1>3, <1>4 DEF ControlOK, ProcFits, Idle
    <2>2. \A r \in Run : RunFits(r)'
      BY <1>4 DEF ControlOK, RunFits, Idle, AtOne
    <2> QED
      BY <2>1, <2>2 DEF ControlOK
  <1>7. BornOK'
    <2>1. ASSUME NEW k \in DOMAIN stream'
          PROVE  /\ stream'[k].id \in Created
                 /\ stream'[k].ev = "destroy" => state'[stream'[k].id] = "gone"
      <3>1. CASE k \in DOMAIN stream /\ stream'[k] = stream[k]
        <4>1. stream[k].id \in Created /\ stream[k].id \in Ids
          BY <3>1 DEF BornOK, Created
        <4>2. stream[k].ev = "destroy" => state[stream[k].id] = "gone" /\ stream[k].id # i
          BY <1>1, <3>1 DEF BornOK
        <4> QED
          BY <1>1, <3>1, <4>1, <4>2
      <3>2. CASE stream'[k].id = i /\ (stream'[k].ev = "destroy" => state'[i] = "gone")
        BY <1>1, <3>2 DEF Created
      <3> QED
        BY <1>2, <3>1, <3>2
    <2> QED
      BY <1>1, <1>4, <2>1 DEF BornOK
  <1>9. KnownOK'
    <2>1. EntryIds' = EntryIds /\ \A r \in Run : Hands(r)' = Hands(r)
      BY <1>4 DEF EntryIds, Hands
    <2> QED
      BY <1>1, <1>4, <2>1 DEF KnownOK
  <1> QED
    BY <1>5, <1>6, <1>7, <1>9

-----------------------------------------------------------------------------
(* The process and its worker *)

LEMMA CachedAreCreated ==
  ASSUME KnownOK
  PROVE  IdsIn(containers) \subseteq Created
  BY DEF KnownOK, IdsIn

LEMMA BootShape ==
  ASSUME Shape, Boot
  PROVE  Shape'
  <1> USE DEF Shape
  <1>1. PICK m \in Maps :
          /\ \A s \in Service : m[s] \in IF Of(s) = {} THEN {Nil} ELSE Of(s)
          /\ entry' \in Jobs(m) /\ containers' = m
    BY DEF Boot
  <1>2. /\ proc = "down" /\ proc' = "read" /\ missed' \subseteq Service
        /\ UNCHANGED <<labels, state, service, stream, update, task, pc, job, downBy, stirred>>
    BY DEF Boot, engine, runs
  <1>3. /\ entry' \in Entries \cup {Nil}
        /\ EntryIds' \subseteq IdsIn(m)
    BY <1>1, JobsAreEntries DEF EntryIds
  <1>4. StateTyped'
    BY <1>1, <1>2, <1>3 DEF StateTyped, TypeOK, Entries
  <1>5. ControlOK'
    <2>1. ProcFits'
      BY <1>2 DEF ControlOK, ProcFits, Idle
    <2>2. \A r \in Run : RunFits(r)'
      BY <1>2 DEF ControlOK, RunFits, Idle, AtOne
    <2> QED
      BY <2>1, <2>2 DEF ControlOK
  <1>6. Created' = Created
    BY <1>2 DEF Created
  <1>7. BornOK'
    BY <1>2, <1>6 DEF BornOK
  <1>9. \A s \in Service : m[s] # Nil => m[s] \in Created /\ service[m[s]] = s
    BY <1>1 DEF Of, Alive, Created
  <1>10. KnownOK'
    <2>1. IdsIn(m) \subseteq Created
      BY <1>9 DEF IdsIn
    <2>2. \A r \in Run : Hands(r)' = Hands(r)
      BY <1>2 DEF Hands
    <2> QED
      BY <1>1, <1>2, <1>3, <1>6, <1>9, <2>1, <2>2 DEF KnownOK
  <1> QED
    BY <1>4, <1>5, <1>6, <1>7, <1>10

LEMMA WatchShape ==
  ASSUME Shape, Watch \/ Receive
  PROVE  Shape'
  <1> USE DEF Shape
  <1>1. /\ proc' \in {"read", "up"} /\ update' \in {"none", "cache", "dropped"}
        /\ task' \in {"none", "cache", "dropped"}
        /\ UNCHANGED <<labels, state, service, stream, containers, entry, pc, job,
                       downBy, stirred, missed>>
    BY DEF Watch, Receive, engine, runs, seen, StateTyped, TypeOK, ControlOK, ProcFits
  <1>2. proc' = "up"
    BY DEF Watch, Receive, ControlOK, ProcFits
  <1>3. StateTyped'
    BY <1>1 DEF StateTyped, TypeOK
  <1>4. ControlOK'
    <2>1. \A r \in Run : RunFits(r)'
      BY <1>1 DEF ControlOK, RunFits, Idle, AtOne
    <2> QED
      BY <1>2, <2>1 DEF ControlOK, ProcFits
  <1>5. Created' = Created
    BY <1>1 DEF Created
  <1>6. BornOK'
    BY <1>1, <1>5 DEF BornOK
  <1>7. KnownOK'
    <2>1. EntryIds' = EntryIds /\ \A r \in Run : Hands(r)' = Hands(r)
      BY <1>1 DEF EntryIds, Hands
    <2> QED
      BY <1>1, <1>5, <2>1 DEF KnownOK
  <1> QED
    BY <1>3, <1>4, <1>5, <1>6, <1>7

(* A new job has a map, that of the project it was made of. *)
TaskMap == IF task = "cache" THEN containers ELSE Empty

LEMMA ScheduleIs ==
  ASSUME StateTyped, scheduleDockerBackup
  PROVE  /\ task # "none"
         /\ TaskMap \in Maps /\ IdsIn(TaskMap) \subseteq IdsIn(containers)
         /\ Ends \/ (Replace(Jobs(TaskMap)) /\ UNCHANGED labels)
  BY EmptyIsMap DEF scheduleDockerBackup, TaskMap, Ends, StateTyped, TypeOK

LEMMA ReplaceIs ==
  ASSUME Shape, task # "none", Replace(Jobs(TaskMap)), TaskMap \in Maps
  PROVE  /\ proc = "up" /\ task' = "none"
         /\ UNCHANGED <<state, service, stream, proc, containers, update, pc, downBy,
                        stirred, missed>>
         /\ entry' \in Entries \cup {Nil}
         /\ EntryIds' \subseteq IdsIn(TaskMap)
         /\ entry' # Nil => entry'.live = TRUE
         /\ job' \in [Run -> Job]
         /\ \A r \in Run :
              /\ job'[r].plan = job[r].plan /\ job'[r].cur = job[r].cur
              /\ job'[r].todo = job[r].todo /\ job'[r].live = job[r].live
              /\ job'[r].failed = job[r].failed
              /\ job[r] = NoJob => job'[r] = NoJob
  <1>1. /\ entry' \in Jobs(TaskMap) /\ task' = "none"
        /\ job' = [r \in Run |-> [job[r] EXCEPT !.own = FALSE]]
        /\ UNCHANGED <<state, service, stream, proc, containers, update, pc, downBy,
                        stirred, missed>>
    BY DEF Replace, engine, seen
  <1>2. proc = "up"
    BY DEF Shape, ControlOK, ProcFits
  <1>3. /\ entry' \in Entries \cup {Nil} /\ EntryIds' \subseteq IdsIn(TaskMap)
        /\ entry' # Nil => entry'.live = TRUE
    BY <1>1, JobsAreEntries DEF EntryIds
  <1>4. ASSUME NEW r \in Run
        PROVE  /\ job'[r] \in Job
               /\ job'[r].plan = job[r].plan /\ job'[r].cur = job[r].cur
               /\ job'[r].todo = job[r].todo /\ job'[r].live = job[r].live
               /\ job'[r].failed = job[r].failed
               /\ job[r] = NoJob => job'[r] = NoJob
    <2>1. job[r] \in Job /\ job'[r] = [job[r] EXCEPT !.own = FALSE]
      BY <1>1, JobIs DEF Shape
    <2>2. job[r] = NoJob => [job[r] EXCEPT !.own = FALSE] = NoJob
      <3>1. NoJob.own = FALSE /\ [NoJob EXCEPT !.own = FALSE] = [NoJob EXCEPT !.own = NoJob.own]
        BY DEF NoJob
      <3>2. [NoJob EXCEPT !.own = NoJob.own] = NoJob
        BY NoJobTyped DEF Job
      <3> QED
        BY <3>1, <3>2
    <2>3. LET j == [job[r] EXCEPT !.own = FALSE]
          IN  /\ j \in Job
              /\ j.plan = job[r].plan /\ j.cur = job[r].cur
              /\ j.todo = job[r].todo /\ j.live = job[r].live /\ j.failed = job[r].failed
      BY <2>1 DEF Job
    <2> QED
      BY <2>1, <2>2, <2>3
  <1>5. job' \in [Run -> Job]
    BY <1>1, <1>4
  <1> QED
    BY <1>1, <1>2, <1>3, <1>4, <1>5

LEMMA ReplaceShape ==
  ASSUME Shape, task # "none", Replace(Jobs(TaskMap)), TaskMap \in Maps,
         IdsIn(TaskMap) \subseteq IdsIn(containers), UNCHANGED labels
  PROVE  Shape'
  <1> USE DEF Shape
  <1>1. /\ proc = "up" /\ task' = "none"
        /\ UNCHANGED <<state, service, stream, proc, containers, update, pc, downBy,
                        stirred, missed>>
        /\ entry' \in Entries \cup {Nil}
        /\ EntryIds' \subseteq IdsIn(TaskMap)
        /\ job' \in [Run -> Job]
    BY ReplaceIs
  <1>2. \A r \in Run :
          /\ job'[r].plan = job[r].plan /\ job'[r].cur = job[r].cur
          /\ job'[r].todo = job[r].todo
          /\ job[r] = NoJob => job'[r] = NoJob
    BY ReplaceIs
  <1>3. StateTyped'
    BY <1>1 DEF StateTyped, TypeOK, Entries
  <1>4. ControlOK'
    <2>1. \A r \in Run : RunFits(r)'
      BY <1>1, <1>2 DEF ControlOK, RunFits, Idle, AtOne
    <2> QED
      BY <1>1, <2>1 DEF ControlOK, ProcFits
  <1>5. Created' = Created
    BY <1>1 DEF Created
  <1>6. BornOK'
    BY <1>1, <1>5 DEF BornOK
  <1>7. KnownOK'
    <2>1. \A r \in Run : Hands(r)' = Hands(r)
      BY <1>2 DEF Hands
    <2>2. EntryIds' \subseteq Created
      BY <1>1, CachedAreCreated
    <2> QED
      BY <1>1, <1>5, <2>1, <2>2 DEF KnownOK
  <1> QED
    BY <1>3, <1>4, <1>5, <1>6, <1>7

LEMMA BeginIs ==
  ASSUME Shape, NEW r \in Run, Begin(r)
  PROVE  /\ proc = "up" /\ entry # Nil /\ Idle(r)
         /\ UNCHANGED <<labels, engine, worker, seen>>
         /\ pc' \in [Run -> Phases] /\ job' \in [Run -> Job]
         /\ pc'[r] = "next" /\ job'[r].cur = Nil /\ job'[r].todo = {}
         /\ job'[r].live = entry.live
         /\ Hands(r)' \subseteq EntryIds
         /\ \A q \in Run : q # r => /\ pc'[q] = pc[q] /\ job'[q] = job[q]
                                    /\ Hands(q)' = Hands(q)
  <1> DEFINE j == [NoJob EXCEPT !.plan = entry.plan, !.live = entry.live, !.own = TRUE]
  <1>1. /\ proc = "up" /\ entry # Nil /\ Idle(r)
        /\ UNCHANGED <<labels, engine, worker, seen>>
        /\ Goto(r, "next", j)
    BY DEF Begin, Deciding
  <1>2. entry.plan \in Plan /\ entry.live \in BOOLEAN
    BY <1>1 DEF Shape, StateTyped, TypeOK
  <1>3. /\ j \in Job /\ j.cur = Nil /\ j.todo = {} /\ j.plan = entry.plan
        /\ j.live = entry.live
    BY <1>2, NoJobTyped DEF NoJob, Job
  <1> HIDE DEF j
  <1>4. /\ pc' \in [Run -> Phases] /\ job' \in [Run -> Job]
        /\ pc'[r] = "next" /\ job'[r] = j
        /\ \A q \in Run : q # r => pc'[q] = pc[q] /\ job'[q] = job[q]
    BY <1>1, <1>3 DEF Goto, Shape, StateTyped, TypeOK, Phases
  <1>5. Hands(r)' \subseteq EntryIds
    BY <1>1, <1>3, <1>4 DEF Hands, EntryIds
  <1>6. \A q \in Run : q # r => Hands(q)' = Hands(q)
    BY <1>4 DEF Hands
  <1> QED
    BY <1>1, <1>3, <1>4, <1>5, <1>6

LEMMA BeginShape ==
  ASSUME Shape, NEW r \in Run, Begin(r)
  PROVE  Shape'
  <1> USE DEF Shape
  <1>1. /\ proc = "up" /\ UNCHANGED <<labels, engine, worker, seen>>
        /\ pc' \in [Run -> Phases] /\ job' \in [Run -> Job]
        /\ pc'[r] = "next" /\ job'[r].cur = Nil
        /\ Hands(r)' \subseteq EntryIds
        /\ \A q \in Run : q # r => /\ pc'[q] = pc[q] /\ job'[q] = job[q]
                                   /\ Hands(q)' = Hands(q)
    BY BeginIs
  <1>2. UNCHANGED <<labels, state, service, stream, proc, containers, update, task,
                    entry, downBy, stirred, missed>>
    BY <1>1 DEF engine, worker, seen
  <1>3. StateTyped'
    BY <1>1, <1>2 DEF StateTyped, TypeOK, Phases
  <1>4. ControlOK'
    <2>1. \A q \in Run : RunFits(q)'
      BY <1>1 DEF ControlOK, RunFits, Idle, AtOne
    <2> QED
      BY <1>1, <1>2, <2>1 DEF ControlOK, ProcFits
  <1>5. Created' = Created /\ EntryIds' = EntryIds
    BY <1>2 DEF Created, EntryIds
  <1>6. BornOK'
    BY <1>2, <1>5 DEF BornOK
  <1>7. KnownOK'
    BY <1>1, <1>2, <1>5 DEF KnownOK
  <1> QED
    BY <1>3, <1>4, <1>5, <1>6, <1>7

-----------------------------------------------------------------------------
(* The handler of the events *)

Wrote(s, i) ==
  /\ containers' = [containers EXCEPT ![s] = i]
  /\ IF containers' = Empty THEN update' = "dropped" /\ Drop
     ELSE update' = "cache" /\ UNCHANGED <<task, entry, job>>
  /\ Stir({i} \ {Nil}, Run)
  /\ downBy' = [j \in Ids |-> IF j \in IdsIn(containers') THEN downBy[j] ELSE Nil]
  /\ stream' = Tail(stream)
  /\ UNCHANGED <<proc, pc, missed, labels, state, service>>
(* A creation or update is entered in the cache, a removal taken out of it, or,
   when the cache has another container by then, passed over. *)
Took(ev, i) ==
  /\ i \in Ids /\ stream # <<>> /\ Head(stream) = [ev |-> ev, id |-> i]
  /\ update = "none"
Entered(i) ==
  /\ Took("create", i) \/ Took("update", i)
  /\ i \in Alive /\ Wrote(service[i], i)
Removed(i) == Took("destroy", i) /\ i \in IdsIn(containers) /\ Wrote(service[i], Nil)
Passed(i) ==
  /\ Took("destroy", i) /\ i \notin IdsIn(containers) /\ stream' = Tail(stream)
  /\ UNCHANGED <<worker, runs, seen, labels, state, service>>

LEMMA HandlerForms ==
  ASSUME Shape, handleContainerUpdated \/ handleContainerDestroyed
  PROVE  \/ Ends
         \/ \E i \in Ids : Entered(i) \/ Removed(i) \/ Passed(i)
  <1> USE DEF Shape
  <1> DEFINE i == Head(stream).id
  <1>1. stream # <<>> /\ update = "none"
    BY DEF handleContainerUpdated, handleContainerDestroyed, Taking
  <1>2. Head(stream) \in Event /\ i \in Ids
    BY <1>1, OfTail DEF StateTyped, Event
  <1>3. CASE handleContainerUpdated
    <2>1. PICK ev \in {"create", "update"} : Head(stream) = [ev |-> ev, id |-> i]
      BY <1>2, <1>3 DEF handleContainerUpdated, Taking, Event
    <2>2. Took("create", i) \/ Took("update", i)
      BY <1>1, <1>2, <2>1 DEF Took
    <2>3. \/ Dies
          \/ i \in Alive /\ Write(service[i], i)
      BY <1>3 DEF handleContainerUpdated
    <2>4. UNCHANGED <<labels, state, service>>
      BY <1>3 DEF handleContainerUpdated
    <2> QED
      BY <1>2, <2>2, <2>3, <2>4 DEF Ends, Entered, Write, Wrote
  <1>4. CASE handleContainerDestroyed
    <2>1. Head(stream) = [ev |-> "destroy", id |-> i]
      BY <1>2, <1>4 DEF handleContainerDestroyed, Taking, Event
    <2>2. Took("destroy", i)
      BY <1>1, <1>2, <2>1 DEF Took
    <2>3. \/ i \in IdsIn(containers) /\ Write(service[i], Nil)
          \/ /\ i \notin IdsIn(containers) /\ stream' = Tail(stream)
             /\ UNCHANGED <<worker, runs, seen>>
      BY <1>4 DEF handleContainerDestroyed
    <2>4. UNCHANGED <<labels, state, service>>
      BY <1>4 DEF handleContainerDestroyed
    <2> QED
      BY <1>2, <2>2, <2>3, <2>4 DEF Ends, Removed, Passed, Write, Wrote
  <1> QED
    BY <1>3, <1>4

LEMMA TookIs ==
  ASSUME Shape, NEW ev \in {"create", "update", "destroy"}, NEW i \in Ids, Took(ev, i),
         stream' = Tail(stream)
  PROVE  /\ stream' \in Seq(Event) /\ proc = "up"
         /\ 1 \in DOMAIN stream /\ stream[1] = [ev |-> ev, id |-> i]
         /\ \A k \in DOMAIN stream' :
              k \in Nat /\ 0 < k /\ k + 1 \in DOMAIN stream /\ stream'[k] = stream[k + 1]
         /\ \A k \in DOMAIN stream :
              k \in Nat /\ (k # 1 => k - 1 \in DOMAIN stream' /\ stream'[k - 1] = stream[k])
  <1>1. stream \in Seq(Event) /\ stream # <<>> /\ Head(stream) = [ev |-> ev, id |-> i]
    BY DEF Shape, StateTyped, Took
  <1>2. proc = "up"
    BY <1>1 DEF Shape, ControlOK, ProcFits
  <1> QED
    BY <1>1, <1>2, OfTail

LEMMA WroteIs ==
  ASSUME StateTyped, NEW s \in Service, NEW i \in Ids \cup {Nil}, Wrote(s, i)
  PROVE  /\ containers' \in Maps /\ containers'[s] = i
         /\ \A t \in Service : t # s => containers'[t] = containers[t]
         /\ UNCHANGED <<proc, pc, missed, labels, state, service>>
         /\ downBy' \in [Ids -> Run \cup {Nil}]
         /\ \A j \in Ids :
              downBy'[j] = IF j \in IdsIn(containers)' THEN downBy[j] ELSE Nil
         /\ update' = IF containers' = Empty THEN "dropped" ELSE "cache"
         /\ task' \in {"none", "cache", "dropped"}
         /\ task' # "dropped" \/ containers' = Empty \/ task' = task
         /\ entry' \in Entries \cup {Nil} /\ EntryIds' \subseteq EntryIds
         /\ entry' # Nil => entry # Nil /\ (containers' # Empty => entry'.live = entry.live)
         /\ job' \in [Run -> Job]
         /\ \A r \in Run :
              /\ job'[r].plan = job[r].plan /\ job'[r].cur = job[r].cur
              /\ job'[r].todo = job[r].todo /\ job'[r].failed = job[r].failed
              /\ job'[r].live = (job[r].live /\ containers' # Empty)
              /\ job[r] = NoJob => job'[r] = NoJob
         /\ stirred' \in [Run -> SUBSET Ids]
         /\ \A r \in Run :
              /\ stirred[r] \subseteq stirred'[r]
              /\ i # Nil /\ job[r].cur # Nil => i \in stirred'[r]
  <1>1. /\ containers' \in Maps /\ containers'[s] = i
        /\ \A t \in Service : t # s => containers'[t] = containers[t]
    BY DEF Wrote, StateTyped, TypeOK, Maps
  <1>2. /\ UNCHANGED <<proc, pc, missed, labels, state, service>>
        /\ downBy' \in [Ids -> Run \cup {Nil}]
        /\ \A j \in Ids :
             downBy'[j] = IF j \in IdsIn(containers)' THEN downBy[j] ELSE Nil
    BY DEF Wrote, IdsIn, StateTyped, TypeOK
  <1>3. /\ stirred' \in [Run -> SUBSET Ids]
        /\ \A r \in Run :
              /\ stirred[r] \subseteq stirred'[r]
              /\ i # Nil /\ job[r].cur # Nil => i \in stirred'[r]
    BY DEF Wrote, Stir, StateTyped, TypeOK
  <1>4. entry \in Entries \cup {Nil} /\ job \in [Run -> Job] /\ task \in {"none", "cache", "dropped"}
    BY DEF StateTyped, TypeOK, Entries
  <1>5. CASE containers' # Empty
    <2>1. update' = "cache" /\ entry' = entry /\ task' = task /\ job' = job
      BY <1>5 DEF Wrote
    <2>2. \A r \in Run : job[r].live \in BOOLEAN
      BY <1>4 DEF Job
    <2> QED
      BY <1>1, <1>2, <1>3, <1>4, <1>5, <2>1, <2>2 DEF EntryIds
  <1>6. CASE containers' = Empty
    <2>1. /\ update' = "dropped" /\ task' \in {task, "dropped"}
          /\ entry' = IF entry = Nil THEN Nil ELSE [entry EXCEPT !.live = FALSE]
          /\ job' = [r \in Run |-> [job[r] EXCEPT !.live = FALSE]]
      BY <1>6 DEF Wrote, Drop
    <2>2. /\ entry' \in Entries \cup {Nil} /\ EntryIds' \subseteq EntryIds
          /\ entry' # Nil => entry # Nil
      <3>1. CASE entry = Nil
        BY <2>1, <3>1 DEF EntryIds
      <3>2. CASE entry # Nil
        <4>1. entry \in Entries /\ entry' = [entry EXCEPT !.live = FALSE]
          BY <1>4, <2>1, <3>2
        <4>2. entry' \in Entries /\ entry'.plan = entry.plan
          BY <4>1 DEF Entries
        <4>3. EntryIds = InPlan(entry.plan)
          BY <3>2 DEF EntryIds
        <4>4. EntryIds' \subseteq InPlan(entry.plan)
          BY <4>2 DEF EntryIds
        <4> QED
          BY <3>2, <4>2, <4>3, <4>4
      <3> QED
        BY <3>1, <3>2
    <2>3. ASSUME NEW r \in Run
          PROVE  /\ job'[r] \in Job
                 /\ job'[r].plan = job[r].plan /\ job'[r].cur = job[r].cur
                 /\ job'[r].todo = job[r].todo /\ job'[r].failed = job[r].failed
                 /\ job'[r].live = FALSE
                 /\ job[r] = NoJob => job'[r] = NoJob
      <3>1. job[r] \in Job /\ job'[r] = [job[r] EXCEPT !.live = FALSE]
        BY <1>4, <2>1
      <3>2. LET j == [job[r] EXCEPT !.live = FALSE]
            IN  /\ j \in Job /\ j.live = FALSE
                /\ j.plan = job[r].plan /\ j.cur = job[r].cur
                /\ j.todo = job[r].todo /\ j.failed = job[r].failed
        BY <3>1 DEF Job
      <3>3. NoJob.live = FALSE /\ [NoJob EXCEPT !.live = FALSE] = [NoJob EXCEPT !.live = NoJob.live]
        BY DEF NoJob
      <3>4. [NoJob EXCEPT !.live = NoJob.live] = NoJob
        BY NoJobTyped DEF Job
      <3> QED
        BY <3>1, <3>2, <3>3, <3>4
    <2>4. job' \in [Run -> Job]
      BY <2>1, <2>3
    <2> QED
      BY <1>1, <1>2, <1>3, <1>4, <1>6, <2>1, <2>2, <2>3, <2>4
  <1> QED
    BY <1>5, <1>6

(* The state of the containers does not change with an event. *)
LEMMA HandlingKeeps ==
  ASSUME Shape, NEW i \in Ids, Entered(i) \/ Removed(i) \/ Passed(i)
  PROVE  /\ stream' \in Seq(Event) /\ proc = "up" /\ proc' = "up"
         /\ UNCHANGED <<labels, state, service, pc, missed>>
         /\ Created' = Created /\ Alive' = Alive
         /\ BornOK'
  <1> USE DEF Shape
  <1>1. stream' = Tail(stream) /\ UNCHANGED <<proc, labels, state, service, pc, missed>>
    BY DEF Entered, Removed, Passed, Wrote, worker, runs, seen
  <1>2. PICK ev \in {"create", "update", "destroy"} : Took(ev, i)
    BY DEF Entered, Removed, Passed
  <1>3. /\ stream' \in Seq(Event) /\ proc = "up"
        /\ \A k \in DOMAIN stream' : k + 1 \in DOMAIN stream /\ stream'[k] = stream[k + 1]
    BY <1>1, <1>2, TookIs
  <1>4. Created' = Created /\ Alive' = Alive
    BY <1>1 DEF Created, Alive
  <1>5. ASSUME NEW k \in DOMAIN stream'
        PROVE  /\ stream'[k].id \in Created
               /\ stream'[k].ev = "destroy" => state'[stream'[k].id] = "gone"
    BY <1>1, <1>3, <1>5 DEF BornOK
  <1>6. BornOK'
    BY <1>1, <1>4, <1>5 DEF BornOK
  <1> QED
    BY <1>1, <1>3, <1>4, <1>6

LEMMA WroteShape ==
  ASSUME Shape, NEW i \in Ids, Entered(i) \/ Removed(i),
         NEW s \in Service, NEW c \in {i, Nil}, Wrote(s, c),
         c = i => i \in Created /\ service[i] = s
  PROVE  Shape'
  <1> USE DEF Shape
  <1>0. c \in Ids \cup {Nil}
    OBVIOUS
  <1>1. /\ containers' \in Maps /\ containers'[s] = c
        /\ \A t \in Service : t # s => containers'[t] = containers[t]
        /\ update' \in {"dropped", "cache"} /\ task' \in {"none", "cache", "dropped"}
        /\ entry' \in Entries \cup {Nil} /\ EntryIds' \subseteq EntryIds
        /\ job' \in [Run -> Job]
        /\ stirred' \in [Run -> SUBSET Ids] /\ downBy' \in [Ids -> Run \cup {Nil}]
    BY <1>0, WroteIs
  <1>2. \A r \in Run :
          /\ job'[r].plan = job[r].plan /\ job'[r].cur = job[r].cur
          /\ job'[r].todo = job[r].todo
          /\ job[r] = NoJob => job'[r] = NoJob
    BY <1>0, WroteIs
  <1>3. /\ stream' \in Seq(Event) /\ proc = "up" /\ proc' = "up"
        /\ UNCHANGED <<labels, state, service, pc, missed>>
        /\ Created' = Created /\ BornOK'
    BY HandlingKeeps
  <1>4. StateTyped'
    <2>1. \A k \in DOMAIN stream' : stream'[k] \in Event
      BY <1>3, ElementOfSeq, LenProperties
    <2> QED
      BY <1>1, <1>3, <2>1 DEF StateTyped, TypeOK, Entries, Event
  <1>5. ControlOK'
    <2>1. \A r \in Run : RunFits(r)'
      BY <1>2, <1>3 DEF ControlOK, RunFits, Idle, AtOne
    <2> QED
      BY <1>3, <2>1 DEF ControlOK, ProcFits
  <1>6. KnownOK'
    <2>1. \A r \in Run : Hands(r)' = Hands(r)
      BY <1>2 DEF Hands
    <2>2. \A t \in Service : containers'[t] # Nil =>
             containers'[t] \in Created' /\ service'[containers'[t]] = t
      BY <1>1, <1>3 DEF KnownOK
    <2> QED
      BY <1>1, <1>3, <2>1, <2>2 DEF KnownOK
  <1> QED
    BY <1>3, <1>4, <1>5, <1>6

LEMMA EnteredIs ==
  ASSUME Shape, NEW i \in Ids, Entered(i)
  PROVE  /\ i \in Alive /\ i \in Created /\ service[i] \in Service
         /\ Wrote(service[i], i)
  <1>1. i \in Alive /\ Wrote(service[i], i)
    BY DEF Entered
  <1>2. i \in Created
    BY <1>1 DEF Alive, Created
  <1> QED
    BY <1>1, <1>2 DEF Shape, BornOK

LEMMA RemovedIs ==
  ASSUME Shape, NEW i \in Ids, Removed(i)
  PROVE  /\ service[i] \in Service /\ containers[service[i]] = i
         /\ Wrote(service[i], Nil) /\ i \notin Alive
  <1> USE DEF Shape
  <1>1. /\ i \in IdsIn(containers) /\ Took("destroy", i) /\ Wrote(service[i], Nil)
        /\ stream' = Tail(stream)
    BY DEF Removed, Wrote
  <1>2. PICK s \in Service : containers[s] = i
    BY <1>1 DEF IdsIn
  <1>3. service[i] = s
    BY <1>1, <1>2, NilIsNoId DEF KnownOK
  <1>4. 1 \in DOMAIN stream /\ stream[1] = [ev |-> "destroy", id |-> i]
    BY <1>1, TookIs
  <1>5. state[i] = "gone"
    BY <1>4 DEF BornOK
  <1> QED
    BY <1>1, <1>2, <1>3, <1>5 DEF Alive

LEMMA PassedIs ==
  ASSUME NEW i \in Ids, Passed(i)
  PROVE  /\ UNCHANGED <<worker, runs, seen, labels, state, service>>
         /\ i \notin IdsIn(containers)
  BY DEF Passed

LEMMA HandlingShape ==
  ASSUME Shape, NEW i \in Ids, Entered(i) \/ Removed(i) \/ Passed(i)
  PROVE  Shape'
  <1> USE DEF Shape
  <1>1. CASE Entered(i)
    <2>1. /\ service[i] \in Service /\ Wrote(service[i], i) /\ i \in Created
      BY <1>1, EnteredIs
    <2> QED
      BY <1>1, <2>1, WroteShape
  <1>2. CASE Removed(i)
    <2>1. service[i] \in Service /\ Wrote(service[i], Nil) /\ Nil # i
      BY <1>2, RemovedIs, NilIsNoId
    <2> QED
      BY <1>2, <2>1, WroteShape
  <1>3. CASE Passed(i)
    <2>1. /\ stream' \in Seq(Event) /\ proc = "up" /\ proc' = "up" /\ BornOK'
      BY <1>3, HandlingKeeps
    <2>2. /\ Created' = Created
          /\ UNCHANGED <<containers, update, task, entry, pc, job, downBy, stirred,
                         missed, labels, state, service>>
      BY <1>3, PassedIs, HandlingKeeps DEF worker, runs, seen
    <2>3. StateTyped'
      <3>1. \A k \in DOMAIN stream' : stream'[k] \in Event
        BY <2>1, ElementOfSeq, LenProperties
      <3> QED
        BY <2>1, <2>2, <3>1 DEF StateTyped, TypeOK, Event
    <2>4. ControlOK'
      <3>1. \A r \in Run : RunFits(r)'
        BY <2>2 DEF ControlOK, RunFits, Idle, AtOne
      <3> QED
        BY <2>1, <3>1 DEF ControlOK, ProcFits
    <2>5. KnownOK'
      <3>1. EntryIds' = EntryIds /\ \A r \in Run : Hands(r)' = Hands(r)
        BY <2>2 DEF EntryIds, Hands
      <3> QED
        BY <2>2, <3>1 DEF KnownOK
    <2> QED
      BY <2>1, <2>3, <2>4, <2>5
  <1> QED
    BY <1>1, <1>2, <1>3

-----------------------------------------------------------------------------
(* Every step *)

Replaced == task # "none" /\ Replace(Jobs(TaskMap)) /\ UNCHANGED labels
Handles(i) == Entered(i) \/ Removed(i) \/ Passed(i)
Runs(r) == Step(r) /\ Turns(r) /\ Works(r)

LEMMA NextForms ==
  ASSUME Shape, Next
  PROVE  \/ \E s \in Service : Create(s)
         \/ \E i \in Ids : Changes(i) \/ Handles(i)
         \/ Ends \/ Boot \/ Watch \/ Receive \/ Replaced
         \/ \E r \in Run : Begin(r) \/ Runs(r)
  <1>1. Killed => Ends
    BY DEF Killed, Ends
  <1>2. handleContainerUpdated \/ handleContainerDestroyed =>
          Ends \/ \E i \in Ids : Handles(i)
    BY HandlerForms DEF Handles
  <1>3. scheduleDockerBackup => Ends \/ Replaced
    BY ScheduleIs DEF Shape, Replaced
  <1>4. ASSUME NEW r \in Run, Step(r)
        PROVE  Ends \/ Runs(r)
    BY <1>4, StepForms DEF Runs
  <1> QED
    BY <1>1, <1>2, <1>3, <1>4 DEF Next, Changes

LEMMA TaskMapIs ==
  ASSUME StateTyped
  PROVE  TaskMap \in Maps /\ IdsIn(TaskMap) \subseteq IdsIn(containers)
  BY EmptyIsMap DEF TaskMap, StateTyped, TypeOK

LEMMA ShapeStep ==
  ASSUME Shape, Next
  PROVE  Shape'
  <1>1. ASSUME NEW s \in Service, Create(s) PROVE Shape'
    BY <1>1, CreateShape
  <1>2. ASSUME NEW i \in Ids, Changes(i) PROVE Shape'
    BY <1>2, ChangeShape
  <1>3. ASSUME NEW i \in Ids, Handles(i) PROVE Shape'
    BY <1>3, HandlingShape DEF Handles
  <1>4. CASE Replaced
    BY <1>4, TaskMapIs, ReplaceShape DEF Replaced, Shape
  <1>5. ASSUME NEW r \in Run, Begin(r) PROVE Shape'
    BY <1>5, BeginShape
  <1>6. ASSUME NEW r \in Run, Runs(r) PROVE Shape'
    BY <1>6, RunStepShape DEF Runs
  <1> QED
    BY <1>1, <1>2, <1>3, <1>4, <1>5, <1>6, NextForms, EndsShape, BootShape, WatchShape



LEMMA InitShape ==
  ASSUME Init
  PROVE  Shape
  <1>1. StateTyped
    <2>1. stream = <<>> /\ containers = Empty /\ labels \in Labels
      BY DEF Init
    <2>2. stream \in Seq(Event) /\ \A k \in DOMAIN stream : stream[k] \in Event
      BY <2>1
    <2>3. /\ state \in [Ids -> States] /\ service \in [Ids -> Service \cup {Nil}]
          /\ pc \in [Run -> Phases] /\ downBy \in [Ids -> Run \cup {Nil}]
          /\ stirred \in [Run -> SUBSET Ids]
      BY DEF Init, States, Phases
    <2>4. job \in [Run -> Job]
      BY NoJobTyped DEF Init
    <2>5. /\ proc = "down" /\ update = "none" /\ task = "none" /\ entry = Nil
          /\ missed = {}
      BY DEF Init
    <2> QED
      BY <2>1, <2>2, <2>3, <2>4, <2>5, EmptyIsMap
      DEF StateTyped, TypeOK, States, Phases, Event
  <1>2. ControlOK
    <2>1. NoJob.cur = Nil
      BY DEF NoJob
    <2>2. \A r \in Run : pc[r] = "idle" /\ job[r] = NoJob
      BY DEF Init
    <2>3. \A r \in Run : RunFits(r)
      BY <2>1, <2>2 DEF RunFits, Idle, AtOne
    <2> QED
      BY <2>2, <2>3 DEF Init, ControlOK, ProcFits, Idle
  <1>3. Created = {}
    BY DEF Init, Created
  <1>5. BornOK
    <2>1. 0 \in 0..MaxId /\ 1..0 = {}
      BY BoundsAssumption
    <2> QED
      BY <1>3, <2>1 DEF BornOK, Init
  <1>6. KnownOK
    <2>1. \A s \in Service : containers[s] = Nil
      BY DEF Init, Empty
    <2>2. EntryIds = {}
      BY DEF Init, EntryIds
    <2>3. ASSUME NEW r \in Run
          PROVE  Hands(r) = {}
      <3>1. job[r] = NoJob
        BY DEF Init
      <3> QED
        BY <3>1, PlanOfNone DEF Hands, NoJob
    <2> QED
      BY <2>1, <2>2, <2>3 DEF KnownOK
  <1> QED
    BY <1>1, <1>2, <1>5, <1>6 DEF Shape

LEMMA ShapeStutter ==
  ASSUME Shape, UNCHANGED vars
  PROVE  Shape'
  <1>1. UNCHANGED <<labels, state, service, stream, proc, containers, update, task,
                    entry, pc, job, downBy, stirred, missed>>
    BY DEF vars, engine, worker, runs, seen
  <1>2. StateTyped' /\ ControlOK'
    BY <1>1 DEF Shape, StateTyped, TypeOK, ControlOK, ProcFits, RunFits, Idle, AtOne
  <1>3. Created' = Created /\ EntryIds' = EntryIds
    BY <1>1 DEF Created, EntryIds
  <1>4. \A r \in Run : Hands(r)' = Hands(r)
    BY <1>1 DEF Hands
  <1>5. BornOK'
    BY <1>1, <1>3 DEF Shape, BornOK
  <1>6. KnownOK'
    BY <1>1, <1>3, <1>4 DEF Shape, KnownOK
  <1> QED
    BY <1>2, <1>5, <1>6 DEF Shape

LEMMA AlwaysShaped == Spec => []Shape
  <1>1. Shape /\ [Next]_vars => Shape'
    BY ShapeStep, ShapeStutter
  <1> QED
    BY <1>1, InitShape, PTL DEF Spec

(* Every variable keeps its type: a run counts no further down than it has
   counted, and has at most the containers of the project to start. *)
THEOREM TypeCorrect == Spec => []TypeOK
  <1>1. Shape => TypeOK
    BY DEF Shape, StateTyped
  <1> QED
    BY <1>1, AlwaysShaped, PTL

-----------------------------------------------------------------------------
(* What was stopped runs again *)

LEMMA NilIsNoRun == \A r \in Run : r # Nil
  BY NilAssumption

LEMMA MapHasWritten ==
  ASSUME containers \in Maps, NEW s \in Service, NEW i \in Ids \cup {Nil},
         containers'[s] = i, \A t \in Service : t # s => containers'[t] = containers[t]
  PROVE  IdsIn(containers)' \subseteq IdsIn(containers) \cup ({i} \ {Nil})
  BY DEF IdsIn



(* Where a run may be after a step, and what it then has to start. *)
LEMMA RunPhase ==
  ASSUME StateTyped, NEW r \in Run, Runs(r), ~Ends
  PROVE  /\ Idle(r)' => End(r) /\ job[r].todo = {} /\ UNCHANGED downBy
         /\ ~Idle(r)' => job'[r].live = job[r].live
         /\ (pc[r] # "restart" /\ pc'[r] = "restart") =>
              job'[r].todo = IdsIn(Map(r)) /\ UNCHANGED downBy
         /\ (pc[r] = "restart" /\ pc'[r] = "restart") =>
              \/ job'[r].todo = job[r].todo /\ UNCHANGED downBy
              \/ \E i \in job[r].todo, ok \in BOOLEAN :
                   job'[r].todo = job[r].todo \ {i} /\ Ensure(r, i, "running", ok)
  <1>0. job[r] \in Job /\ job \in [Run -> Job] /\ pc \in [Run -> Phases]
    BY JobIs DEF StateTyped, TypeOK, Phases
  <1>1. CASE Restart(r)
    <2>1. PICK i \in job[r].todo, ok \in BOOLEAN :
            /\ Ensure(r, i, "running", ok)
            /\ Goto(r, "restart", [job[r] EXCEPT !.todo = @ \ {i}, !.wg = CountedDown(r, ok)])
      BY <1>1 DEF Restart, Ends
    <2>2. /\ pc'[r] = "restart"
          /\ job'[r] = [job[r] EXCEPT !.todo = @ \ {i}, !.wg = CountedDown(r, ok)]
      BY <1>0, <2>1 DEF Goto
    <2>3. job'[r].todo = job[r].todo \ {i} /\ job'[r].live = job[r].live
      BY <1>0, <2>2 DEF Job
    <2> QED
      BY <1>1, <2>1, <2>2, <2>3 DEF Restart, Idle
  <1>2. CASE RangeOver(r)
    <2>1. PICK n \in {job'[r].short} :
            job'[r] = [job[r] EXCEPT !.todo = ToRestart(r), !.short = n] /\ pc'[r] = "restart"
      <3>1. PICK n : Goto(r, "restart", [job[r] EXCEPT !.todo = ToRestart(r), !.short = n])
        BY <1>2 DEF RangeOver
      <3>2. /\ job'[r] = [job[r] EXCEPT !.todo = ToRestart(r), !.short = n]
            /\ pc'[r] = "restart"
        BY <1>0, <3>1 DEF Goto
      <3>3. job'[r].short = n
        BY <1>0, <3>2 DEF Job
      <3> QED
        BY <3>2, <3>3
    <2>2. job'[r].todo = IdsIn(Map(r)) /\ job'[r].live = job[r].live
      BY <1>0, <2>1 DEF Job, ToRestart
    <2> QED
      BY <1>2, <2>1, <2>2 DEF RangeOver, Deciding, seen, Idle
  <1>3. CASE End(r)
    <2>1. UNCHANGED downBy /\ pc[r] = "restart"
      BY <1>3 DEF End, Deciding, seen
    <2>2. CASE job[r].todo = {} /\ Goto(r, "idle", NoJob)
      <3>1. pc'[r] = "idle"
        BY <1>0, <2>2 DEF Goto
      <3> QED
        BY <1>3, <2>1, <2>2, <3>1 DEF Idle
    <2>3. CASE Goto(r, "restart", [job[r] EXCEPT !.own = FALSE])
      <3>1. pc'[r] = "restart" /\ job'[r] = [job[r] EXCEPT !.own = FALSE]
        BY <1>0, <2>3 DEF Goto
      <3>2. job'[r].todo = job[r].todo /\ job'[r].live = job[r].live
        BY <1>0, <3>1 DEF Job
      <3> QED
        BY <2>1, <3>1, <3>2 DEF Idle
    <2> QED
      BY <1>3, <2>2, <2>3 DEF End
  <1>4. CASE \/ Pick(r) \/ EnsureSelf(r) \/ Group(r, "dependencies", "running")
             \/ Group(r, "dependents", "exited") \/ DependenciesDone(r) \/ DependentsDone(r)
             \/ Exec(r) \/ ReadDone(r) \/ Count(r)
    <2>1. pc'[r] \in At \cup {"next", "range"}
      BY <1>0, <1>4 DEF Pick, EnsureSelf, Group, DependenciesDone, DependentsDone, Exec,
         ReadDone, Count, Goto, GiveUp, Proceed, At
    <2>2. PICK phase \in Phases, j \in Job : Goto(r, phase, j) /\ Fit(r, phase, j)
      BY DEF Runs, Turns
    <2>3. pc'[r] = phase /\ job'[r] = j
      BY <1>0, <2>2 DEF Goto
    <2>4. \A phase1, j1 : Goto(r, phase1, j1) => job'[r] = j1
      BY <1>0 DEF Goto
    <2>a. Again(r).live = job[r].live
      BY <1>0 DEF Again, Job
    <2>5. j.live = job[r].live
      <3>1. CASE Pick(r)
        BY <1>0, <2>3, <2>4, <3>1 DEF Pick, Job
      <3>2. CASE EnsureSelf(r)
        BY <1>0, <2>3, <2>4, <2>a, <3>2 DEF EnsureSelf, GiveUp, Job
      <3>3. ASSUME NEW p, NEW want, Group(r, p, want)
            PROVE  j.live = job[r].live
        <4>1. PICK i, ok : Goto(r, p, [job[r] EXCEPT !.todo = @ \ {i}, !.failed = @ \/ ~ok])
          BY <3>3 DEF Group
        <4> QED
          BY <1>0, <2>3, <2>4, <4>1 DEF Job
      <3>4. CASE DependenciesDone(r)
        BY <1>0, <2>3, <2>4, <2>a, <3>4 DEF DependenciesDone, GiveUp, Proceed, Job
      <3>5. CASE DependentsDone(r) \/ Exec(r) \/ ReadDone(r)
        BY <1>0, <2>3, <2>4, <2>a, <3>5 DEF DependentsDone, Exec, ReadDone, GiveUp, Proceed
      <3>6. CASE Count(r)
        BY <1>0, <2>3, <2>4, <3>6 DEF Count, Job
      <3> QED
        BY <1>4, <3>1, <3>2, <3>3, <3>4, <3>5, <3>6
    <2> QED
      BY <2>1, <2>3, <2>5 DEF Idle, At
  <1> QED
    BY <1>1, <1>2, <1>3, <1>4 DEF Runs, Step

LEMMA WakesRun ==
  ASSUME Shape, WakesOK, NEW r \in Run, Runs(r), ~Ends
  PROVE  WakesOK'
  <1>1. StateTyped /\ ControlOK
    BY DEF Shape
  <1>2. /\ Alive' = Alive /\ containers' = containers
        /\ \A i \in Ids : \/ downBy'[i] \in {Nil, downBy[i]}
                          \/ downBy'[i] = r /\ i \in Alive /\ i \in IdsIn(Map(r))
        /\ \A q \in Run : q # r => pc'[q] = pc[q] /\ job'[q] = job[q]
    BY <1>1, WorksKeeps, TurnIs DEF Runs, Works, worker
  <1>3. /\ Idle(r)' => End(r) /\ job[r].todo = {} /\ UNCHANGED downBy
        /\ ~Idle(r)' => job'[r].live = job[r].live
        /\ (pc[r] # "restart" /\ pc'[r] = "restart") =>
             job'[r].todo = IdsIn(Map(r)) /\ UNCHANGED downBy
        /\ (pc[r] = "restart" /\ pc'[r] = "restart") =>
             \/ job'[r].todo = job[r].todo /\ UNCHANGED downBy
             \/ \E k \in job[r].todo, ok \in BOOLEAN :
                  job'[r].todo = job[r].todo \ {k} /\ Ensure(r, k, "running", ok)
    BY <1>1, RunPhase
  <1>4. SUFFICES ASSUME NEW i \in Ids, NEW q \in Run, downBy'[i] = q
                 PROVE  /\ ~Idle(q)' /\ i \in Alive /\ i \in IdsIn(Map(q))'
                        /\ pc'[q] = "restart" => i \in job'[q].todo
    BY <1>2 DEF WakesOK
  <1>5. q # Nil
    BY NilIsNoRun
  <1>6. CASE q # r
    <2>1. downBy[i] = q
      BY <1>2, <1>4, <1>5, <1>6
    <2>2. IdsIn(Map(q))' = IdsIn(Map(q))
      BY <1>2, <1>6 DEF Map, IdsIn
    <2> QED
      BY <1>2, <1>6, <2>1, <2>2 DEF WakesOK, Idle
  <1>7. CASE q = r
    <2>1. i \in Alive /\ i \in IdsIn(Map(r))
      BY <1>2, <1>4, <1>5, <1>7 DEF WakesOK
    <2>2. ~Idle(r)'
      <3>1. SUFFICES ASSUME Idle(r)' PROVE FALSE
        OBVIOUS
      <3>2. downBy[i] = r /\ pc[r] = "restart" /\ job[r].todo = {}
        BY <1>3, <1>4, <1>7, <3>1 DEF End
      <3> QED
        BY <3>2 DEF WakesOK
    <2>3. IdsIn(Map(r))' = IdsIn(Map(r))
      BY <1>2, <1>3, <2>2 DEF Map, IdsIn
    <2>4. ASSUME pc'[r] = "restart" PROVE i \in job'[r].todo
      <3>1. CASE pc[r] # "restart"
        BY <1>3, <2>1, <2>4, <3>1
      <3>2. CASE pc[r] = "restart" /\ job'[r].todo = job[r].todo /\ UNCHANGED downBy
        BY <1>4, <1>7, <3>2 DEF WakesOK
      <3>3. ASSUME pc[r] = "restart", NEW k \in job[r].todo, NEW ok \in BOOLEAN,
                   job'[r].todo = job[r].todo \ {k}, Ensure(r, k, "running", ok)
            PROVE  i \in job'[r].todo
        <4>1. /\ \A j \in Ids : j # k => downBy'[j] = downBy[j]
              /\ k \in Alive => downBy'[k] = Nil
          BY <1>1, <3>3, EnsureIs
        <4>2. i # k
          BY <1>4, <1>5, <2>1, <4>1
        <4>3. downBy[i] = r
          BY <1>4, <1>7, <4>1, <4>2
        <4> QED
          BY <3>3, <4>2, <4>3 DEF WakesOK
      <3> QED
        BY <1>3, <2>4, <3>1, <3>2, <3>3
    <2> QED
      BY <1>7, <2>1, <2>2, <2>3, <2>4
  <1> QED
    BY <1>6, <1>7

LEMMA WakesHandle ==
  ASSUME Shape, WakesOK, NEW i \in Ids, Entered(i) \/ Removed(i)
  PROVE  WakesOK'
  <1>1. StateTyped
    BY DEF Shape
  <1>2. pc' = pc /\ Alive' = Alive
    BY HandlingKeeps
  <1>3. PICK s \in Service, c \in Ids \cup {Nil} : Wrote(s, c)
    BY EnteredIs, RemovedIs
  <1>4. /\ \A j \in Ids : downBy'[j] = IF j \in IdsIn(containers)' THEN downBy[j] ELSE Nil
        /\ \A r \in Run : /\ job'[r].todo = job[r].todo
                          /\ job'[r].live = (job[r].live /\ containers' # Empty)
    BY <1>1, <1>3, WroteIs
  <1>5. SUFFICES ASSUME NEW j \in Ids, NEW r \in Run, downBy'[j] = r
                 PROVE  /\ ~Idle(r) /\ j \in Alive /\ j \in IdsIn(Map(r))'
                        /\ pc[r] = "restart" => j \in job[r].todo
    BY <1>2, <1>4 DEF WakesOK, Idle
  <1>6. r # Nil
    BY NilIsNoRun
  <1>7. downBy[j] = r /\ j \in IdsIn(containers)'
    BY <1>4, <1>5, <1>6
  <1>8. ~Idle(r) /\ j \in Alive /\ j \in IdsIn(Map(r)) /\ (pc[r] = "restart" => j \in job[r].todo)
    BY <1>7 DEF WakesOK
  <1>9. job[r].live
    BY <1>1, <1>8, MapIs
  <1>10. containers' # Empty
    <2>1. SUFFICES ASSUME containers' = Empty PROVE FALSE
      OBVIOUS
    <2>2. IdsIn(containers)' = {}
      BY <2>1, EmptyIsMap DEF IdsIn
    <2> QED
      BY <1>7, <2>2
  <1>11. Map(r)' = containers'
    BY <1>4, <1>9, <1>10 DEF Map
  <1>12. IdsIn(Map(r))' = IdsIn(containers)'
    BY <1>11 DEF IdsIn
  <1> QED
    BY <1>7, <1>8, <1>12

LEMMA WakesStep ==
  ASSUME Shape, WakesOK, Next
  PROVE  WakesOK'
  <1>1. StateTyped /\ KnownOK /\ ControlOK
    BY DEF Shape
  <1>2. ASSUME UNCHANGED <<containers, pc, job>>,
               \A j \in Ids : downBy'[j] \in {Nil, downBy[j]},
               \A j \in Ids : downBy'[j] # Nil /\ j \in Alive => j \in Alive'
        PROVE  WakesOK'
    <2>1. \A r \in Run : IdsIn(Map(r))' = IdsIn(Map(r)) /\ Idle(r)' = Idle(r)
      BY <1>2 DEF Map, IdsIn, Idle
    <2>2. \A j \in Ids, r \in Run : downBy'[j] = r => downBy[j] = r /\ downBy'[j] # Nil
      BY <1>2, NilIsNoRun
    <2> QED
      BY <1>2, <2>1, <2>2 DEF WakesOK
  <1>3. ASSUME NEW s \in Service, Create(s) PROVE WakesOK'
    <2>1. PICK i \in Ids :
            Alive' = Alive \cup {i} /\ UNCHANGED <<labels, worker, runs, downBy, stirred>>
      BY <1>3, CreateIs
    <2> QED
      BY <1>2, <2>1 DEF worker, runs
  <1>4. ASSUME NEW i \in Ids, Changes(i) PROVE WakesOK'
    <2>1. /\ state'[i] \in {"exited", "running", "gone"}
          /\ state'[i] = "gone" => downBy'[i] = Nil
          /\ \A j \in Ids : j # i => state'[j] = state[j]
          /\ \A j \in Ids : downBy'[j] \in {Nil, downBy[j]}
          /\ UNCHANGED <<labels, service, worker, runs>>
      BY <1>4, ChangeIs
    <2>2. \A j \in Ids : downBy'[j] # Nil /\ j \in Alive => j \in Alive'
      BY <2>1 DEF Alive
    <2> QED
      BY <1>2, <2>1, <2>2 DEF worker, runs
  <1>5. ASSUME NEW i \in Ids, Handles(i) PROVE WakesOK'
    <2>1. CASE Passed(i)
      BY <1>2, <2>1, PassedIs DEF worker, runs, seen, Alive
    <2> QED
      BY <1>5, <2>1, WakesHandle DEF Handles
  <1>6. CASE Ends
    <2>1. \A i \in Ids : downBy'[i] = Nil
      BY <1>6 DEF Ends, Dies
    <2> QED
      BY <2>1, NilIsNoRun DEF WakesOK
  <1>7. CASE Boot \/ Watch \/ Receive
    <2>1. CASE Boot
      <3>1. downBy' = downBy /\ proc = "down"
        BY <2>1 DEF Boot
      <3>2. \A i \in Ids : downBy'[i] = Nil
        BY <1>1, <3>1 DEF ControlOK, ProcFits
      <3> QED
        BY <3>2, NilIsNoRun DEF WakesOK
    <2>2. CASE Watch \/ Receive
      <3>1. UNCHANGED <<containers, pc, job, downBy, state>>
        BY <2>2 DEF Watch, Receive, engine, runs, seen
      <3> QED
        BY <1>2, <3>1 DEF Alive
    <2> QED
      BY <1>7, <2>1, <2>2
  <1>8. CASE Replaced
    <2>1. /\ containers' = containers /\ pc' = pc /\ downBy' = downBy /\ state' = state
          /\ \A r \in Run : job'[r].todo = job[r].todo /\ job'[r].live = job[r].live
      BY <1>1, <1>8, ReplaceIs, TaskMapIs DEF Replaced
    <2>2. \A r \in Run : IdsIn(Map(r))' = IdsIn(Map(r))
      BY <2>1 DEF Map, IdsIn
    <2> QED
      BY <2>1, <2>2 DEF WakesOK, Idle, Alive
  <1>9. ASSUME NEW r \in Run, Begin(r) PROVE WakesOK'
    <2>1. /\ Idle(r) /\ UNCHANGED <<labels, engine, worker, seen>>
          /\ \A q \in Run : q # r => pc'[q] = pc[q] /\ job'[q] = job[q]
      BY <1>9, BeginIs
    <2>2. containers' = containers /\ downBy' = downBy /\ state' = state
      BY <2>1 DEF engine, worker, seen
    <2>3. \A q \in Run : q # r => IdsIn(Map(q))' = IdsIn(Map(q))
      BY <2>1, <2>2 DEF Map, IdsIn
    <2>4. \A i \in Ids : downBy[i] # r
      BY <2>1 DEF WakesOK
    <2> QED
      BY <2>1, <2>2, <2>3, <2>4 DEF WakesOK, Idle, Alive
  <1>10. ASSUME NEW r \in Run, Runs(r), ~Ends PROVE WakesOK'
    BY <1>10, WakesRun
  <1> QED
    BY <1>3, <1>4, <1>5, <1>6, <1>7, <1>8, <1>9, <1>10, NextForms

LEMMA AlwaysWakes == Spec => []WakesOK
  <1>1. Init => WakesOK
    BY NilIsNoRun DEF Init, WakesOK
  <1>2. Shape /\ WakesOK /\ [Next]_vars => WakesOK'
    <2>1. SUFFICES ASSUME Shape, WakesOK, [Next]_vars PROVE WakesOK'
      OBVIOUS
    <2>2. CASE Next
      BY <2>1, <2>2, WakesStep
    <2>3. CASE UNCHANGED vars
      BY <2>1, <2>3 DEF vars, engine, worker, runs, seen, WakesOK, Idle, Alive, IdsIn, Map
    <2> QED
      BY <2>1, <2>2, <2>3
  <1> QED
    BY <1>1, <1>2, AlwaysShaped, PTL DEF Spec

(* What a run has stopped, and nobody started since, is down no longer than that
   run, as long as it stays with the project: what EnsureContainerStopped took
   down, the loop at the end of Run starts, unless the engine fails to. *)
THEOREM StoppedAreStarted == Spec => []WhatWasStoppedRuns
  <1>1. Shape /\ WakesOK => WhatWasStoppedRuns
    <2>1. SUFFICES ASSUME Shape, WakesOK, NEW i \in Alive, downBy[i] # Nil
                   PROVE  ~Idle(downBy[i])
      BY DEF WhatWasStoppedRuns
    <2>2. i \in Ids /\ downBy[i] \in Run
      BY <2>1 DEF Shape, StateTyped, TypeOK, Alive
    <2> QED
      BY <2>1, <2>2 DEF WakesOK
  <1> QED
    BY <1>1, AlwaysShaped, AlwaysWakes, PTL

-----------------------------------------------------------------------------
(* What a backup has taken down is down while borg reads *)

(* Whatever starts for one who is at a backup is noted. *)
Noted(r) ==
  /\ \A i \in Ids : state'[i] = "running" /\ state[i] # "running" => i \in stirred'[r]
  /\ \A i \in stirred[r] : state'[i] = "running" => i \in stirred'[r]

LEMMA DependentsAre ==
  ASSUME StateTyped, NEW r \in Run
  PROVE  Dependents(r) \subseteq IdsIn(Map(r)) /\ Dependents(r) \subseteq Ids
  BY MapIs DEF Dependents

(* What others do does not disturb a backup. *)
LEMMA QuietKept ==
  ASSUME Shape, NEW r \in Run, AtOne(r), QuietAt(r), Noted(r), labels' = labels,
         \A i \in Created : service'[i] = service[i],
         pc'[r] = pc[r], job'[r].cur = job[r].cur, job'[r].todo = job[r].todo,
         job'[r].failed = job[r].failed,
         IdsIn(Map(r))' \subseteq IdsIn(Map(r)) \cup stirred'[r]
  PROVE  QuietAt(r)'
  <1>1. StateTyped /\ KnownOK
    BY DEF Shape
  <1>2. job[r].cur \in Ids /\ job[r].cur \in Created
    BY CurIs
  <1>3. ModeOf(r)' = ModeOf(r) /\ service'[job'[r].cur] = service[job[r].cur]
    BY <1>2 DEF ModeOf, LabelOf
  <1>4. IdsIn(Map(r)) \subseteq Created
    BY <1>1, MapIs, CachedAreCreated
  <1>5. \A i \in IdsIn(Map(r)) : labels'[service'[i]] = labels[service[i]]
    BY <1>4
  <1>6. Dependents(r)' \subseteq Dependents(r) \cup stirred'[r]
    BY <1>3, <1>5 DEF Dependents, LabelOf
  <1>7. Dependents(r) \subseteq Ids
    BY <1>1, DependentsAre
  <1>8. ASSUME NEW S \in SUBSET Ids, NEW T, Quiet(r, S), T \subseteq S \cup stirred'[r]
        PROVE  \A i \in T : state'[i] = "running" => i \in stirred'[r]
    BY <1>8 DEF Quiet, Noted
  <1>9. pc[r] = "dependents" /\ ~job[r].failed => Quiet(r, Dependents(r) \ job[r].todo)'
    BY <1>6, <1>7, <1>8 DEF QuietAt, Quiet
  <1>10. pc[r] \in {"exec", "read"} /\ ModeOf(r) = "dependentOffline" =>
           Quiet(r, Dependents(r))'
    BY <1>6, <1>7, <1>8 DEF QuietAt, Quiet
  <1>11. pc[r] = "read" /\ ModeOf(r) = "offline" => Quiet(r, {job[r].cur})'
    <2>1. ASSUME Quiet(r, {job[r].cur})
          PROVE  \A i \in {job[r].cur} : state'[i] = "running" => i \in stirred'[r]
      BY <1>2, <1>8, <2>1
    <2> QED
      BY <2>1 DEF QuietAt, Quiet
  <1> QED
    BY <1>3, <1>9, <1>10, <1>11 DEF QuietAt

LEMMA QuietElse ==
  ASSUME NEW r \in Run, pc'[r] \notin At \ {"self"}
  PROVE  QuietAt(r)'
  BY DEF QuietAt, At

(* Nothing moves, and the run neither. *)
LEMMA NotedSame ==
  ASSUME state' = state, stirred' = stirred
  PROVE  \A r \in Run : Noted(r)
  BY DEF Noted

LEMMA NotedChange ==
  ASSUME Shape, NEW i \in Ids, Changes(i), NEW r \in Run, job[r].cur # Nil
  PROVE  Noted(r)
  <1>1. state \in [Ids -> States] /\ stirred \in [Run -> SUBSET Ids]
    BY DEF Shape, StateTyped, TypeOK, States
  <1>2. CASE Destroy(i)
    BY <1>1, <1>2 DEF Destroy, Noted
  <1>3. CASE Start(i)
    BY <1>1, <1>3 DEF Start, Stir, Noted
  <1>4. CASE Exit(i)
    BY <1>1, <1>4 DEF Exit, seen, Noted
  <1>5. CASE Update(i)
    BY <1>5, NotedSame DEF Update
  <1> QED
    BY <1>2, <1>3, <1>4, <1>5 DEF Changes

LEMMA NotedEnsure ==
  ASSUME StateTyped, NEW q \in Run, NEW r \in Run, r # q, job[r].cur # Nil, NEW i,
         NEW want \in {"exited", "running"}, NEW ok \in BOOLEAN, Ensure(q, i, want, ok)
  PROVE  Noted(r)
  <1>1. \A j \in Ids : j # i => state'[j] = state[j]
    BY DEF Ensure, Alive, StateTyped, TypeOK
  <1>2. i \notin Alive => state' = state
    BY EnsureIs
  <1>3. i \in Alive /\ state'[i] = "running" /\ state[i] # "running" =>
          \A p \in Run \ {q} : job[p].cur # Nil => i \in stirred'[p]
    BY EnsureIs
  <1>4. stirred[r] \subseteq stirred'[r]
    BY EnsureIs
  <1> QED
    BY <1>1, <1>2, <1>3, <1>4 DEF Noted

LEMMA NotedRun ==
  ASSUME StateTyped, NEW q \in Run, Runs(q), ~Ends, NEW r \in Run, r # q, job[r].cur # Nil
  PROVE  Noted(r)
  <1>1. ASSUME NEW i, NEW want \in {"exited", "running"}, NEW ok \in BOOLEAN,
               Ensure(q, i, want, ok)
        PROVE  Noted(r)
    BY <1>1, NotedEnsure
  <1>2. CASE Restart(q)
    BY <1>1, <1>2 DEF Restart, Ends
  <1>3. CASE EnsureSelf(q)
    BY <1>1, <1>3 DEF EnsureSelf
  <1>4. CASE Group(q, "dependencies", "running") \/ Group(q, "dependents", "exited")
    BY <1>1, <1>4 DEF Group
  <1>5. CASE Pick(q) \/ Count(q)
    <2>1. state' = state /\ stirred'[r] = stirred[r]
      BY <1>5 DEF Pick, Count, engine, StateTyped, TypeOK
    <2> QED
      BY <2>1 DEF Noted
  <1>6. CASE \/ DependenciesDone(q) \/ DependentsDone(q) \/ Exec(q) \/ ReadDone(q)
             \/ RangeOver(q) \/ End(q)
    <2>1. state' = state /\ stirred' = stirred
      BY <1>6 DEF DependenciesDone, DependentsDone, Exec, ReadDone, RangeOver, End, Deciding,
         engine, seen
    <2> QED
      BY <2>1, NotedSame
  <1> QED
    BY <1>2, <1>3, <1>4, <1>5, <1>6 DEF Runs, Step

(* The steps of a backup itself. *)
LEMMA QuietSelf ==
  ASSUME Shape, NEW r \in Run, QuietAt(r), EnsureSelf(r)
  PROVE  QuietAt(r)'
  <1>1. StateTyped /\ job[r] \in Job /\ pc \in [Run -> Phases] /\ job \in [Run -> Job]
    BY JobIs DEF Shape, StateTyped, TypeOK, Phases
  <1>2. job[r].cur \in Ids
    BY CurIs DEF EnsureSelf, AtOne
  <1>3. PICK ok \in BOOLEAN :
          LET offline == LabelOf(job[r].cur).mode = "offline" IN
            /\ Ensure(r, job[r].cur, IF offline THEN "exited" ELSE "running", ok)
            /\ IF ~ok THEN GiveUp(r)
               ELSE IF offline THEN Goto(r, "read", job[r])
               ELSE Goto(r, "dependencies", [job[r] EXCEPT !.todo = Dependencies(r)])
    BY DEF EnsureSelf
  <1>4. labels' = labels /\ service' = service
    BY DEF EnsureSelf, Running
  <1>5. CASE ~ok
    <2>1. pc'[r] = "next"
      BY <1>1, <1>3, <1>5 DEF GiveUp, Goto
    <2> QED
      BY <2>1, QuietElse DEF At
  <1>6. CASE ok /\ ModeOf(r) = "offline"
    <2>1. pc'[r] = "read" /\ job'[r] = job[r] /\ Ensure(r, job[r].cur, "exited", TRUE)
      BY <1>1, <1>3, <1>6 DEF ModeOf, Goto
    <2>2. state'[job[r].cur] = "exited"
      BY <1>1, <1>2, <2>1 DEF Ensure, Alive, StateTyped, TypeOK
    <2>3. ModeOf(r)' = "offline"
      BY <1>4, <1>6, <2>1 DEF ModeOf, LabelOf
    <2> QED
      BY <2>1, <2>2, <2>3 DEF QuietAt, Quiet
  <1>7. CASE ok /\ ModeOf(r) # "offline"
    <2>1. /\ pc'[r] = "dependencies"
          /\ job'[r] = [job[r] EXCEPT !.todo = Dependencies(r)]
      BY <1>1, <1>3, <1>7 DEF ModeOf, Goto
    <2>2. job'[r].cur = job[r].cur
      BY <1>1, <2>1 DEF Job
    <2>3. ModeOf(r)' # "offline"
      BY <1>4, <1>7, <2>2 DEF ModeOf, LabelOf
    <2> QED
      BY <2>1, <2>3 DEF QuietAt
  <1> QED
    BY <1>5, <1>6, <1>7

LEMMA QuietGroup ==
  ASSUME Shape, NEW r \in Run, QuietAt(r), NEW phase \in {"dependencies", "dependents"},
         NEW want \in {"exited", "running"}, phase = "dependents" => want = "exited",
         Group(r, phase, want)
  PROVE  QuietAt(r)'
  <1>1. StateTyped /\ job[r] \in Job /\ pc \in [Run -> Phases] /\ job \in [Run -> Job]
    BY JobIs DEF Shape, StateTyped, TypeOK, Phases
  <1>2. PICK i \in job[r].todo, ok \in BOOLEAN :
          /\ Ensure(r, i, want, ok)
          /\ Goto(r, phase, [job[r] EXCEPT !.todo = @ \ {i}, !.failed = @ \/ ~ok])
    BY DEF Group
  <1>3. /\ labels' = labels /\ service' = service /\ containers' = containers
        /\ pc[r] = phase
    BY DEF Group, Running, worker
  <1>4. pc'[r] = phase /\ job'[r] = [job[r] EXCEPT !.todo = @ \ {i}, !.failed = @ \/ ~ok]
    BY <1>1, <1>2, <1>3 DEF Goto
  <1>5. job[r].failed \in BOOLEAN
    BY <1>1 DEF Job
  <1>6. job'[r].cur = job[r].cur /\ job'[r].live = job[r].live
    BY <1>1, <1>4 DEF Job
  <1>7. job'[r].todo = job[r].todo \ {i}
    BY <1>1, <1>4 DEF Job
  <1>8. job'[r].failed = (job[r].failed \/ ~ok)
    BY <1>1, <1>4 DEF Job
  <1>9. ModeOf(r)' = ModeOf(r) /\ Dependents(r)' = Dependents(r)
    BY <1>3, <1>6 DEF ModeOf, LabelOf, Dependents, Map, IdsIn
  <1>10. ASSUME phase = "dependents", ~job'[r].failed
         PROVE  Quiet(r, Dependents(r) \ job[r].todo)'
    <2>1. ok /\ ~job[r].failed
      BY <1>5, <1>8, <1>10
    <2>2. Quiet(r, Dependents(r) \ job[r].todo)
      BY <1>3, <1>10, <2>1 DEF QuietAt
    <2>3. /\ state'[i] = "exited" /\ i \in Ids
          /\ \A j \in Ids : j # i => state'[j] = state[j]
      BY <1>1, <1>2, <1>10, <2>1 DEF Ensure, Alive, StateTyped, TypeOK
    <2>4. stirred'[r] = stirred[r]
      <3>1. \A p \in {r} : stirred'[p] = stirred[p]
        BY <1>1, <1>2 DEF Ensure, Stir, StateTyped, TypeOK
      <3> QED
        BY <3>1
    <2>5. Dependents(r) \subseteq Ids
      BY <1>1, DependentsAre
    <2>6. ASSUME NEW j \in Dependents(r) \ job'[r].todo, state'[j] = "running"
          PROVE  j \in stirred'[r]
      <3>1. j # i /\ state[j] = "running" /\ j \in Dependents(r) \ job[r].todo
        BY <1>7, <2>3, <2>5, <2>6
      <3> QED
        BY <2>2, <2>4, <3>1 DEF Quiet
    <2> QED
      BY <1>9, <2>6 DEF Quiet
  <1> QED
    BY <1>3, <1>4, <1>9, <1>10 DEF QuietAt

(* Steps that only decide where a backup goes. *)
LEMMA QuietDecides ==
  ASSUME Shape, NEW r \in Run, QuietAt(r),
         \/ DependenciesDone(r) \/ DependentsDone(r) \/ Exec(r) \/ ReadDone(r)
  PROVE  QuietAt(r)'
  <1>1. StateTyped /\ job[r] \in Job /\ pc \in [Run -> Phases] /\ job \in [Run -> Job]
    BY JobIs DEF Shape, StateTyped, TypeOK, Phases
  <1>2. /\ labels' = labels /\ service' = service /\ containers' = containers
        /\ state' = state /\ stirred' = stirred
    BY DEF DependenciesDone, DependentsDone, Exec, ReadDone, Deciding, engine, worker, seen
  <1>3. AtOne(r)
    BY DEF DependenciesDone, DependentsDone, Exec, ReadDone, AtOne
  <1>4. ModeOf(r) \in Mode
    BY <1>3, CurIs DEF ModeOf, Label
  <1>5. \A p, j : Goto(r, p, j) => pc'[r] = p /\ job'[r] = j
    BY <1>1 DEF Goto
  <1>6. CASE GiveUp(r)
    <2>1. pc'[r] = "next"
      BY <1>5, <1>6 DEF GiveUp
    <2> QED
      BY <2>1, QuietElse DEF At
  <1>7. ASSUME NEW p \in {"exec", "read"}, Goto(r, p, job[r]), ModeOf(r) # "offline",
               ModeOf(r) = "dependentOffline" => Quiet(r, Dependents(r))
        PROVE  QuietAt(r)'
    <2>1. pc'[r] = p /\ job'[r] = job[r]
      BY <1>5, <1>7
    <2>2. ModeOf(r)' = ModeOf(r) /\ Dependents(r)' = Dependents(r)
      BY <1>2, <2>1 DEF ModeOf, LabelOf, Dependents, Map, IdsIn
    <2> QED
      BY <1>2, <1>7, <2>1, <2>2 DEF QuietAt, Quiet
  <1>8. CASE DependenciesDone(r)
    <2>1. ModeOf(r) # "offline"
      BY <1>8 DEF DependenciesDone, QuietAt
    <2>2. CASE job[r].failed
      BY <1>6, <1>8, <2>2 DEF DependenciesDone
    <2>3. CASE ~job[r].failed /\ ModeOf(r) = "default"
      <3>1. Proceed(r)
        BY <1>8, <2>3 DEF DependenciesDone, ModeOf
      <3> QED
        BY <1>7, <2>1, <2>3, <3>1 DEF Proceed
    <2>4. CASE ~job[r].failed /\ ModeOf(r) # "default"
      <3>1. Goto(r, "dependents", [job[r] EXCEPT !.todo = Dependents(r)])
        BY <1>8, <2>4 DEF DependenciesDone, ModeOf
      <3>2. pc'[r] = "dependents" /\ job'[r] = [job[r] EXCEPT !.todo = Dependents(r)]
        BY <1>5, <3>1
      <3>3. /\ job'[r].cur = job[r].cur /\ job'[r].live = job[r].live
            /\ job'[r].todo = Dependents(r)
        BY <1>1, <3>2 DEF Job
      <3>4. ModeOf(r)' = ModeOf(r) /\ Dependents(r)' = Dependents(r)
        BY <1>2, <3>3 DEF ModeOf, LabelOf, Dependents, Map, IdsIn
      <3>5. ModeOf(r) = "dependentOffline"
        BY <1>4, <2>1, <2>4 DEF Mode
      <3> QED
        BY <3>2, <3>3, <3>4, <3>5 DEF QuietAt, Quiet
    <2> QED
      BY <2>2, <2>3, <2>4
  <1>9. CASE DependentsDone(r)
    <2>1. CASE job[r].failed
      BY <1>6, <1>9, <2>1 DEF DependentsDone
    <2>2. CASE ~job[r].failed
      <3>1. /\ Proceed(r) /\ ModeOf(r) = "dependentOffline"
            /\ Quiet(r, Dependents(r) \ job[r].todo) /\ job[r].todo = {}
        BY <1>9, <2>2 DEF DependentsDone, QuietAt
      <3>2. Quiet(r, Dependents(r))
        BY <3>1 DEF Quiet
      <3> QED
        BY <1>7, <3>1, <3>2 DEF Proceed
    <2> QED
      BY <2>1, <2>2
  <1>10. CASE Exec(r)
    BY <1>6, <1>7, <1>10 DEF Exec, QuietAt
  <1>11. CASE ReadDone(r)
    BY <1>6, <1>11 DEF ReadDone
  <1> QED
    BY <1>8, <1>9, <1>10, <1>11

LEMMA QuietRun ==
  ASSUME Shape, NEW r \in Run, QuietAt(r), Runs(r), ~Ends
  PROVE  QuietAt(r)'
  <1>1. pc \in [Run -> Phases] /\ job \in [Run -> Job]
    BY DEF Shape, StateTyped, TypeOK, Phases
  <1>2. CASE EnsureSelf(r)
    BY <1>2, QuietSelf
  <1>3. CASE Group(r, "dependencies", "running")
    BY <1>3, QuietGroup
  <1>4. CASE Group(r, "dependents", "exited")
    BY <1>4, QuietGroup
  <1>5. CASE DependenciesDone(r) \/ DependentsDone(r) \/ Exec(r) \/ ReadDone(r)
    BY <1>5, QuietDecides
  <1>6. CASE Pick(r) \/ Count(r) \/ RangeOver(r) \/ Restart(r) \/ End(r)
    <2>1. pc'[r] \notin At \ {"self"}
      BY <1>1, <1>6 DEF Runs, Pick, Count, RangeOver, Restart, End, Ends, Goto, At
    <2> QED
      BY <2>1, QuietElse
  <1> QED
    BY <1>2, <1>3, <1>4, <1>5, <1>6 DEF Runs, Step

LEMMA QuietStep ==
  ASSUME Shape, QuietOK, Next
  PROVE  QuietOK'
  <1>1. StateTyped /\ KnownOK /\ ControlOK /\ containers \in Maps
    BY DEF Shape, StateTyped, TypeOK
  <1>2. ASSUME NEW r \in Run, pc'[r] = pc[r], ~AtOne(r)
        PROVE  QuietAt(r)'
    BY <1>2, QuietElse DEF AtOne, At
  (* Others leave the run where it is. *)
  <1>3. ASSUME NEW r \in Run, labels' = labels, service' = service,
               containers' = containers, pc'[r] = pc[r], job'[r].live = job[r].live,
               job'[r].cur = job[r].cur, job'[r].todo = job[r].todo,
               job'[r].failed = job[r].failed, job[r].cur # Nil => Noted(r)
        PROVE  QuietAt(r)'
    <2>1. IdsIn(Map(r))' = IdsIn(Map(r))
      BY <1>3 DEF IdsIn, Map
    <2>2. AtOne(r) => job[r].cur # Nil
      BY <1>1 DEF ControlOK, RunFits
    <2> QED
      BY <1>2, <1>3, <2>1, <2>2, QuietKept DEF QuietOK
  <1>4. ASSUME NEW s \in Service, Create(s), NEW r \in Run PROVE QuietAt(r)'
    <2>1. PICK i \in Ids :
            /\ state[i] = "unborn" /\ i \notin Created
            /\ state' = [state EXCEPT ![i] = "exited"]
            /\ service' = [service EXCEPT ![i] = s]
            /\ UNCHANGED <<labels, worker, runs, downBy, stirred>>
      BY <1>4, CreateIs
    <2>2. containers' = containers /\ pc' = pc /\ job' = job
      BY <2>1 DEF worker, runs
    <2>3. IdsIn(Map(r))' = IdsIn(Map(r))
      BY <2>2 DEF IdsIn, Map
    <2>4. Noted(r)
      BY <1>1, <2>1 DEF Noted, StateTyped, TypeOK
    <2>5. \A k \in Created : service'[k] = service[k]
      BY <1>1, <2>1 DEF StateTyped, TypeOK, Created
    <2> QED
      BY <1>2, <2>1, <2>2, <2>3, <2>4, <2>5, QuietKept DEF QuietOK
  <1>5. ASSUME NEW i \in Ids, Changes(i), NEW r \in Run PROVE QuietAt(r)'
    <2>1. UNCHANGED <<labels, service, worker, runs>>
      BY <1>5, ChangeIs
    <2>2. job[r].cur # Nil => Noted(r)
      BY <1>5, NotedChange
    <2> QED
      BY <1>3, <2>1, <2>2 DEF worker, runs
  <1>6. ASSUME NEW i \in Ids, Entered(i) \/ Removed(i), NEW r \in Run PROVE QuietAt(r)'
    <2>1. PICK s \in Service, c \in {i, Nil} : Wrote(s, c)
      BY <1>6, EnteredIs, RemovedIs
    <2>2. c \in Ids \cup {Nil}
      OBVIOUS
    <2>3. /\ containers'[s] = c
          /\ \A t \in Service : t # s => containers'[t] = containers[t]
          /\ UNCHANGED <<proc, pc, missed, labels, state, service>>
      BY <1>1, <2>1, <2>2, WroteIs
    <2>4. /\ job'[r].cur = job[r].cur /\ job'[r].todo = job[r].todo
          /\ job'[r].failed = job[r].failed
          /\ job'[r].live = (job[r].live /\ containers' # Empty)
      BY <1>1, <2>1, <2>2, WroteIs
    <2>5. stirred[r] \subseteq stirred'[r] /\ (c # Nil /\ job[r].cur # Nil => c \in stirred'[r])
      BY <1>1, <2>1, <2>2, WroteIs
    <2>6. IdsIn(containers)' \subseteq IdsIn(containers) \cup ({c} \ {Nil})
      BY <1>1, <2>2, <2>3, MapHasWritten
    <2>7. job[r].cur # Nil => IdsIn(Map(r))' \subseteq IdsIn(Map(r)) \cup stirred'[r]
      <3>1. CASE job[r].live /\ containers' # Empty
        BY <2>4, <2>5, <2>6, <3>1 DEF Map
      <3>2. CASE ~(job[r].live /\ containers' # Empty)
        <4>1. Map(r)' = Empty
          BY <2>4, <3>2 DEF Map, Empty
        <4>2. IdsIn(Map(r))' = {}
          BY <4>1, EmptyIsMap DEF IdsIn
        <4> QED
          BY <4>2
      <3> QED
        BY <3>1, <3>2
    <2>8. Noted(r)
      BY <2>3, <2>5 DEF Noted
    <2>9. AtOne(r) => job[r].cur # Nil
      BY <1>1 DEF ControlOK, RunFits
    <2> QED
      BY <1>2, <2>3, <2>4, <2>7, <2>8, <2>9, QuietKept DEF QuietOK
  <1>7. ASSUME NEW i \in Ids, Passed(i), NEW r \in Run PROVE QuietAt(r)'
    <2>1. UNCHANGED <<worker, runs, seen, labels, state, service>>
      BY <1>7, PassedIs
    <2>2. Noted(r)
      BY <2>1, NotedSame DEF seen
    <2> QED
      BY <1>3, <2>1, <2>2 DEF worker, runs
  <1>8. ASSUME Ends, NEW r \in Run PROVE QuietAt(r)'
    <2>1. pc'[r] = "idle"
      BY <1>8 DEF Ends, Dies
    <2> QED
      BY <2>1, QuietElse DEF At
  <1>9. ASSUME Boot, NEW r \in Run PROVE QuietAt(r)'
    <2>1. pc' = pc /\ Idle(r)
      BY <1>1, <1>9 DEF Boot, runs, ControlOK, ProcFits
    <2> QED
      BY <2>1, QuietElse DEF At, Idle
  <1>10. ASSUME Watch \/ Receive, NEW r \in Run PROVE QuietAt(r)'
    <2>1. /\ labels' = labels /\ service' = service /\ containers' = containers
          /\ pc' = pc /\ job' = job /\ state' = state /\ stirred' = stirred
      BY <1>10 DEF Watch, Receive, engine, runs, seen
    <2>2. Noted(r)
      BY <2>1, NotedSame
    <2> QED
      BY <1>3, <2>1, <2>2
  <1>11. ASSUME Replaced, NEW r \in Run PROVE QuietAt(r)'
    <2>1. /\ labels' = labels /\ service' = service /\ containers' = containers
          /\ pc' = pc /\ state' = state /\ stirred' = stirred
      BY <1>1, <1>11, ReplaceIs, TaskMapIs DEF Replaced
    <2>2. /\ job'[r].cur = job[r].cur /\ job'[r].todo = job[r].todo
          /\ job'[r].failed = job[r].failed /\ job'[r].live = job[r].live
      BY <1>1, <1>11, ReplaceIs, TaskMapIs DEF Replaced
    <2>3. Noted(r)
      BY <2>1, NotedSame
    <2> QED
      BY <1>3, <2>1, <2>2, <2>3
  <1>12. ASSUME NEW q \in Run, Begin(q), NEW r \in Run PROVE QuietAt(r)'
    <2>1. /\ UNCHANGED <<labels, engine, worker, seen>> /\ pc'[q] = "next"
          /\ \A p \in Run : p # q => pc'[p] = pc[p] /\ job'[p] = job[p]
      BY <1>12, BeginIs
    <2>2. Noted(r)
      BY <2>1, NotedSame DEF engine, seen
    <2>3. CASE r = q
      BY <2>1, <2>3, QuietElse DEF At
    <2>4. CASE r # q
      BY <1>3, <2>1, <2>2, <2>4 DEF engine, worker
    <2> QED
      BY <2>3, <2>4
  <1>13. ASSUME NEW q \in Run, Runs(q), ~Ends, NEW r \in Run PROVE QuietAt(r)'
    <2>1. CASE r = q
      BY <1>13, <2>1, QuietRun DEF QuietOK
    <2>2. CASE r # q
      <3>1. /\ pc'[r] = pc[r] /\ job'[r] = job[r]
            /\ UNCHANGED <<labels, service, stream, worker, missed>>
        BY <1>1, <1>13, <2>2, TurnIs DEF Runs, Works
      <3>2. job[r].cur # Nil => Noted(r)
        BY <1>1, <1>13, <2>2, NotedRun
      <3> QED
        BY <1>3, <3>1, <3>2 DEF worker
    <2> QED
      BY <2>1, <2>2
  <1>14. ASSUME NEW r \in Run PROVE QuietAt(r)'
    BY <1>4, <1>5, <1>6, <1>7, <1>8, <1>9, <1>10, <1>11, <1>12, <1>13, NextForms DEF Handles
  <1> QED
    BY <1>14 DEF QuietOK

LEMMA AlwaysQuiet == Spec => []QuietOK
  <1>1. Init => QuietOK
    BY DEF Init, QuietOK, QuietAt
  <1>2. Shape /\ QuietOK /\ [Next]_vars => QuietOK'
    <2>1. SUFFICES ASSUME Shape, QuietOK, [Next]_vars PROVE QuietOK'
      OBVIOUS
    <2>2. CASE Next
      BY <2>1, <2>2, QuietStep
    <2>3. CASE UNCHANGED vars
      <3>1. /\ labels' = labels /\ containers' = containers /\ pc' = pc /\ job' = job
            /\ state' = state /\ stirred' = stirred /\ service' = service
        BY <2>3 DEF vars, engine, worker, runs, seen
      <3> QED
        BY <2>1, <3>1 DEF QuietOK, QuietAt, Quiet, ModeOf, LabelOf, Dependents, Map, IdsIn
    <2> QED
      BY <2>1, <2>2, <2>3
  <1> QED
    BY <1>1, <1>2, AlwaysShaped, PTL DEF Spec

(* While borg reads the volumes or the output of a container, what its mode asks
   to be down is down: runOfflineBackup stops the container and
   runDependentOfflineBackup its dependents, and no step of theirs starts them
   before the read is over. *)
THEOREM ReadsAreQuiet == Spec => []QuietWhileRead
  <1>1. QuietOK => QuietWhileRead
    BY DEF QuietOK, QuietAt, Quiet, QuietWhileRead, Dependents, ModeOf
  <1> QED
    BY <1>1, AlwaysQuiet, PTL

-----------------------------------------------------------------------------
(* The job in the scheduler *)

(* What a job is made of stays while the containers' services and labels do. *)
LEMMA PlansStay ==
  ASSUME NEW S, IsFiniteSet(S), labels' = labels, \A i \in S : service'[i] = service[i]
  PROVE  Plans(S)' = Plans(S)
  <1>1. ASSUME NEW a \in S, NEW b \in S PROVE Less(a, b)' <=> Less(a, b)
    BY DEF Less, LabelOf
  <1>2. ASSUME NEW p \in [1..Cardinality(S) -> S], NEW k \in 1..(Cardinality(S) - 1)
        PROVE  /\ Less(p[k + 1], p[k])' <=> Less(p[k + 1], p[k])
               /\ Less(p[k], p[k + 1])' <=> Less(p[k], p[k + 1])
    <2>1. Cardinality(S) \in Nat
      BY FS_CardinalityType
    <2>2. k \in 1..Cardinality(S) /\ k + 1 \in 1..Cardinality(S)
      BY <2>1
    <2>3. p[k] \in S /\ p[k + 1] \in S
      BY <2>2
    <2> QED
      BY <1>1, <2>3
  <1> QED
    BY <1>2 DEF Plans

LEMMA JobsStay ==
  ASSUME containers \in Maps, labels' = labels, containers' = containers,
         \A i \in IdsIn(containers) : service'[i] = service[i]
  PROVE  Jobs(containers)' = Jobs(containers)
  <1>1. IdsIn(containers)' = IdsIn(containers)
    BY DEF IdsIn
  <1>2. \A i \in IdsIn(containers) : labels'[service'[i]] = labels[service[i]]
    OBVIOUS
  <1>3. {i \in IdsIn(containers) : NeedsBackup(i)}' = {i \in IdsIn(containers) : NeedsBackup(i)}
    BY <1>1, <1>2 DEF NeedsBackup, LabelOf
  <1>4. Refused(containers)' <=> Refused(containers)
    BY <1>1, <1>2 DEF Refused, LabelOf
  <1>5. ASSUME NEW S \in SUBSET IdsIn(containers) PROVE Plans(S)' = Plans(S)
    <2>1. IsFiniteSet(S)
      BY IdsInFew, FS_Subset
    <2> QED
      BY <2>1, PlansStay
  <1> QED
    BY <1>3, <1>4, <1>5 DEF Jobs, Empty

LEMMA EntryHandle ==
  ASSUME Shape, EntryOK, NEW i \in Ids, Entered(i) \/ Removed(i)
  PROVE  EntryOK'
  <1>1. StateTyped /\ containers \in Maps
    BY DEF Shape, StateTyped, TypeOK
  <1>2. PICK s \in Service, c \in Ids \cup {Nil} : Wrote(s, c)
    <2>1. CASE Entered(i)
      <3>1. Wrote(service[i], i) /\ service[i] \in Service
        BY <2>1 DEF Entered, Took, Shape, BornOK, Alive, Created
      <3> QED
        BY <3>1
    <2>2. CASE Removed(i)
      BY <2>2, RemovedIs
    <2> QED
      BY <2>1, <2>2
  <1>3. update' = IF containers' = Empty THEN "dropped" ELSE "cache"
    BY <1>1, <1>2, WroteIs
  <1> QED
    BY <1>3 DEF EntryOK

LEMMA EntryStep ==
  ASSUME Shape, EntryOK, Next
  PROVE  EntryOK'
  <1>1. StateTyped /\ KnownOK /\ ControlOK /\ containers \in Maps
    BY DEF Shape, StateTyped, TypeOK
  <1>2. IdsIn(containers) \subseteq Created
    BY <1>1, CachedAreCreated
  <1>3. ASSUME UNCHANGED <<labels, worker>>, \A i \in Created : service'[i] = service[i]
        PROVE  EntryOK'
    <2>1. /\ containers' = containers /\ proc' = proc /\ update' = update /\ task' = task
          /\ entry' = entry
      BY <1>3 DEF worker
    <2>2. Jobs(containers)' = Jobs(containers)
      BY <1>1, <1>2, <1>3, <2>1, JobsStay
    <2> QED
      BY <2>1, <2>2 DEF EntryOK, Empty
  <1>4. ASSUME NEW s \in Service, Create(s) PROVE EntryOK'
    <2>1. PICK i \in Ids :
            /\ i \notin Created /\ service' = [service EXCEPT ![i] = s]
            /\ UNCHANGED <<labels, worker, runs, downBy, stirred>>
      BY <1>4, CreateIs
    <2>2. \A k \in Created : service'[k] = service[k]
      BY <1>1, <2>1 DEF StateTyped, TypeOK, Created
    <2> QED
      BY <1>3, <2>1, <2>2
  <1>5. ASSUME NEW i \in Ids, Changes(i) PROVE EntryOK'
    <2>1. UNCHANGED <<labels, service, worker, runs>>
      BY <1>5, ChangeIs
    <2> QED
      BY <1>3, <2>1
  <1>6. ASSUME NEW i \in Ids, Handles(i) PROVE EntryOK'
    <2>1. CASE Entered(i) \/ Removed(i)
      BY <2>1, EntryHandle
    <2>2. CASE Passed(i)
      BY <1>3, <2>2, PassedIs
    <2> QED
      BY <1>6, <2>1, <2>2 DEF Handles
  <1>7. CASE Ends
    BY <1>7 DEF Ends, Dies, EntryOK, Empty
  <1>8. CASE Boot
    <2>1. PICK m \in Maps : containers' = m /\ entry' \in Jobs(m)
      BY <1>8 DEF Boot
    <2>2. update' = "none" /\ task' = "none" /\ labels' = labels /\ service' = service
      BY <1>1, <1>8 DEF Boot, ControlOK, ProcFits, engine
    <2>3. Jobs(m)' = Jobs(m)
      BY <2>2 DEF Jobs, Refused, Plans, Less, NeedsBackup, LabelOf, Empty, IdsIn
    <2>4. Jobs(containers)' = Jobs(m)
      BY <2>1, <2>3
    <2> QED
      BY <2>1, <2>2, <2>4 DEF EntryOK
  <1>9. CASE Watch
    <2>1. /\ UNCHANGED <<labels, engine, containers, update, task, entry, runs, seen>>
          /\ proc = "read"
      BY <1>9 DEF Watch
    <2>2. service' = service /\ containers' = containers
      BY <2>1 DEF engine
    <2>3. Jobs(containers)' = Jobs(containers)
      BY <1>1, <2>1, <2>2, JobsStay
    <2> QED
      BY <2>1, <2>3 DEF EntryOK, Empty
  <1>10. CASE Receive
    BY <1>10 DEF Receive, EntryOK, Empty
  <1>11. CASE Replaced
    <2>1. /\ task # "none" /\ entry' \in Jobs(TaskMap) /\ task' = "none"
          /\ UNCHANGED <<labels, engine, proc, containers, update>>
      BY <1>11 DEF Replaced, Replace
    <2>2. Jobs(containers)' = Jobs(containers)
      BY <1>1, <2>1, JobsStay DEF engine
    <2>3. update = "none" => TaskMap = containers
      BY <1>1, <2>1 DEF TaskMap, EntryOK, StateTyped, TypeOK
    <2> QED
      BY <2>1, <2>2, <2>3 DEF EntryOK, Empty
  <1>12. ASSUME NEW r \in Run, Begin(r) PROVE EntryOK'
    <2>1. UNCHANGED <<labels, engine, worker, seen>>
      BY <1>12, BeginIs
    <2> QED
      BY <1>3, <2>1 DEF engine
  <1>13. ASSUME NEW r \in Run, Runs(r) PROVE EntryOK'
    BY <1>3, <1>13 DEF Runs, Works
  <1> QED
    BY <1>4, <1>5, <1>6, <1>7, <1>8, <1>9, <1>10, <1>11, <1>12, <1>13, NextForms

-----------------------------------------------------------------------------
(* What the cache has *)

LEMMA TwoOfOne ==
  ASSUME NEW s \in Service, ~(Cardinality(Of(s)) > 1)
  PROVE  \A a, b \in Of(s) : a = b
  <1>1. Of(s) \subseteq Ids /\ IsFiniteSet(Ids)
    BY BoundsAssumption, FS_Interval DEF Of, Alive, Ids
  <1>2. IsFiniteSet(Of(s))
    BY <1>1, FS_Subset
  <1>3. SUFFICES ASSUME NEW a \in Of(s), NEW b \in Of(s), a # b PROVE FALSE
    OBVIOUS
  <1>4. IsFiniteSet({a}) /\ Cardinality({a}) = 1
    BY FS_Singleton
  <1>5. b \notin {a}
    BY <1>3
  <1>6. IsFiniteSet({a} \cup {b}) /\ Cardinality({a} \cup {b}) = 2
    BY <1>4, <1>5, FS_AddElement
  <1>7. {a} \cup {b} \in SUBSET Of(s)
    OBVIOUS
  <1>8. Cardinality({a} \cup {b}) <= Cardinality(Of(s))
    BY <1>2, <1>7, FS_Subset
  <1>9. Cardinality(Of(s)) \in Nat
    BY <1>2, FS_CardinalityType
  <1> QED
    BY <1>6, <1>8, <1>9

(* A service of which the step changes nothing. *)
LEMMA CacheFrame ==
  ASSUME KnownOK, BornOK, NEW s \in Service, CacheAt(s),
         containers'[s] = containers[s], Of(s)' = Of(s), About(s)' = About(s),
         \A j \in Created : service[j] = s => (j \in Alive' <=> j \in Alive),
         \A k \in DOMAIN stream : k \in DOMAIN stream' /\ stream'[k] = stream[k]
  PROVE  CacheAt(s)'
  <1>1. Nil \notin Alive /\ Nil \notin Alive'
    BY NilIsNoId DEF Alive
  <1>2. \A x, n : Goes(x, n) => Goes(x, n)'
    BY DEF Goes
  <1>3. ASSUME About(s) = {} PROVE CachedAt(s)'
    <2>1. CachedAt(s)
      BY <1>3 DEF CacheAt
    <2>2. containers[s] \in Alive' <=> containers[s] \in Alive
      BY <1>1 DEF KnownOK
    <2>3. NewestOf(s, containers[s]) => NewestOf(s, containers[s])'
      BY <2>2 DEF NewestOf
    <2> QED
      BY <1>1, <1>2, <2>1, <2>2, <2>3 DEF CachedAt
  <1>4. ASSUME NEW k \in About(s), \A l \in About(s) : l <= k PROVE LastAt(s, k)'
    <2>1. LastAt(s, k)
      BY <1>4 DEF CacheAt
    <2>2. k \in DOMAIN stream /\ service[stream[k].id] = s
      BY DEF About
    <2>3. stream'[k] = stream[k] /\ stream[k].id \in Created
      BY <2>2 DEF BornOK
    <2>4. stream[k].id \in Alive' <=> stream[k].id \in Alive
      BY <2>2, <2>3
    <2>5. NewestOf(s, stream[k].id) => NewestOf(s, stream[k].id)'
      BY <2>3, <2>4 DEF NewestOf
    <2> QED
      BY <1>2, <2>1, <2>3, <2>4, <2>5 DEF LastAt
  <1> QED
    BY <1>3, <1>4 DEF CacheAt

LEMMA Appended ==
  ASSUME StateTyped, proc = "up", NEW ev \in {"create", "update", "destroy"},
         NEW i \in Ids, Emit(ev, i)
  PROVE  \E n \in Nat :
           /\ n \notin DOMAIN stream /\ DOMAIN stream' = DOMAIN stream \cup {n}
           /\ stream'[n] = [ev |-> ev, id |-> i] /\ 0 < n
           /\ \A k \in DOMAIN stream : stream'[k] = stream[k] /\ k \in Nat /\ 0 < k /\ k < n
  <1> DEFINE e == [ev |-> ev, id |-> i]  n == Len(stream) + 1
  <1>1. stream \in Seq(Event) /\ e \in Event
    BY DEF StateTyped, Event
  <1>2. stream' = Append(stream, e)
    BY DEF Emit
  <1>3. /\ DOMAIN stream' = DOMAIN stream \cup {n} /\ stream'[n] = e
        /\ n \in Nat /\ n \notin DOMAIN stream
        /\ \A k \in DOMAIN stream : stream'[k] = stream[k] /\ k \in Nat /\ 0 < k /\ k < n
    BY <1>1, <1>2, OfAppend
  <1>4. 0 < n
    BY <1>1, LenProperties
  <1> QED
    BY <1>3, <1>4

(* A container of another service comes, is updated or goes. *)
LEMMA CacheOther ==
  ASSUME Shape, NEW ev \in {"create", "update", "destroy"}, NEW i \in Ids, Emit(ev, i),
         NEW s \in Service, CacheAt(s), service'[i] # s, containers' = containers,
         i \in Created => service'[i] = service[i],
         \A j \in Ids : j # i => service'[j] = service[j] /\ (j \in Alive' <=> j \in Alive)
  PROVE  CacheAt(s)'
  <1>1. StateTyped /\ KnownOK /\ BornOK
    BY DEF Shape
  <1>2. Alive \subseteq Ids /\ Alive' \subseteq Ids /\ Alive \subseteq Created /\ Created \subseteq Ids
    BY DEF Alive, Created
  <1>3. Of(s)' = Of(s)
    BY <1>2 DEF Of
  <1>4. /\ \A k \in DOMAIN stream : k \in DOMAIN stream' /\ stream'[k] = stream[k]
        /\ \A k \in DOMAIN stream' :
             k \in DOMAIN stream \/ stream'[k] = [ev |-> ev, id |-> i]
    <2>1. CASE proc = "up"
      <3>1. PICK n \in Nat :
              /\ n \notin DOMAIN stream /\ DOMAIN stream' = DOMAIN stream \cup {n}
              /\ stream'[n] = [ev |-> ev, id |-> i] /\ 0 < n
              /\ \A k \in DOMAIN stream :
                   stream'[k] = stream[k] /\ k \in Nat /\ 0 < k /\ k < n
        BY <1>1, <2>1, Appended
      <3> QED
        BY <3>1
    <2>2. CASE proc # "up"
      BY <1>1, <2>2, EmitIs
    <2> QED
      BY <2>1, <2>2
  <1>5. \A k \in DOMAIN stream : service'[stream[k].id] = service[stream[k].id]
    BY <1>1, <1>2 DEF BornOK
  <1>6. About(s)' = About(s)
    BY <1>4, <1>5 DEF About
  <1>7. \A j \in Created : service[j] = s => (j \in Alive' <=> j \in Alive)
    BY <1>2
  <1> QED
    BY <1>1, <1>3, <1>4, <1>6, <1>7, CacheFrame

(* The newest container of a service is announced. *)
LEMMA CacheNewest ==
  ASSUME StateTyped, proc = "up", NEW ev \in {"create", "update"}, NEW i \in Ids, Emit(ev, i),
         NEW s \in Service, service'[i] = s, i \in Alive', \A j \in Of(s)' : j <= i
  PROVE  CacheAt(s)'
  <1>1. PICK n \in Nat :
          /\ n \notin DOMAIN stream /\ DOMAIN stream' = DOMAIN stream \cup {n}
          /\ stream'[n] = [ev |-> ev, id |-> i] /\ 0 < n
          /\ \A k \in DOMAIN stream : stream'[k] = stream[k] /\ k \in Nat /\ 0 < k /\ k < n
    <2>1. ev \in {"create", "update", "destroy"}
      OBVIOUS
    <2> QED
      BY <2>1, Appended
  <1>2. n \in About(s)'
    BY <1>1 DEF About
  <1>3. ASSUME NEW k \in About(s)', \A l \in About(s)' : l <= k PROVE k = n
    <2>1. k \in DOMAIN stream' /\ n <= k
      BY <1>2, <1>3 DEF About
    <2> QED
      BY <1>1, <2>1
  <1>4. LastAt(s, n)'
    BY <1>1 DEF LastAt, NewestOf
  <1> QED
    BY <1>2, <1>3, <1>4 DEF CacheAt

(* Containers come, are updated and go in the engine. *)
LEMMA CacheCreate ==
  ASSUME Shape, CacheOK, NEW s0 \in Service, Create(s0)
  PROVE  CacheOK'
  <1>1. StateTyped
    BY DEF Shape
  <1>2. PICK i \in Ids :
          /\ Emit("create", i) /\ service' = [service EXCEPT ![i] = s0]
          /\ i \notin Created /\ Created' = 1..i /\ Alive' = Alive \cup {i}
          /\ UNCHANGED <<labels, worker, runs, downBy, stirred>>
    BY CreateIs
  <1>3. containers' = containers /\ proc' = proc
    BY <1>2 DEF worker
  <1>4. SUFFICES ASSUME proc # "down", NEW s \in Service, s \notin missed'
                 PROVE  CacheAt(s)'
    BY <1>3 DEF CacheOK
  <1>5. service'[i] = s0 /\ \A j \in Ids : j # i => service'[j] = service[j]
    BY <1>1, <1>2 DEF StateTyped, TypeOK
  <1>6. /\ proc = "up" \/ s # s0
        /\ s # s0 => s \notin missed
    BY <1>1, <1>4 DEF Create, StateTyped, TypeOK
  <1>7. CASE s = s0
    <2>1. Of(s)' \subseteq 1..i
      BY <1>2 DEF Of, Alive, Created
    <2>2. i \in Nat
      BY NilIsNoId
    <2>3. \A j \in Of(s)' : j <= i
      BY <2>1, <2>2
    <2> QED
      BY <1>1, <1>2, <1>5, <1>6, <1>7, <2>3, CacheNewest
  <1>8. CASE s # s0
    <2>1. CacheAt(s)
      BY <1>4, <1>6, <1>8 DEF CacheOK
    <2> QED
      BY <1>2, <1>3, <1>5, <1>8, <2>1, CacheOther
  <1> QED
    BY <1>7, <1>8

LEMMA CacheUpdate ==
  ASSUME Shape, CacheOK, NEW i \in Ids, Update(i)
  PROVE  CacheOK'
  <1>1. StateTyped
    BY DEF Shape
  <1>2. /\ i \in Alive /\ proc = "up" /\ Emit("update", i)
        /\ missed' = IF \A j \in Of(service[i]) : j <= i THEN missed \ {service[i]}
                     ELSE missed \cup {service[i]}
        /\ UNCHANGED <<labels, state, service, worker, runs, downBy, stirred>>
    BY DEF Update
  <1>3. containers' = containers /\ proc' = proc /\ Alive' = Alive
        /\ \A s \in Service : Of(s)' = Of(s)
    BY <1>2 DEF worker, Alive, Of
  <1>4. SUFFICES ASSUME NEW s \in Service, s \notin missed'
                 PROVE  CacheAt(s)'
    BY <1>3 DEF CacheOK
  <1>5. CASE s = service[i]
    <2>1. \A j \in Of(s)' : j <= i
      BY <1>2, <1>3, <1>4, <1>5
    <2> QED
      BY <1>1, <1>2, <1>3, <1>5, <2>1, CacheNewest
  <1>6. CASE s # service[i]
    <2>1. CacheAt(s)
      BY <1>2, <1>4, <1>6 DEF CacheOK
    <2> QED
      BY <1>2, <1>3, <1>6, <2>1, CacheOther
  <1> QED
    BY <1>5, <1>6

LEMMA CacheDestroy ==
  ASSUME Shape, CacheOK, NEW i \in Ids, Destroy(i)
  PROVE  CacheOK'
  <1>1. StateTyped /\ KnownOK /\ BornOK
    BY DEF Shape
  <1>2. /\ i \in Alive /\ state' = [state EXCEPT ![i] = "gone"] /\ Emit("destroy", i)
        /\ UNCHANGED <<labels, service, worker, runs>>
    BY DEF Destroy
  <1>3. containers' = containers /\ proc' = proc
    BY <1>2 DEF worker
  <1>4. SUFFICES ASSUME proc # "down", NEW s \in Service, s \notin missed'
                 PROVE  CacheAt(s)'
    BY <1>3 DEF CacheOK
  <1>5. Alive' = Alive \ {i} /\ Alive \subseteq Ids
    BY <1>1, <1>2 DEF Alive, StateTyped, TypeOK
  <1>6. s \notin missed /\ CacheAt(s)
    BY <1>4 DEF CacheOK, Destroy
  <1>7. CASE s # service[i]
    BY <1>2, <1>3, <1>5, <1>6, <1>7, CacheOther
  <1>8. CASE s = service[i]
    <2>1. proc = "up" /\ (i = Latest(s) => Of(s) = {i})
      BY <1>1, <1>4, <1>8 DEF Destroy, StateTyped, TypeOK
    <2>2. Of(s)' = Of(s) \ {i} /\ i \in Of(s)
      BY <1>2, <1>5, <1>8 DEF Of
    <2>3. PICK n \in Nat :
            /\ n \notin DOMAIN stream /\ DOMAIN stream' = DOMAIN stream \cup {n}
            /\ stream'[n] = [ev |-> "destroy", id |-> i] /\ 0 < n
            /\ \A k \in DOMAIN stream :
                 stream'[k] = stream[k] /\ k \in Nat /\ 0 < k /\ k < n
      BY <1>1, <1>2, <2>1, Appended
    <2>4. About(s)' = About(s)
      BY <1>2, <2>3 DEF About
    <2>5. ASSUME NEW x, NEW m \in Nat, m < n, NewestOf(s, x), x \notin Alive => FALSE
          PROVE  NewestOf(s, x)' /\ (x \notin Alive' => Goes(x, m)')
      <3>1. x \in Alive /\ \A j \in Of(s) : j <= x
        BY <2>5 DEF NewestOf
      <3>2. CASE x = i
        <4>1. Of(s) \subseteq Nat
          BY NilIsNoId DEF Of, Alive
        <4>2. Latest(s) \in Of(s) /\ \A j \in Of(s) : j <= Latest(s)
          BY <2>2, <3>1, <3>2 DEF Latest
        <4>3. Latest(s) = i
          BY <2>2, <3>1, <3>2, <4>1, <4>2
        <4>4. Of(s)' = {} /\ x \notin Alive'
          BY <1>5, <2>1, <2>2, <3>2, <4>3
        <4>5. Goes(x, m)'
          BY <2>3, <2>5, <3>2 DEF Goes
        <4> QED
          BY <4>4, <4>5 DEF NewestOf
      <3>3. CASE x # i
        BY <1>5, <2>2, <3>1, <3>3 DEF NewestOf
      <3> QED
        BY <3>2, <3>3
    <2>6. \A x : NewestOf(s, x) => x \in Alive
      BY <2>2 DEF NewestOf
    <2>7. ASSUME About(s) = {} PROVE CachedAt(s)'
      <3>1. NewestOf(s, containers[s])
        BY <1>6, <2>7 DEF CacheAt, CachedAt
      <3> QED
        BY <1>3, <2>3, <2>5, <2>6, <3>1 DEF CachedAt
    <2>8. ASSUME NEW k \in About(s), \A l \in About(s) : l <= k PROVE LastAt(s, k)'
      <3>1. NewestOf(s, stream[k].id)
        BY <1>6, <2>8 DEF CacheAt, LastAt
      <3>2. k \in Nat /\ k < n /\ stream'[k] = stream[k]
        BY <2>3 DEF About
      <3> QED
        BY <2>5, <2>6, <3>1, <3>2 DEF LastAt
    <2> QED
      BY <2>4, <2>7, <2>8 DEF CacheAt
  <1> QED
    BY <1>7, <1>8

(* The handler takes the first event of the stream. *)
LEMMA Shifted ==
  ASSUME Shape, NEW ev \in {"create", "update", "destroy"}, NEW i \in Ids, Took(ev, i),
         stream' = Tail(stream), service' = service
  PROVE  /\ 1 \in DOMAIN stream /\ stream[1] = [ev |-> ev, id |-> i]
         /\ \A s : \A k \in About(s)' :
              k \in Nat /\ k + 1 \in About(s) /\ stream'[k] = stream[k + 1]
         /\ \A s : \A k \in About(s) : k \in Nat /\ (k = 1 \/ k - 1 \in About(s)')
         /\ \A x : \A n \in Nat : Goes(x, n + 1) => Goes(x, n)'
         /\ \A x : Goes(x, 0) => Goes(x, 0)' \/ (ev = "destroy" /\ x = i)
  <1>1. /\ 1 \in DOMAIN stream /\ stream[1] = [ev |-> ev, id |-> i]
        /\ \A k \in DOMAIN stream' :
             k \in Nat /\ 0 < k /\ k + 1 \in DOMAIN stream /\ stream'[k] = stream[k + 1]
        /\ \A k \in DOMAIN stream :
             k \in Nat /\ (k # 1 => k - 1 \in DOMAIN stream' /\ stream'[k - 1] = stream[k])
    BY TookIs
  <1>2. ASSUME NEW s, NEW k \in About(s)'
        PROVE  k \in Nat /\ k + 1 \in About(s) /\ stream'[k] = stream[k + 1]
    BY <1>1, <1>2 DEF About
  <1>3. ASSUME NEW s, NEW k \in About(s)
        PROVE  k \in Nat /\ (k = 1 \/ k - 1 \in About(s)')
    BY <1>1, <1>3 DEF About
  <1>4. ASSUME NEW x, NEW n \in Nat, Goes(x, n + 1) PROVE Goes(x, n)'
    <2>1. PICK l \in DOMAIN stream : n + 1 < l /\ stream[l] = [ev |-> "destroy", id |-> x]
      BY <1>4 DEF Goes
    <2>2. /\ l \in Nat /\ l # 1 /\ l - 1 \in DOMAIN stream' /\ n < l - 1
          /\ stream'[l - 1] = stream[l]
      BY <1>1, <2>1
    <2> QED
      BY <2>1, <2>2 DEF Goes
  <1>5. ASSUME NEW x, Goes(x, 0), ev # "destroy" \/ x # i PROVE Goes(x, 0)'
    <2>1. PICK l \in DOMAIN stream : stream[l] = [ev |-> "destroy", id |-> x]
      BY <1>5 DEF Goes
    <2>2. l # 1
      BY <1>1, <1>5, <2>1
    <2>3. l - 1 \in DOMAIN stream' /\ stream'[l - 1] = stream[l]
      BY <1>1, <2>2
    <2>4. 0 < l - 1
      BY <1>1, <2>3
    <2> QED
      BY <2>1, <2>3, <2>4 DEF Goes
  <1> QED
    BY <1>1, <1>2, <1>3, <1>4, <1>5

(* There are other events of the service that tell of a container. *)
LEMMA CacheLater ==
  ASSUME Shape, NEW ev \in {"create", "update", "destroy"}, NEW i \in Ids, Took(ev, i),
         stream' = Tail(stream), UNCHANGED <<state, service>>,
         NEW s \in Service, CacheAt(s),
         NEW k \in About(s)', \A l \in About(s)' : l <= k
  PROVE  LastAt(s, k)'
  <1>1. k \in Nat /\ k + 1 \in About(s) /\ stream'[k] = stream[k + 1]
    BY Shifted
  <1>2. ASSUME NEW l \in About(s) PROVE l <= k + 1
    <2>1. l \in Nat /\ (l = 1 \/ l - 1 \in About(s)')
      BY <1>2, Shifted
    <2>2. l = 1 \/ l - 1 <= k
      BY <2>1
    <2> QED
      BY <1>1, <2>1, <2>2
  <1>3. LastAt(s, k + 1)
    BY <1>1, <1>2 DEF CacheAt
  <1>4. Alive' = Alive /\ Of(s)' = Of(s)
    BY DEF Alive, Of
  <1>5. PICK x : x = stream[k + 1].id
    OBVIOUS
  <1>6. x = (stream[k].id)'
    BY <1>1, <1>5
  <1>7. Goes(x, k + 1) => Goes(x, k)'
    BY <1>1, Shifted
  <1>8. NewestOf(s, x) => NewestOf(s, x)'
    BY <1>4 DEF NewestOf
  <1>9. NewestOf(s, x) /\ (x \notin Alive => Goes(x, k + 1))
    BY <1>3, <1>5 DEF LastAt
  <1>10. NewestOf(s, (stream[k].id))' /\ ((stream[k].id)' \notin Alive' => Goes(stream[k].id, k)')
    BY <1>4, <1>6, <1>7, <1>8, <1>9 DEF NewestOf, Goes
  <1> QED
    BY <1>10 DEF LastAt

(* The handler brings the cache what the stream announced. *)
LEMMA CacheEntered ==
  ASSUME Shape, CacheOK, NEW i \in Ids, Entered(i)
  PROVE  CacheOK'
  <1>1. StateTyped /\ KnownOK
    BY DEF Shape
  <1>2. i \in Alive /\ service[i] \in Service /\ Wrote(service[i], i)
    BY EnteredIs
  <1>3. /\ containers'[service[i]] = i
        /\ \A t \in Service : t # service[i] => containers'[t] = containers[t]
        /\ UNCHANGED <<proc, missed, state, service>>
    BY <1>1, <1>2, WroteIs
  <1>4. PICK ev \in {"create", "update"} : Took(ev, i)
    BY DEF Entered
  <1>5. stream' = Tail(stream)
    BY <1>2 DEF Wrote
  <1>6. SUFFICES ASSUME proc # "down", NEW s \in Service, s \notin missed
                 PROVE  CacheAt(s)'
    BY <1>3 DEF CacheOK
  <1>7. CacheAt(s) /\ Alive' = Alive /\ Of(s)' = Of(s)
    BY <1>3, <1>6 DEF CacheOK, Alive, Of
  <1>8. /\ stream[1] = [ev |-> ev, id |-> i] /\ 1 \in DOMAIN stream
        /\ \A k \in About(s) : k \in Nat /\ (k = 1 \/ k - 1 \in About(s)')
        /\ \A x : Goes(x, 0) => Goes(x, 0)'
    BY <1>3, <1>4, <1>5, Shifted
  <1>9. ASSUME About(s)' = {} PROVE CachedAt(s)'
    <2>1. \A k \in About(s) : k = 1
      BY <1>8, <1>9
    <2>2. CASE s = service[i]
      <3>1. 1 \in About(s) /\ \A k \in About(s) : k <= 1
        BY <1>8, <2>1, <2>2 DEF About
      <3>2. NewestOf(s, i)
        BY <1>7, <1>8, <3>1 DEF CacheAt, LastAt
      <3> QED
        BY <1>2, <1>3, <1>7, <2>2, <3>2 DEF CachedAt, NewestOf
    <2>3. CASE s # service[i]
      <3>1. About(s) = {}
        BY <1>8, <2>1, <2>3 DEF About
      <3>2. CachedAt(s) /\ containers'[s] = containers[s]
        BY <1>3, <1>7, <2>3, <3>1 DEF CacheAt
      <3> QED
        BY <1>7, <1>8, <3>2 DEF CachedAt, NewestOf
    <2> QED
      BY <2>2, <2>3
  <1>10. ASSUME NEW k \in About(s)', \A l \in About(s)' : l <= k PROVE LastAt(s, k)'
    BY <1>3, <1>4, <1>5, <1>7, <1>10, CacheLater
  <1> QED
    BY <1>9, <1>10 DEF CacheAt

LEMMA CacheRemoved ==
  ASSUME Shape, CacheOK, NEW i \in Ids, Removed(i) \/ Passed(i)
  PROVE  CacheOK'
  <1>1. StateTyped /\ KnownOK
    BY DEF Shape
  <1>2. UNCHANGED <<proc, missed, state, service>>
    BY HandlingKeeps
  <1>3. Took("destroy", i) /\ stream' = Tail(stream)
    BY DEF Removed, Passed, Wrote
  <1>4. ASSUME NEW s \in Service
        PROVE  \/ containers'[s] = containers[s] /\ containers[s] # i
               \/ containers'[s] = Nil /\ containers[s] = i /\ i \notin Alive
    <2>1. CASE Removed(i)
      <3>1. /\ containers[service[i]] = i /\ i \notin Alive /\ Wrote(service[i], Nil)
            /\ service[i] \in Service
        BY <2>1, RemovedIs
      <3>2. /\ containers'[service[i]] = Nil
            /\ \A t \in Service : t # service[i] => containers'[t] = containers[t]
        BY <1>1, <3>1, WroteIs
      <3>3. containers[s] = i => s = service[i]
        BY <1>1, NilIsNoId DEF KnownOK
      <3> QED
        BY <3>1, <3>2, <3>3
    <2>2. CASE Passed(i)
      BY <2>2, PassedIs, NilIsNoId DEF worker, IdsIn
    <2> QED
      BY <2>1, <2>2
  <1>5. SUFFICES ASSUME proc # "down", NEW s \in Service, s \notin missed
                 PROVE  CacheAt(s)'
    BY <1>2 DEF CacheOK
  <1>6. CacheAt(s) /\ Alive' = Alive /\ Of(s)' = Of(s)
    BY <1>2, <1>5 DEF CacheOK, Alive, Of
  <1>7. /\ stream[1] = [ev |-> "destroy", id |-> i]
        /\ \A k \in About(s) : k = 1 \/ k - 1 \in About(s)'
        /\ \A x : Goes(x, 0) => Goes(x, 0)' \/ x = i
    BY <1>2, <1>3, Shifted
  <1>8. ASSUME About(s)' = {} PROVE CachedAt(s)'
    <2>1. About(s) = {}
      BY <1>7, <1>8 DEF About
    <2>2. CachedAt(s)
      BY <1>6, <2>1 DEF CacheAt
    <2>3. CASE containers'[s] = containers[s] /\ containers[s] # i
      BY <1>6, <1>7, <2>2, <2>3 DEF CachedAt, NewestOf
    <2>4. CASE containers'[s] = Nil /\ containers[s] = i /\ i \notin Alive
      <3>1. Of(s) = {} /\ Nil \notin Alive
        BY <2>2, <2>4, NilIsNoId DEF CachedAt, NewestOf, Alive
      <3> QED
        BY <1>6, <2>4, <3>1 DEF CachedAt, NewestOf
    <2> QED
      BY <1>4, <2>3, <2>4
  <1>9. ASSUME NEW k \in About(s)', \A l \in About(s)' : l <= k PROVE LastAt(s, k)'
    BY <1>2, <1>3, <1>6, <1>9, CacheLater
  <1> QED
    BY <1>8, <1>9 DEF CacheAt

(* With one container of a service at the start the cache has it. *)
LEMMA CacheBoot ==
  ASSUME Shape, Boot
  PROVE  CacheOK'
  <1>1. PICK m \in Maps :
          /\ \A s \in Service : m[s] \in IF Of(s) = {} THEN {Nil} ELSE Of(s)
          /\ containers' = m
    BY DEF Boot
  <1>2. /\ missed' = {s \in Service : Cardinality(Of(s)) > 1}
        /\ state' = state /\ service' = service /\ stream' = stream
    BY DEF Boot, engine
  <1>3. SUFFICES ASSUME NEW s \in Service, s \notin missed'
                 PROVE  CacheAt(s)'
    BY DEF CacheOK
  <1>4. Of(s)' = Of(s) /\ Alive' = Alive
    BY <1>2 DEF Of, Alive
  <1>5. \A a, b \in Of(s) : a = b
    BY <1>2, <1>3, TwoOfOne
  <1>6. Of(s) \subseteq Alive /\ Of(s) \subseteq Nat /\ Nil \notin Alive
    BY NilIsNoId DEF Of, Alive
  <1>7. About(s)' = {}
    <2>1. stream' = <<>>
      BY <1>2 DEF Boot, Shape, ControlOK, ProcFits
    <2>2. DOMAIN stream' = {}
      BY <2>1
    <2> QED
      BY <2>2 DEF About
  <1>8. CASE Of(s) = {}
    BY <1>1, <1>4, <1>6, <1>7, <1>8 DEF CacheAt, CachedAt, NewestOf
  <1>9. CASE Of(s) # {}
    <2>1. containers'[s] \in Of(s)
      BY <1>1, <1>9
    <2>2. \A k \in Of(s) : k <= containers'[s]
      BY <1>5, <1>6, <2>1
    <2> QED
      BY <1>4, <1>6, <1>7, <2>1, <2>2 DEF CacheAt, CachedAt, NewestOf
  <1> QED
    BY <1>8, <1>9

LEMMA CacheStep ==
  ASSUME Shape, CacheOK, Next
  PROVE  CacheOK'
  (* Neither the cache nor the stream changes, and all live on. *)
  <1>1. ASSUME Alive' = Alive, UNCHANGED <<service, stream, containers, missed>>,
               proc' # "down" => proc # "down"
        PROVE  CacheOK'
    <2>1. \A s \in Service : Of(s)' = Of(s) /\ About(s)' = About(s)
      BY <1>1 DEF Of, About
    <2>2. ASSUME NEW s \in Service, CacheAt(s) PROVE CacheAt(s)'
      BY <1>1, <2>1, <2>2, CacheFrame DEF Shape
    <2> QED
      BY <1>1, <2>2 DEF CacheOK
  <1>2. ASSUME NEW s \in Service, Create(s) PROVE CacheOK'
    BY <1>2, CacheCreate
  <1>3. ASSUME NEW i \in Ids, Changes(i) PROVE CacheOK'
    <2>1. CASE Destroy(i)
      BY <2>1, CacheDestroy
    <2>2. CASE Start(i) \/ Exit(i)
      <3>1. Alive' = Alive
        BY <2>2 DEF Start, Exit, Alive, Shape, StateTyped, TypeOK
      <3>2. UNCHANGED <<service, stream, containers, missed, proc>>
        BY <2>2 DEF Start, Exit, worker, seen
      <3> QED
        BY <1>1, <3>1, <3>2
    <2>3. CASE Update(i)
      BY <2>3, CacheUpdate
    <2> QED
      BY <1>3, <2>1, <2>2, <2>3 DEF Changes
  <1>4. ASSUME NEW i \in Ids, Handles(i) PROVE CacheOK'
    BY <1>4, CacheEntered, CacheRemoved DEF Handles
  <1>5. CASE Ends
    BY <1>5 DEF Ends, Dies, CacheOK
  <1>6. CASE Boot
    BY <1>6, CacheBoot
  <1>7. CASE Watch \/ Receive
    <2>1. /\ UNCHANGED <<state, service, stream, containers, missed>>
          /\ proc' # "down" => proc # "down"
      BY <1>7 DEF Watch, Receive, engine, seen
    <2> QED
      BY <1>1, <2>1 DEF Alive
  <1>8. CASE Replaced
    <2>1. UNCHANGED <<state, service, stream, proc, containers, missed>>
      BY <1>8 DEF Replaced, Replace, engine, seen
    <2> QED
      BY <1>1, <2>1 DEF Alive
  <1>9. ASSUME NEW r \in Run, Begin(r) PROVE CacheOK'
    <2>1. UNCHANGED <<labels, engine, worker, seen>>
      BY <1>9, BeginIs
    <2> QED
      BY <1>1, <2>1 DEF engine, worker, seen, Alive
  <1>10. ASSUME NEW r \in Run, Runs(r) PROVE CacheOK'
    <2>1. Alive' = Alive
      BY <1>10, WorksKeeps DEF Runs
    <2>2. UNCHANGED <<service, stream, containers, missed, proc>>
      BY <1>10 DEF Runs, Works, worker
    <2> QED
      BY <1>1, <2>1, <2>2
  <1> QED
    BY <1>2, <1>3, <1>4, <1>5, <1>6, <1>7, <1>8, <1>9, <1>10, NextForms

LEMMA AlwaysCached == Spec => [](EntryOK /\ CacheOK)
  <1>1. Init => EntryOK /\ CacheOK
    BY DEF Init, EntryOK, CacheOK
  <1>2. Shape /\ EntryOK /\ CacheOK /\ [Next]_vars => (EntryOK /\ CacheOK)'
    <2>1. SUFFICES ASSUME Shape, EntryOK, CacheOK, [Next]_vars
                   PROVE  EntryOK' /\ CacheOK'
      OBVIOUS
    <2>2. CASE Next
      BY <2>1, <2>2, EntryStep, CacheStep
    <2>3. CASE UNCHANGED vars
      <3>1. /\ labels' = labels /\ state' = state /\ service' = service /\ stream' = stream
            /\ proc' = proc /\ containers' = containers /\ update' = update
            /\ task' = task /\ entry' = entry /\ missed' = missed
        BY <2>3 DEF vars, engine, worker, seen
      <3>2. containers \in Maps
        BY <2>1 DEF Shape, StateTyped, TypeOK
      <3>3. Jobs(containers)' = Jobs(containers)
        BY <2>1, <3>1, <3>2, JobsStay
      <3>4. EntryOK'
        BY <2>1, <3>1, <3>3 DEF EntryOK, Empty
      <3>5. \A s \in Service : CacheAt(s)' = CacheAt(s)
        BY <3>1 DEF CacheAt, CachedAt, LastAt, NewestOf, Goes, About, Of, Alive
      <3>6. CacheOK'
        BY <2>1, <3>1, <3>5 DEF CacheOK
      <3> QED
        BY <3>4, <3>6
    <2> QED
      BY <2>1, <2>2, <2>3
  <1> QED
    BY <1>1, <1>2, AlwaysShaped, PTL DEF Spec

LEMMA CachedIsLatest ==
  ASSUME Shape, stream = <<>>, NEW s \in Service, CacheAt(s)
  PROVE  containers[s] = Latest(s)
  <1>1. KnownOK /\ containers[s] \in Ids \cup {Nil}
    BY DEF Shape, StateTyped, TypeOK, Maps
  <1>2. DOMAIN stream = {}
    OBVIOUS
  <1>3. CachedAt(s) /\ ~Goes(containers[s], 0)
    BY <1>2 DEF CacheAt, About, Goes
  <1>4. Of(s) \subseteq Nat /\ Nil \notin Alive
    BY NilIsNoId DEF Of, Alive
  <1>5. CASE Of(s) = {}
    <2>1. containers[s] \notin Alive
      BY <1>1, <1>4, <1>5 DEF KnownOK, Of
    <2> QED
      BY <1>3, <1>5, <2>1 DEF CachedAt, Latest
  <1>6. CASE Of(s) # {}
    <2>1. containers[s] \in Alive /\ \A i \in Of(s) : i <= containers[s]
      BY <1>3, <1>6 DEF CachedAt, NewestOf
    <2>2. containers[s] \in Of(s)
      BY <1>1, <1>4, <2>1 DEF KnownOK, Of
    <2>3. Latest(s) \in Of(s) /\ \A j \in Of(s) : j <= Latest(s)
      BY <1>6, <2>1, <2>2 DEF Latest
    <2> QED
      BY <1>4, <2>1, <2>2, <2>3
  <1> QED
    BY <1>5, <1>6

(* When the handler has taken all events and the worker all updates, the
   scheduler has the job for what the cache holds, if there can be one, and the
   cache holds the newest container of each service but those it was not told of,
   or told of an older one after it; however creations, updates, removals,
   handling and scheduling overlapped. *)
THEOREM EntryFollows == Spec => []EntryIsCurrent
  <1>1. Shape /\ EntryOK /\ CacheOK => EntryIsCurrent
    <2>1. SUFFICES ASSUME Shape, EntryOK, CacheOK, Settled
                   PROVE  /\ \A s \in Service \ missed : containers[s] = Latest(s)
                          /\ entry \in Jobs(containers)
      BY DEF EntryIsCurrent
    <2>2. \A s \in Service \ missed : containers[s] = Latest(s)
      BY <2>1, CachedIsLatest DEF CacheOK, Settled
    <2> QED
      BY <2>1, <2>2 DEF EntryOK, Settled
  <1> QED
    BY <1>1, AlwaysShaped, AlwaysCached, PTL

-----------------------------------------------------------------------------
(* What a run waits for at its end *)

(* What the wait group counts is the containers still to start and those that
   were counted and not found; if more were found than counted it will run out. *)
CountAt(r) ==
  pc[r] = "restart" =>
    IF job[r].short > 0 THEN job[r].wg = Cardinality(job[r].todo) + job[r].short
    ELSE job[r].wg <= Cardinality(job[r].todo)
CountOK == \A r \in Run : CountAt(r)

LEMMA TodoIsFew ==
  ASSUME StateTyped, NEW r \in Run
  PROVE  /\ IsFiniteSet(job[r].todo) /\ Cardinality(job[r].todo) \in Nat
         /\ job[r].wg \in Nat /\ job[r].short \in Nat
  <1>1. job[r] \in Job
    BY JobIs
  <1>2. job[r].todo \in SUBSET (Ids \cup {Nil})
    BY <1>1 DEF Job
  <1>3. IsFiniteSet(Ids)
    BY BoundsAssumption, FS_Interval DEF Ids
  <1>4. IsFiniteSet(Ids \cup {Nil})
    BY <1>3, FS_AddElement
  <1>5. IsFiniteSet(job[r].todo)
    BY <1>2, <1>4, FS_Subset
  <1>6. Cardinality(Service) \in Nat
    BY BoundsAssumption, FS_CardinalityType
  <1> QED
    BY <1>1, <1>5, <1>6, FS_CardinalityType DEF Job

LEMMA CountRestart ==
  ASSUME StateTyped, NEW r \in Run, CountAt(r), Restart(r), ~Ends
  PROVE  CountAt(r)'
  <1>1. job[r] \in Job /\ job \in [Run -> Job] /\ pc \in [Run -> Phases]
    BY JobIs DEF StateTyped, TypeOK, Phases
  <1>2. PICK i \in job[r].todo :
          /\ job[r].wg > 0
          /\ Goto(r, "restart", [job[r] EXCEPT !.todo = @ \ {i}, !.wg = job[r].wg - 1])
    BY DEF Restart, Ends, CountedDown
  <1>3. job'[r] = [job[r] EXCEPT !.todo = @ \ {i}, !.wg = job[r].wg - 1]
    BY <1>1, <1>2 DEF Goto
  <1>4. /\ job'[r].todo = job[r].todo \ {i} /\ job'[r].wg = job[r].wg - 1
        /\ job'[r].short = job[r].short
    BY <1>1, <1>3 DEF Job
  <1>5. /\ IsFiniteSet(job[r].todo) /\ Cardinality(job[r].todo) \in Nat
        /\ job[r].wg \in Nat /\ job[r].short \in Nat
    BY TodoIsFew
  <1>6. Cardinality(job[r].todo \ {i}) = Cardinality(job[r].todo) - 1
    BY <1>2, <1>5, FS_RemoveElement
  <1>7. pc[r] = "restart"
    BY DEF Restart
  <1> QED
    BY <1>4, <1>5, <1>6, <1>7 DEF CountAt

LEMMA CountRange ==
  ASSUME StateTyped, NEW r \in Run, RangeOver(r)
  PROVE  CountAt(r)'
  <1>1. job[r] \in Job /\ job \in [Run -> Job] /\ pc \in [Run -> Phases]
    BY JobIs DEF StateTyped, TypeOK, Phases
  <1> DEFINE n == Cardinality(IdsIn(Map(r)))
             short == IF n < job[r].wg THEN job[r].wg - n ELSE 0
  <1>2. Goto(r, "restart", [job[r] EXCEPT !.todo = ToRestart(r), !.short = short])
    BY DEF RangeOver
  <1>3. n \in Nat /\ job[r].wg \in Nat
    BY MapIs, TodoIsFew, BoundsAssumption, FS_CardinalityType
  <1>4. job'[r] = [job[r] EXCEPT !.todo = ToRestart(r), !.short = short]
    BY <1>1, <1>2 DEF Goto
  <1> HIDE DEF short
  <1>5. /\ job'[r].todo = IdsIn(Map(r)) /\ job'[r].wg = job[r].wg
        /\ job'[r].short = short
    BY <1>1, <1>4 DEF Job, ToRestart
  <1>6. Cardinality(job'[r].todo) = n
    BY <1>5
  <1> HIDE DEF n
  <1> QED
    BY <1>3, <1>5, <1>6 DEF CountAt, short

LEMMA CountStep ==
  ASSUME Shape, CountOK, Next
  PROVE  CountOK'
  <1>1. StateTyped /\ ControlOK
    BY DEF Shape
  <1>2. ASSUME NEW r \in Run, pc'[r] = pc[r], job'[r].todo = job[r].todo,
               job'[r].wg = job[r].wg, job'[r].short = job[r].short
        PROVE  CountAt(r)'
    BY <1>2 DEF CountOK, CountAt
  <1>3. ASSUME NEW s \in Service, Create(s), NEW r \in Run PROVE CountAt(r)'
    BY <1>2, <1>3 DEF Create, runs
  <1>4. ASSUME NEW i \in Ids, Changes(i), NEW r \in Run PROVE CountAt(r)'
    BY <1>2, <1>4 DEF Changes, Update, Destroy, Start, Exit, runs
  <1>5. ASSUME NEW i \in Ids, Handles(i), NEW r \in Run PROVE CountAt(r)'
    <2>1. job[r] \in Job /\ job \in [Run -> Job]
      BY <1>1, JobIs DEF StateTyped, TypeOK
    <2>2. /\ pc' = pc
          /\ job' = job \/ job' = [q \in Run |-> [job[q] EXCEPT !.live = FALSE]]
      BY <1>5 DEF Handles, Entered, Removed, Passed, Wrote, Drop, runs
    <2> QED
      BY <1>2, <2>1, <2>2 DEF Job
  <1>6. ASSUME Ends, NEW r \in Run PROVE CountAt(r)'
    BY <1>6 DEF Ends, Dies, CountAt
  <1>7. ASSUME Boot \/ Watch \/ Receive, NEW r \in Run PROVE CountAt(r)'
    BY <1>2, <1>7 DEF Boot, Watch, Receive, runs
  <1>8. ASSUME Replaced, NEW r \in Run PROVE CountAt(r)'
    <2>1. job[r] \in Job /\ job \in [Run -> Job]
      BY <1>1, JobIs DEF StateTyped, TypeOK
    <2>2. pc' = pc /\ job' = [q \in Run |-> [job[q] EXCEPT !.own = FALSE]]
      BY <1>8 DEF Replaced, Replace
    <2> QED
      BY <1>2, <2>1, <2>2 DEF Job
  <1>9. ASSUME NEW q \in Run, Begin(q), NEW r \in Run PROVE CountAt(r)'
    <2>1. /\ pc'[q] = "next"
          /\ \A p \in Run : p # q => pc'[p] = pc[p] /\ job'[p] = job[p]
      BY <1>9, BeginIs
    <2> QED
      BY <1>2, <2>1 DEF CountAt
  <1>10. ASSUME NEW q \in Run, Runs(q), ~Ends, NEW r \in Run PROVE CountAt(r)'
    <2>1. \A p \in Run : p # q => pc'[p] = pc[p] /\ job'[p] = job[p]
      BY <1>1, <1>10, TurnIs DEF Runs
    <2>2. CASE Restart(q) /\ r = q
      BY <1>1, <1>10, <2>2, CountRestart DEF CountOK
    <2>3. CASE RangeOver(q) /\ r = q
      BY <1>1, <2>3, CountRange
    <2>4. CASE End(q) /\ r = q
      <3>1. pc \in [Run -> Phases] /\ job \in [Run -> Job] /\ job[q] \in Job
        BY <1>1, JobIs DEF StateTyped, TypeOK, Phases
      <3>2. \/ pc'[q] = "idle"
            \/ /\ job'[q] = [job[q] EXCEPT !.own = FALSE]
               /\ pc'[q] = pc[q]
        BY <2>4, <3>1 DEF End, Goto
      <3>3. CASE pc'[q] = "idle"
        BY <2>4, <3>3 DEF CountAt
      <3>4. CASE job'[q] = [job[q] EXCEPT !.own = FALSE] /\ pc'[q] = pc[q]
        <4>1. /\ job'[q].todo = job[q].todo /\ job'[q].wg = job[q].wg
              /\ job'[q].short = job[q].short
          BY <3>1, <3>4 DEF Job
        <4> QED
          BY <1>2, <2>4, <3>4, <4>1
      <3> QED
        BY <3>2, <3>3, <3>4
    <2>5. CASE ~Restart(q) /\ ~RangeOver(q) /\ ~End(q) /\ r = q
      <3>1. pc \in [Run -> Phases]
        BY <1>1 DEF StateTyped, TypeOK, Phases
      <3>2. pc'[q] # "restart"
        BY <1>10, <2>5, <3>1 DEF Runs, Step, Pick, EnsureSelf, Group, DependenciesDone,
           DependentsDone, Exec, ReadDone, Count, Goto, GiveUp, Proceed
      <3> QED
        BY <2>5, <3>2 DEF CountAt
    <2> QED
      BY <1>2, <2>1, <2>2, <2>3, <2>4, <2>5
  <1>11. ASSUME NEW r \in Run PROVE CountAt(r)'
    BY <1>3, <1>4, <1>5, <1>6, <1>7, <1>8, <1>9, <1>10, NextForms
  <1> QED
    BY <1>11 DEF CountOK

LEMMA AlwaysCounted == Spec => []CountOK
  <1>1. Init => CountOK
    BY DEF Init, CountOK, CountAt
  <1>2. Shape /\ CountOK /\ [Next]_vars => CountOK'
    <2>1. SUFFICES ASSUME Shape, CountOK, [Next]_vars PROVE CountOK'
      OBVIOUS
    <2>2. CASE Next
      BY <2>1, <2>2, CountStep
    <2>3. CASE UNCHANGED vars
      BY <2>1, <2>3 DEF vars, runs, CountOK, CountAt
    <2> QED
      BY <2>1, <2>2, <2>3
  <1> QED
    BY <1>1, <1>2, AlwaysShaped, PTL DEF Spec

(* The safety that EveryRunEnds rests on: a run that has started all containers
   it ranged over waits only if it had counted more of them than it found;
   whether the starts succeeded does not matter. *)
WaitsForTheMissing ==
  \A r \in Run : pc[r] = "restart" /\ job[r].todo = {} =>
    job[r].wg = 0 \/ job[r].short > 0

THEOREM RunsDoNotHang == Spec => []WaitsForTheMissing
  <1>1. Shape /\ CountOK => WaitsForTheMissing
    <2>1. SUFFICES ASSUME Shape, CountOK, NEW r \in Run,
                          pc[r] = "restart", job[r].todo = {}
                   PROVE  job[r].wg = 0 \/ job[r].short > 0
      BY DEF WaitsForTheMissing
    <2>2. job[r].wg \in Nat /\ job[r].short \in Nat
      BY <2>1, TodoIsFew DEF Shape
    <2>3. Cardinality({}) = 0
      BY FS_EmptySet
    <2> QED
      BY <2>1, <2>2, <2>3 DEF CountOK, CountAt
  <1> QED
    BY <1>1, AlwaysShaped, AlwaysCounted, PTL
=============================================================================
