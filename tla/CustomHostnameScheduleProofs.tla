-------------------- MODULE CustomHostnameScheduleProofs --------------------
(***************************************************************************)
(* The theorem that no CR is forgotten: one that is being deleted, or was  *)
(* never reconciled to the end, is in the queue, in the worker's hands, or *)
(* an event that the controller will not filter out is under way.          *)
(***************************************************************************)
EXTENDS CustomHostnameProofs, FiniteSetTheorems

-----------------------------------------------------------------------------
(***************************************************************************)
(* The inductive invariant                                                 *)
(***************************************************************************)

\* Event i is the first one under way for its CR.
IsFirst(i) == \A j \in 1..(i - 1) : watch[j].cr # watch[i].cr

\* Event j is the one before event i for the same CR.
Follows(i, j) ==
    /\ j < i /\ watch[j].cr = watch[i].cr
    /\ \A k \in (j + 1)..(i - 1) : watch[k].cr # watch[i].cr

\* When event i is delivered, the controller enqueues its CR.
Wakes(i) ==
    /\ IsFirst(i) => FastWritePredicate(cache[watch[i].cr], watch[i].obj)
    /\ \A j \in DOMAIN watch :
          Follows(i, j) => FastWritePredicate(watch[j].obj, watch[i].obj)

WakingEvent(c) == \E i \in DOMAIN watch : watch[i].cr = c /\ Wakes(i)

\* What may follow on the absence of an object.
Newborn(o) == o = None \/ o.status.id = 0

\* An object is created without an id, so that no event of a creation is dropped.
BirthInv ==
    \A i \in DOMAIN watch :
       /\ IsFirst(i) /\ cache[watch[i].cr] = None => Newborn(watch[i].obj)
       /\ \A j \in DOMAIN watch :
             Follows(i, j) /\ watch[j].obj = None => Newborn(watch[i].obj)

Unfinished(o) == o # None /\ (o.term \/ o.status.cond = "None")

\* Pending events of an unfinished CR are not enough: one of them has to wake.
WakeInv ==
    \A c \in CRs : Unfinished(api[c]) => c \in queue \/ cur = c \/ WakingEvent(c)

\* Every status that is written has a condition, and without one there is no id:
\* a restarted controller then finds the CR in its first list.
CondInv ==
    /\ pc = "status" => ch.status.cond # "None"
    /\ \A c \in CRs : api[c] # None /\ api[c].status.cond = "None" => api[c].status.id = 0

SchedInv == BirthInv /\ WakeInv /\ CondInv

-----------------------------------------------------------------------------
(***************************************************************************)
(* The events under way                                                    *)
(***************************************************************************)

\* A non-empty set of numbers has a least one.
LEMMA Least ==
    ASSUME NEW S \in SUBSET Nat, S # {}
    PROVE  \E n \in S : \A m \in S : n <= m
  <1> DEFINE R == StrictSubsetOrdering(Nat)
             F == FiniteSubsetsOf(Nat)
             T == {0..k : k \in S}
  <1>1. IsWellFoundedOn(R, F)
    BY FS_StrictSubsetOrderingWellFounded
  <1>2. T \subseteq F /\ T # {}
    <2>1. \A k \in S : IsFiniteSet(0..k) /\ 0..k \subseteq Nat
      BY FS_Interval
    <2> QED
      BY <2>1 DEF FiniteSubsetsOf
  <1>3. \E x \in T : \A y \in T : <<y, x>> \notin R
    <2> HIDE DEF R, F, T
    <2> QED
      BY <1>1, <1>2, WFMin, Zenon
  <1>4. PICK n \in S : \A m \in S : <<0..m, 0..n>> \notin R
    BY <1>3
  <1>5. ASSUME NEW m \in S, m < n PROVE FALSE
    <2>1. 0..m \subseteq 0..n /\ 0..m # 0..n
      BY <1>5
    <2>2. 0..m \in SUBSET Nat /\ 0..n \in SUBSET Nat
      BY <1>5
    <2>3. <<0..m, 0..n>> \in R
      BY <2>1, <2>2 DEF StrictSubsetOrdering
    <2> QED
      BY <1>4, <2>3
  <1> QED
    BY <1>4, <1>5

LEMMA WatchType ==
    ASSUME TypeOK
    PROVE  /\ watch \in Seq(Event) /\ Len(watch) \in Nat /\ DOMAIN watch = 1..Len(watch)
           /\ \A i \in DOMAIN watch : watch[i].cr \in CRs /\ watch[i].obj \in Object \cup {None}
  <1>1. watch \in Seq(Event)
    BY DEF TypeOK, Event
  <1>2. \A i \in DOMAIN watch : watch[i] \in Event
    BY <1>1
  <1> QED
    BY <1>1, <1>2 DEF Event

LEMMA FirstEvent ==
    ASSUME TypeOK, NEW c \in CRs, Pending(c)
    PROVE  \E i \in DOMAIN watch : watch[i].cr = c /\ IsFirst(i)
  <1> DEFINE S == {i \in DOMAIN watch : watch[i].cr = c}
  <1>1. S \in SUBSET Nat /\ S # {} /\ DOMAIN watch = 1..Len(watch)
    BY WatchType DEF Pending
  <1> HIDE DEF S
  <1>2. PICK i \in S : \A m \in S : i <= m
    BY <1>1, Least
  <1>3. i \in DOMAIN watch /\ watch[i].cr = c /\ i \in Nat
    BY <1>1 DEF S
  <1>4. ASSUME NEW j \in 1..(i - 1), watch[j].cr = c PROVE FALSE
    <2>1. j \in DOMAIN watch
      BY <1>1, <1>3, <1>4, WatchType
    <2>2. j \in S
      BY <1>4, <2>1 DEF S
    <2> QED
      BY <1>2, <1>3, <2>2
  <1> QED
    BY <1>3, <1>4 DEF IsFirst

LEMMA PutWatch ==
    ASSUME TypeOK, NEW c \in CRs, NEW obj \in Object \cup {None}, Put(c, obj)
    PROVE  /\ DOMAIN watch' = 1..(Len(watch) + 1)
           /\ \A i \in 1..Len(watch) : watch'[i] = watch[i]
           /\ watch'[Len(watch) + 1].cr = c /\ watch'[Len(watch) + 1].obj = obj
           /\ api'[c] = obj /\ \A d \in CRs \ {c} : api'[d] = api[d]
  <1> DEFINE e == [cr |-> c, obj |-> obj]
  <1>1. watch' = Append(watch, e) /\ api' = [api EXCEPT ![c] = obj] /\ e.cr = c /\ e.obj = obj
    BY DEF Put
  <1>2. watch \in Seq(Event) /\ e \in Event
    BY WatchType DEF Event
  <1> HIDE DEF e
  <1>3. /\ DOMAIN watch' = 1..(Len(watch) + 1)
        /\ \A i \in 1..Len(watch) : watch'[i] = watch[i]
        /\ watch'[Len(watch) + 1] = e
    BY <1>1, <1>2
  <1> QED
    BY <1>1, <1>3 DEF TypeOK

\* A new version keeps what is known of the other events, and wakes if it differs
\* from the API server's object as the filter wants it.
LEMMA PutWakes ==
    ASSUME TypeOK, SyncInv, LastInv, BirthInv, NEW c \in CRs,
           NEW obj \in Object \cup {None}, Put(c, obj), cache' = cache,
           api[c] = None => Newborn(obj)
    PROVE  /\ BirthInv'
           /\ \A d \in CRs : WakingEvent(d) => WakingEvent(d)'
           /\ FastWritePredicate(api[c], obj) => WakingEvent(c)'
  <1>0. PICK n \in Nat \ {0} : n = Len(watch) + 1
    BY WatchType
  <1>1. /\ n \in Nat /\ DOMAIN watch = 1..(n - 1) /\ DOMAIN watch' = 1..n
        /\ \A i \in 1..(n - 1) : watch'[i] = watch[i]
        /\ watch'[n].cr = c /\ watch'[n].obj = obj
    BY <1>0, WatchType, PutWatch
  <1>2. ASSUME NEW i \in 1..(n - 1)
        PROVE  /\ IsFirst(i)' <=> IsFirst(i)
               /\ \A j \in 1..n : Follows(i, j)' <=> j \in 1..(n - 1) /\ Follows(i, j)
    BY <1>1, <1>2 DEF IsFirst, Follows
  <1>3. ASSUME NEW i \in 1..(n - 1) PROVE Wakes(i)' <=> Wakes(i)
    BY <1>1, <1>2, <1>3 DEF Wakes
  <1>4. IsFirst(n)' => cache[c] = api[c]
    <2> SUFFICES ASSUME IsFirst(n)' PROVE ~Pending(c)
      BY DEF SyncInv
    <2> QED
      BY <1>1 DEF IsFirst, Pending
  <1>5. ASSUME NEW j \in 1..n, Follows(n, j)' PROVE j \in 1..(n - 1) /\ watch[j].obj = api[c]
    <2>1. j \in 1..(n - 1) /\ watch[j].cr = c
      BY <1>1, <1>5 DEF Follows
    <2>2. \A k \in DOMAIN watch : watch[k].cr = watch[j].cr => k <= j
      BY <1>1, <1>5, <2>1 DEF Follows
    <2> QED
      BY <1>1, <2>1, <2>2 DEF LastInv
  <1>6. FastWritePredicate(api[c], obj) => Wakes(n)'
    <2> HIDE DEF FastWritePredicate
    <2> QED
      BY <1>1, <1>4, <1>5 DEF Wakes
  <1>7. BirthInv'
    <2>1. ASSUME NEW i \in 1..(n - 1)
          PROVE  /\ IsFirst(i)' /\ cache'[watch'[i].cr] = None => Newborn(watch'[i].obj)
                 /\ \A j \in 1..n :
                       Follows(i, j)' /\ watch'[j].obj = None => Newborn(watch'[i].obj)
      BY <1>1, <1>2, <2>1 DEF BirthInv
    <2>2. /\ IsFirst(n)' /\ cache'[watch'[n].cr] = None => Newborn(watch'[n].obj)
          /\ \A j \in 1..n :
                Follows(n, j)' /\ watch'[j].obj = None => Newborn(watch'[n].obj)
      BY <1>1, <1>4, <1>5
    <2>3. DOMAIN watch' = 1..(n - 1) \cup {n}
      BY <1>1
    <2> QED
      BY <1>1, <2>1, <2>2, <2>3 DEF BirthInv, Newborn
  <1>8. \A d \in CRs : WakingEvent(d) => WakingEvent(d)'
    BY <1>1, <1>3 DEF WakingEvent
  <1>9. FastWritePredicate(api[c], obj) => WakingEvent(c)'
    BY <1>1, <1>6 DEF WakingEvent
  <1> QED
    BY <1>7, <1>8, <1>9

\* The first event is delivered: its CR is enqueued if the event wakes, and the
\* others wake after it as they did before.
LEMMA DeliverWakes ==
    ASSUME TypeOK, BirthInv, Deliver
    PROVE  /\ BirthInv'
           /\ \A d \in CRs : WakingEvent(d) => d \in queue' \/ WakingEvent(d)'
           /\ queue \subseteq queue'
  <1> DEFINE n == Len(watch)
  <1>1. /\ n \in Nat /\ n > 0 /\ DOMAIN watch = 1..n /\ DOMAIN watch' = 1..(n - 1)
        /\ \A i \in 1..(n - 1) : watch'[i] = watch[i + 1]
        /\ Head(watch) = watch[1] /\ watch[1].cr \in CRs
    BY WatchType DEF Deliver
  <1>2. /\ cache'[watch[1].cr] = watch[1].obj
        /\ \A d \in CRs \ {watch[1].cr} : cache'[d] = cache[d]
    BY <1>1 DEF Deliver, TypeOK
  <1>3. /\ queue \subseteq queue'
        /\ FastWritePredicate(cache[watch[1].cr], watch[1].obj) => watch[1].cr \in queue'
    BY <1>1 DEF Deliver
  <1> HIDE DEF n
  <1>4. ASSUME NEW i \in 1..(n - 1)
        PROVE  /\ i + 1 \in 2..n /\ watch[i + 1].cr \in CRs
               /\ \A j \in 1..(n - 1) : Follows(i, j)' => Follows(i + 1, j + 1)
               /\ IsFirst(i)' => IF watch[i + 1].cr = watch[1].cr THEN Follows(i + 1, 1)
                                 ELSE IsFirst(i + 1)
    <2>1. i + 1 \in 2..n /\ watch[i + 1].cr \in CRs
      BY <1>1, <1>4, WatchType
    <2>2. ASSUME NEW j \in 1..(n - 1), Follows(i, j)' PROVE Follows(i + 1, j + 1)
      <3>1. j < i /\ watch[j + 1].cr = watch[i + 1].cr
        BY <1>1, <1>4, <2>2 DEF Follows
      <3>2. ASSUME NEW k \in (j + 2)..i PROVE watch[k].cr # watch[i + 1].cr
        <4>1. k - 1 \in (j + 1)..(i - 1) /\ k - 1 \in 1..(n - 1)
          BY <1>1, <1>4, <3>2
        <4>2. watch'[k - 1].cr # watch'[i].cr
          BY <2>2, <4>1 DEF Follows
        <4>3. watch'[k - 1] = watch[k]
          BY <1>1, <4>1
        <4> QED
          BY <1>1, <1>4, <4>2, <4>3
      <3> QED
        BY <1>1, <1>4, <3>1, <3>2 DEF Follows
    <2>3. ASSUME IsFirst(i)'
          PROVE  \A k \in 2..i : watch[k].cr # watch[i + 1].cr
      <3> SUFFICES ASSUME NEW k \in 2..i PROVE watch[k].cr # watch[i + 1].cr
        OBVIOUS
      <3>1. k - 1 \in 1..(i - 1) /\ k - 1 \in 1..(n - 1)
        BY <1>1, <1>4
      <3>2. watch'[k - 1].cr # watch'[i].cr
        BY <2>3, <3>1 DEF IsFirst
      <3>3. watch'[k - 1] = watch[k]
        BY <1>1, <3>1
      <3> QED
        BY <1>1, <1>4, <3>2, <3>3
    <2>4. ASSUME IsFirst(i)', watch[i + 1].cr = watch[1].cr PROVE Follows(i + 1, 1)
      BY <1>1, <1>4, <2>3, <2>4 DEF Follows
    <2>5. ASSUME IsFirst(i)', watch[i + 1].cr # watch[1].cr PROVE IsFirst(i + 1)
      BY <1>1, <1>4, <2>3, <2>5 DEF IsFirst
    <2> QED
      BY <2>1, <2>2, <2>4, <2>5
  <1>5. ASSUME NEW i \in 1..(n - 1), Wakes(i + 1) PROVE Wakes(i)'
    <2> HIDE DEF FastWritePredicate
    <2>1. IsFirst(i)' => FastWritePredicate(cache'[watch'[i].cr], watch'[i].obj)
      BY <1>1, <1>2, <1>4, <1>5 DEF Wakes
    <2>2. ASSUME NEW j \in 1..(n - 1), Follows(i, j)'
          PROVE  FastWritePredicate(watch'[j].obj, watch'[i].obj)
      <3>1. Follows(i + 1, j + 1) /\ j + 1 \in 1..n
        BY <1>1, <1>4, <2>2
      <3> QED
        BY <1>1, <1>5, <3>1 DEF Wakes
    <2> QED
      BY <1>1, <2>1, <2>2 DEF Wakes, FastWritePredicate
  <1>6. BirthInv'
    <2> SUFFICES ASSUME NEW i \in 1..(n - 1)
                 PROVE  /\ IsFirst(i)' /\ cache'[watch'[i].cr] = None => Newborn(watch'[i].obj)
                        /\ \A j \in 1..(n - 1) :
                              Follows(i, j)' /\ watch'[j].obj = None => Newborn(watch'[i].obj)
      BY <1>1 DEF BirthInv, Newborn
    <2>1. IsFirst(i)' /\ cache'[watch'[i].cr] = None => Newborn(watch'[i].obj)
      BY <1>1, <1>2, <1>4 DEF BirthInv
    <2>2. ASSUME NEW j \in 1..(n - 1), Follows(i, j)', watch'[j].obj = None
          PROVE  Newborn(watch'[i].obj)
      <3>1. Follows(i + 1, j + 1) /\ j + 1 \in 1..n
        BY <1>1, <1>4, <2>2
      <3> QED
        BY <1>1, <2>2, <3>1 DEF BirthInv
    <2> QED
      BY <2>1, <2>2
  <1>7. ASSUME NEW d \in CRs, WakingEvent(d) PROVE d \in queue' \/ WakingEvent(d)'
    <2>1. PICK i \in 1..n : watch[i].cr = d /\ Wakes(i)
      BY <1>1, <1>7 DEF WakingEvent
    <2>2. CASE i = 1
      <3>1. IsFirst(1)
        BY DEF IsFirst
      <3> QED
        BY <1>3, <2>1, <2>2, <3>1 DEF Wakes
    <2>3. CASE i # 1
      <3>1. i - 1 \in 1..(n - 1) /\ (i - 1) + 1 = i
        BY <1>1, <2>3
      <3>2. Wakes(i - 1)'
        BY <1>5, <2>1, <3>1
      <3> QED
        BY <1>1, <2>1, <3>1, <3>2 DEF WakingEvent
    <2> QED
      BY <2>2, <2>3
  <1> QED
    BY <1>3, <1>6, <1>7

-----------------------------------------------------------------------------
(***************************************************************************)
(* Steps that write no object                                              *)
(***************************************************************************)

\* The CR that leaves the queue is in the worker's hands, and back.
LEMMA KeepSched ==
    ASSUME SchedInv, UNCHANGED <<api, cache, watch>>,
           \A c \in CRs : c \in queue \/ cur = c => c \in queue' \/ cur' = c,
           pc' = "status" => ch'.status.cond # "None"
    PROVE  SchedInv'
  <1>1. BirthInv' /\ (\A c \in CRs : WakingEvent(c)' <=> WakingEvent(c))
    BY DEF SchedInv, BirthInv, IsFirst, Follows, WakingEvent, Wakes
  <1>2. WakeInv'
    BY <1>1 DEF SchedInv, WakeInv
  <1>3. CondInv'
    BY DEF SchedInv, CondInv
  <1> QED
    BY <1>1, <1>2, <1>3 DEF SchedInv

LEMMA BeginSched ==
    ASSUME TypeOK, SchedInv, pc = "idle", NEW c \in CRs, NEW o, NEW next, Begin(c, o, next),
           next = "status" => o.status.cond # "None"
    PROVE  SchedInv'
  <1>1. cur = None
    BY DEF TypeOK
  <1> QED
    BY <1>1, NoneAssumption, KeepSched DEF Begin

\* A CR is dropped from the queue only when its object is gone from the cache.  If
\* it is there again, or still there, the first event under way will tell.
LEMMA GoneSched ==
    ASSUME TypeOK, SyncInv, SchedInv, NEW c \in CRs, ReconcileGone(c)
    PROVE  SchedInv'
  <1>1. UNCHANGED <<api, cache, watch, pc, cur, ch>> /\ queue' = queue \ {c} /\ cache[c] = None
    BY DEF ReconcileGone, worker
  <1>2. BirthInv' /\ CondInv' /\ (\A d \in CRs : WakingEvent(d)' <=> WakingEvent(d))
    BY <1>1 DEF SchedInv, BirthInv, CondInv, IsFirst, Follows, WakingEvent, Wakes
  <1>3. ASSUME Unfinished(api[c]) PROVE WakingEvent(c)
    <2>1. Pending(c)
      BY <1>1, <1>3 DEF SyncInv, Unfinished
    <2>2. PICK i \in DOMAIN watch : watch[i].cr = c /\ IsFirst(i)
      BY <2>1, FirstEvent
    <2>3. Newborn(watch[i].obj)
      BY <1>1, <2>2 DEF SchedInv, BirthInv
    <2>4. FastWritePredicate(cache[c], watch[i].obj)
      BY <1>1, <2>3 DEF Newborn, FastWritePredicate
    <2>5. \A j \in DOMAIN watch : ~Follows(i, j)
      BY <2>2, WatchType DEF IsFirst, Follows
    <2> QED
      BY <2>2, <2>4, <2>5 DEF WakingEvent, Wakes
  <1>4. WakeInv'
    BY <1>1, <1>2, <1>3 DEF SchedInv, WakeInv
  <1> QED
    BY <1>2, <1>4 DEF SchedInv

LEMMA ReconcileSched ==
    ASSUME TypeOK, SyncInv, SchedInv, NEW c \in CRs, Reconcile(c)
    PROVE  SchedInv'
  <1>1. CASE ReconcileGone(c)
    BY <1>1, GoneSched
  <1>2. CASE ReconcileRelease(c)
    BY <1>2, BeginSched DEF ReconcileRelease, Takes
  <1>3. CASE ReconcileDelete(c)
    BY <1>3, BeginSched DEF ReconcileDelete, Takes
  <1>4. ASSUME cache[c] # None
        PROVE  /\ WithStatus(cache[c], SetError(cache[c].status)).status.cond = "Error"
               /\ WithStatus(cache[c], SetConflict(cache[c].status)).status.cond
                    = "HostnameConflict"
    <2>1. cache[c] \in Object /\ cache[c].status \in Status
      BY <1>4, CachedType, ObjectFields
    <2>2. SetError(cache[c].status) \in Status /\ SetConflict(cache[c].status) \in Status
      BY <2>1, StatusTypes
    <2>3. /\ SetError(cache[c].status).cond = "Error"
          /\ SetConflict(cache[c].status).cond = "HostnameConflict"
      BY <2>1 DEF SetError, SetConflict, Status
    <2> QED
      BY <2>1, <2>2, <2>3, WithStatusType
  <1>5. CASE ReconcileError(c)
    BY <1>4, <1>5, BeginSched DEF ReconcileError, Takes, Alive
  <1>6. CASE ReconcileAddFinalizer(c)
    BY <1>6, BeginSched DEF ReconcileAddFinalizer, Takes
  <1>7. CASE ReconcileConflict(c)
    BY <1>4, <1>7, BeginSched DEF ReconcileConflict, Managed, Takes, Alive
  <1>8. CASE ReconcileLookup(c)
    BY <1>8, BeginSched DEF ReconcileLookup, Managed, Takes
  <1> QED
    BY <1>1, <1>2, <1>3, <1>5, <1>6, <1>7, <1>8 DEF Reconcile

LEMMA CFCallSched ==
    ASSUME TypeOK, PhaseInv, SchedInv,
           LookupMissing \/ LookupFound \/ CreateAttempt \/ EditAttempt
           \/ Predelete \/ DeleteAttempt \/ DeleteNotFound \/ CallFails
    PROVE  SchedInv'
  <1> USE DEF CFCalls
  <1>0. /\ UNCHANGED <<api, cache, watch>> /\ pc \in CFCalls /\ ch \in Object
        /\ ch.status \in Status
    BY CFCallShape, ObjectFields
       DEF TypeOK, LookupMissing, LookupFound, CreateAttempt, EditAttempt, Predelete,
           DeleteAttempt, DeleteNotFound, CallFails
  <1>1. ASSUME NEW next, NEW s, Goto(next, s), next = "status" => s.cond # "None"
        PROVE  SchedInv'
    <2>1. ch'.status = s /\ pc' = next /\ UNCHANGED <<queue, cur>>
      BY <1>0, <1>1 DEF Goto, WithStatus, Object
    <2> QED
      BY <1>0, <1>1, <2>1, KeepSched
  <1>2. ASSUME Retry \/ GiveUp PROVE SchedInv'
    <2>1. CASE Retry
      BY <1>0, <2>1, KeepSched DEF Retry
    <2>2. CASE Goto("status", SetError(ch.status))
      <3>1. SetError(ch.status).cond = "Error"
        BY <1>0 DEF SetError, Status
      <3> QED
        BY <1>1, <2>2, <3>1
    <2>3. CASE Abort
      BY <1>0, <2>3, KeepSched DEF Abort
    <2> QED
      BY <1>2, <2>1, <2>2, <2>3 DEF GiveUp
  <1>3. ASSUME NEW s \in Status, Settle(s) PROVE SchedInv'
    <2>1. RequeueOrReady(s).cond \in {"Ready", "SSLPending"}
      BY DEF RequeueOrReady, Status
    <2> QED
      BY <1>1, <1>3, <2>1 DEF Settle
  <1>4. CASE LookupMissing
    <2>1. SetWaiting(ch.status).cond = "WaitingForExternal" /\ SetDryRun(ch.status).cond = "DryRun"
      BY <1>0 DEF SetWaiting, SetDryRun, Status
    <2> QED
      BY <1>1, <1>4, <2>1 DEF LookupMissing
  <1>5. CASE LookupFound
    <2>1. PICK r \in FindByHostname(ch.spec.zone, HostOf[cur]) \ {0} :
            \/ Goto("edit", Adopt(ch.status, r))
            \/ Settle(Refresh(Adopt(ch.status, r), cf[r].ssl))
      BY <1>5 DEF LookupFound
    <2>2. r \in Nat /\ cf[r] \in Record
      BY FindType
    <2>3. Adopt(ch.status, r) \in Status /\ cf[r].ssl \in {"none", "pending", "active"}
      BY <1>0, <2>2, StatusTypes DEF Record
    <2>4. Refresh(Adopt(ch.status, r), cf[r].ssl) \in Status
      BY <2>3, StatusTypes
    <2> QED
      BY <1>1, <1>3, <2>1, <2>4
  <1>6. CASE CreateAttempt
    <2>1. PICK ssl \in {"pending", "active"} :
            Settle(Created(ch.status, Len(cf) + 1, ssl)) \/ FailedAttempt
      BY <1>6 DEF CreateAttempt
    <2>2. Created(ch.status, Len(cf) + 1, ssl) \in Status
      <3>1. Len(cf) + 1 \in Nat
        BY DEF TypeOK
      <3> QED
        BY <1>0, <3>1, StatusTypes
    <2> QED
      BY <1>2, <1>3, <2>1, <2>2 DEF FailedAttempt
  <1>7. CASE EditAttempt
    <2>1. PICK ssl \in {"pending", "active"} : Settle(Refresh(ch.status, ssl)) \/ FailedAttempt
      BY <1>7 DEF EditAttempt
    <2>2. Refresh(ch.status, ssl) \in Status
      BY <1>0, StatusTypes
    <2> QED
      BY <1>2, <1>3, <2>1, <2>2 DEF FailedAttempt
  <1>8. CASE Predelete
    BY <1>1, <1>8 DEF Predelete
  <1>9. CASE DeleteAttempt
    BY <1>1, <1>2, <1>9 DEF DeleteAttempt, FailedAttempt
  <1>10. CASE DeleteNotFound
    BY <1>1, <1>2, <1>10 DEF DeleteNotFound
  <1>11. CASE CallFails
    BY <1>2, <1>11 DEF CallFails, FailedAttempt
  <1> QED
    BY <1>4, <1>5, <1>6, <1>7, <1>8, <1>9, <1>10, <1>11

\* A restarted controller enqueues what its first list has without an id or being
\* deleted.
LEMMA RestartSched ==
    ASSUME SchedInv, Restart
    PROVE  SchedInv'
  <1>1. /\ api' = api /\ watch' = <<>> /\ pc' = "idle"
        /\ queue' = {c \in CRs : api[c] # None /\ FastWritePredicate(None, api[c])}
    BY DEF Restart
  <1>2. BirthInv'
    BY <1>1 DEF BirthInv
  <1>3. CondInv'
    BY <1>1 DEF SchedInv, CondInv
  <1>4. \A c \in CRs : Unfinished(api[c]) => FastWritePredicate(None, api[c])
    BY DEF SchedInv, CondInv, Unfinished, FastWritePredicate
  <1>5. WakeInv'
    BY <1>1, <1>4 DEF WakeInv, Unfinished
  <1> QED
    BY <1>2, <1>3, <1>5 DEF SchedInv

LEMMA DeliverSched ==
    ASSUME TypeOK, SchedInv, Deliver
    PROVE  SchedInv'
  <1>1. UNCHANGED <<api, pc, cur, ch>>
    BY DEF Deliver, worker
  <1>2. /\ BirthInv' /\ queue \subseteq queue'
        /\ \A d \in CRs : WakingEvent(d) => d \in queue' \/ WakingEvent(d)'
    BY DeliverWakes DEF SchedInv
  <1>3. WakeInv'
    BY <1>1, <1>2 DEF SchedInv, WakeInv
  <1>4. CondInv'
    BY <1>1 DEF SchedInv, CondInv
  <1> QED
    BY <1>2, <1>3, <1>4 DEF SchedInv

-----------------------------------------------------------------------------
(***************************************************************************)
(* Steps that write an object                                              *)
(***************************************************************************)

\* A version that leaves the CR unfinished has to be scheduled: by the queue, or
\* because its event wakes.
LEMMA PutSched ==
    ASSUME TypeOK, SyncInv, LastInv, SchedInv, NEW c \in CRs, NEW obj \in Object \cup {None},
           Put(c, obj), cache' = cache,
           api[c] = None => Newborn(obj),
           obj # None /\ obj.status.cond = "None" => obj.status.id = 0,
           Unfinished(obj) => c \in queue' \/ FastWritePredicate(api[c], obj),
           \A d \in CRs \ {c} : d \in queue \/ cur = d => d \in queue' \/ cur' = d,
           pc' = "status" => ch'.status.cond # "None"
    PROVE  SchedInv'
  <1>1. /\ BirthInv'
        /\ \A d \in CRs : WakingEvent(d) => WakingEvent(d)'
        /\ FastWritePredicate(api[c], obj) => WakingEvent(c)'
    BY PutWakes DEF SchedInv
  <1>2. api'[c] = obj /\ \A d \in CRs \ {c} : api'[d] = api[d]
    BY PutWatch
  <1>3. WakeInv'
    <2>1. Unfinished(obj) => c \in queue' \/ WakingEvent(c)'
      BY <1>1
    <2> QED
      BY <1>1, <1>2, <2>1 DEF SchedInv, WakeInv
  <1>4. CondInv'
    BY <1>2 DEF SchedInv, CondInv
  <1> QED
    BY <1>1, <1>3, <1>4 DEF SchedInv

LEMMA ByOtherSched ==
    ASSUME TypeOK, SyncInv, LastInv, SchedInv, NEW c \in CRs, NEW obj \in Object \cup {None},
           PutByOther(c, obj),
           api[c] = None => Newborn(obj),
           obj # None /\ obj.status.cond = "None" => obj.status.id = 0,
           Unfinished(obj) => FastWritePredicate(api[c], obj)
    PROVE  SchedInv'
  <1>1. Put(c, obj) /\ UNCHANGED <<cache, queue, pc, cur, ch>>
    BY DEF PutByOther
  <1>2. pc' = "status" => ch'.status.cond # "None"
    BY <1>1 DEF SchedInv, CondInv
  <1> QED
    BY <1>1, <1>2, PutSched

\* What a user writes passes the filter: a creation, an edited spec, a deletion.
LEMMA UserSched ==
    ASSUME TypeOK, SyncInv, LastInv, SchedInv, NEW c \in CRs, User(c)
    PROVE  SchedInv'
  <1>0. /\ api[c] # None => api[c] \in Object
        /\ api[c] # None /\ api[c].status.cond = "None" => api[c].status.id = 0
    BY DEF TypeOK, SchedInv, CondInv
  <1>1. CASE CreateCR(c)
    <2>1. PICK spec \in Specs : PutByOther(c, [spec |-> spec, fin |-> FALSE, term |-> FALSE,
                                               status |-> NewStatus])
      BY <1>1 DEF CreateCR
    <2> DEFINE obj == [spec |-> spec, fin |-> FALSE, term |-> FALSE, status |-> NewStatus]
    <2>2. obj \in Object /\ obj.status.id = 0
      BY StatusTypes DEF Object, NewStatus, Status, Conds
    <2>3. api[c] = None
      BY <1>1 DEF CreateCR
    <2> HIDE DEF obj
    <2>4. Newborn(obj) /\ FastWritePredicate(api[c], obj)
      BY <2>2, <2>3 DEF Newborn, FastWritePredicate
    <2>5. PutByOther(c, obj)
      BY <2>1 DEF obj
    <2> QED
      BY <2>2, <2>4, <2>5, ByOtherSched
  <1>2. CASE EditSpec(c)
    <2>1. PICK spec \in Specs \ {api[c].spec} : PutByOther(c, [api[c] EXCEPT !.spec = spec])
      BY <1>2 DEF EditSpec
    <2> DEFINE obj == [api[c] EXCEPT !.spec = spec]
    <2>2. api[c] # None
      BY <1>2 DEF EditSpec
    <2>3. obj \in Object /\ obj.spec # api[c].spec /\ obj.status = api[c].status
      BY <1>0, <2>1, <2>2, ObjectFields DEF Object
    <2> HIDE DEF obj
    <2>4. FastWritePredicate(api[c], obj)
      BY <2>2, <2>3 DEF FastWritePredicate
    <2>5. PutByOther(c, obj)
      BY <2>1 DEF obj
    <2> QED
      BY <1>0, <2>2, <2>3, <2>4, <2>5, ByOtherSched
  <1>3. CASE DeleteCR(c)
    <2>1. api[c] # None /\ ~api[c].term
      BY <1>3 DEF DeleteCR
    <2>2. CASE api[c].fin
      <3> DEFINE obj == [api[c] EXCEPT !.term = TRUE]
      <3>1. obj \in Object /\ obj.term /\ obj.status = api[c].status
        BY <1>0, <2>1, ObjectFields DEF Object
      <3>2. PutByOther(c, obj)
        BY <1>3, <2>2 DEF DeleteCR
      <3> HIDE DEF obj
      <3>3. FastWritePredicate(api[c], obj)
        BY <2>1, <3>1 DEF FastWritePredicate
      <3> QED
        BY <1>0, <2>1, <3>1, <3>2, <3>3, ByOtherSched
    <2>3. CASE ~api[c].fin
      <3>1. PutByOther(c, None)
        BY <1>3, <2>3 DEF DeleteCR
      <3> QED
        BY <2>1, <3>1, ByOtherSched DEF Unfinished
    <2> QED
      BY <2>2, <2>3
  <1> QED
    BY <1>1, <1>2, <1>3 DEF User

\* The worker's writes do not pass the filter: they end the reconcile for good, or
\* put the CR back into the queue.
LEMMA APIWriteSched ==
    ASSUME TypeOK, SyncInv, LastInv, FreshInv, PhaseInv, SchedInv,
           AddFinalizer \/ Release \/ PersistStatus \/ WriteFails
    PROVE  SchedInv'
  <1>0. /\ pc # "idle" /\ pc' = "idle" /\ cache' = cache
        /\ cur \in CRs /\ ch \in Object
    BY DEF TypeOK, AddFinalizer, Release, PersistStatus, WriteFails, APIWrites, Done, Abort
  <1>1. CASE AddFinalizer
    <2> DEFINE obj == [ch EXCEPT !.fin = TRUE, !.status = api[cur].status]
    <2>1. api[cur] \in Object /\ api[cur] # None
      BY <1>0, <1>1 DEF AddFinalizer, FreshInv, TypeOK
    <2>2. obj \in Object /\ obj.status = api[cur].status
      BY <1>0, <2>1, ObjectFields DEF Object
    <2>3. Put(cur, obj) /\ queue' = queue \cup {cur}
      BY <1>1 DEF AddFinalizer, Abort
    <2> HIDE DEF obj
    <2>4. obj.status.cond = "None" => obj.status.id = 0
      BY <1>0, <2>1, <2>2 DEF SchedInv, CondInv
    <2> QED
      BY <1>0, <2>1, <2>2, <2>3, <2>4, PutSched
  <1>2. CASE Release
    <2>1. Put(cur, None) /\ queue' = queue
      BY <1>2 DEF Release, Done
    <2> QED
      BY <1>0, <2>1, PutSched DEF Newborn, Unfinished
  <1>3. CASE PersistStatus
    <2>1. /\ api[cur] \in Object /\ api[cur] # None /\ ~api[cur].term
          /\ ch.status \in Status /\ ch.status.cond # "None" /\ queue' = queue
      BY <1>0, <1>3, ObjectFields
         DEF PersistStatus, Done, FreshInv, PhaseInv, SchedInv, CondInv, TypeOK
    <2>2. CASE Put(cur, WithStatus(api[cur], ch.status))
      <3> DEFINE obj == WithStatus(api[cur], ch.status)
      <3>1. obj \in Object /\ obj.term = api[cur].term /\ obj.status = ch.status
        BY <2>1, WithStatusType
      <3>2. Put(cur, obj)
        BY <2>2
      <3> HIDE DEF obj
      <3>3. ~Unfinished(obj)
        BY <2>1, <3>1 DEF Unfinished
      <3> QED
        BY <1>0, <2>1, <3>1, <3>2, <3>3, PutSched
    <2>3. CASE ~StatusChanges(cur, ch.status) /\ UNCHANGED <<api, watch>>
      <3>1. ~Unfinished(api[cur])
        BY <2>1, <2>3 DEF StatusChanges, Unfinished
      <3>2. BirthInv' /\ CondInv' /\ (\A c \in CRs : WakingEvent(c)' <=> WakingEvent(c))
        BY <1>0, <2>3 DEF SchedInv, BirthInv, CondInv, IsFirst, Follows, WakingEvent, Wakes
      <3>3. WakeInv'
        BY <2>1, <2>3, <3>1, <3>2 DEF SchedInv, WakeInv
      <3> QED
        BY <3>2, <3>3 DEF SchedInv
    <2> QED
      BY <1>3, <2>2, <2>3 DEF PersistStatus
  <1>4. CASE WriteFails
    BY <1>0, <1>4, KeepSched DEF WriteFails, Abort
  <1> QED
    BY <1>1, <1>2, <1>3, <1>4

-----------------------------------------------------------------------------
(***************************************************************************)
(* All steps                                                               *)
(***************************************************************************)

LEMMA SchedNext == IInv /\ SchedInv /\ [Next]_vars => SchedInv'
  <1> SUFFICES ASSUME IInv, SchedInv, [Next]_vars PROVE SchedInv'
    OBVIOUS
  <1>0. TypeOK /\ SyncInv /\ LastInv /\ FreshInv /\ PhaseInv
    BY DEF IInv
  <1>00. pc = "status" => ch.status.cond # "None"
    BY DEF SchedInv, CondInv
  <1>1. ASSUME NEW c \in CRs, Reconcile(c) \/ User(c) PROVE SchedInv'
    BY <1>0, <1>1, ReconcileSched, UserSched
  <1>2. ASSUME NEW c \in CRs, DriftEvent(c) PROVE SchedInv'
    BY <1>00, <1>2, KeepSched DEF DriftEvent, worker
  <1>3. CASE WorkerStep
    BY <1>0, <1>3, CFCallSched, APIWriteSched DEF WorkerStep
  <1>4. CASE Deliver
    BY <1>0, <1>4, DeliverSched
  <1>5. CASE External
    <2>1. OnlyCF
      BY <1>5 DEF External, ExtCreate, ExtEdit, ExtDelete, SSLChanges
    <2> QED
      BY <1>00, <2>1, KeepSched DEF OnlyCF, worker
  <1>6. ASSUME NEW z \in Zones, ZoneChanges(z) PROVE SchedInv'
    BY <1>00, <1>6, KeepSched DEF ZoneChanges, worker
  <1>7. CASE Restart
    BY <1>7, RestartSched
  <1>8. CASE UNCHANGED vars
    BY <1>00, <1>8, KeepSched DEF vars, worker
  <1> QED
    BY <1>1, <1>2, <1>3, <1>4, <1>5, <1>6, <1>7, <1>8 DEF Next

LEMMA SchedInvariance == Spec => []SchedInv
  <1>1. Init => SchedInv
    BY DEF Init, SchedInv, BirthInv, WakeInv, CondInv, Unfinished
  <1> QED
    BY <1>1, SchedNext, Invariance, PTL DEF Spec

\* handleDelete and every reconcile that has not ended yet are come back to, whatever
\* fastWritePredicate filters out: a CR that is being deleted, or that has no
\* condition yet, is in the queue, in the worker's hands, or an event is under way.
THEOREM NothingIsForgotten == Spec => []NothingForgotten
  <1>1. SchedInv => NothingForgotten
    BY DEF SchedInv, WakeInv, WakingEvent, Unfinished, NothingForgotten, Scheduled, Pending
  <1> QED
    BY <1>1, SchedInvariance, PTL
=============================================================================
