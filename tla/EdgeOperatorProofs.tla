------------------------- MODULE EdgeOperatorProofs -------------------------
(***************************************************************************)
(* Every step of the whole operator is a step of CustomHostname, or leaves *)
(* its variables alone: the Zone worker only ever enqueues CRs and         *)
(* initializes zones.  What is proved of CustomHostname, where the         *)
(* coordinator is left open, therefore holds of the operator.              *)
(***************************************************************************)
EXTENDS EdgeOperator, CustomHostnameScheduleProofs, CHRefinementProofs

\* What the coordinator's steps need to know to be steps of CustomHostname.
\* The bulk list is left out: it does not matter to CustomHostname.
CoordInv ==
    /\ CoordTypeOK
    /\ zpc \in {"get", "list", "compare", "send"} => zcur \in Zones

EdgeInv == IInv /\ CoordInv

-----------------------------------------------------------------------------
(***************************************************************************)
(* Steps                                                                   *)
(***************************************************************************)

\* The steps of the coordinator before it sends leave CustomHostname alone;
\* initializing a zone that is initialized or without a secret does, too.
LEMMA ZoneStepMaps ==
    ASSUME EdgeInv, ZoneStep \/ ZoneFails \/ (\E z \in Zones : ZoneReconcile(z))
    PROVE  [Next]_vars
  <1>1. CASE InitializeZone
    <2>1. zcur \in Zones /\ zone \in [Zones -> ZoneModes]
      BY <1>1 DEF InitializeZone, EdgeInv, CoordInv, IInv, TypeOK
    <2>2. CASE zone[zcur] \in {"ready", "missing"}
      <3>1. zone' = zone
        BY <1>1, <2>1, <2>2 DEF InitializeZone
      <3> QED
        BY <1>1, <3>1 DEF InitializeZone, Controller, vars, worker
    <2>3. CASE zone[zcur] \notin {"ready", "missing"}
      <3>1. "ready" \in ZoneModes \ {zone[zcur]}
        BY <2>3, ReadyAssumption
      <3>2. zone' = [zone EXCEPT ![zcur] = "ready"]
        BY <1>1, <2>3 DEF InitializeZone
      <3>3. ZoneChanges(zcur)
        BY <1>1, <3>1, <3>2 DEF InitializeZone, Controller, ZoneChanges, worker
      <3> QED
        BY <2>1, <3>3 DEF Next
    <2> QED
      BY <2>2, <2>3
  <1>2. CASE ListCloudflareHostnames
    BY <1>2 DEF ListCloudflareHostnames, Controller, vars, worker
  <1>3. CASE DetectDrift
    BY <1>3 DEF DetectDrift, Controller, vars, worker
  <1>4. CASE \E c \in CRs : SendDriftEvent(c)
    BY <1>4 DEF SendDriftEvent, Controller, vars, worker
  <1>5. CASE ZoneFails
    BY <1>5 DEF ZoneFails, Controller, vars, worker
  <1>6. CASE ZoneGone
    BY <1>6 DEF ZoneGone, Controller, vars, worker
  <1>7. CASE \E z \in Zones : ZoneReconcile(z)
    BY <1>7 DEF ZoneReconcile, Controller, vars, worker
  <1> QED
    BY <1>1, <1>2, <1>3, <1>4, <1>5, <1>6, <1>7 DEF ZoneStep

\* Receiving from the channel is the drift event that CustomHostname leaves open.
LEMMA ReceiveMaps ==
    ASSUME EdgeInv, Receive
    PROVE  Next
  <1>1. Head(chan) \in CRs
    BY DEF Receive, EdgeInv, CoordInv, CoordTypeOK
  <1> QED
    BY <1>1 DEF Receive, Next

LEMMA DisturbanceMaps ==
    ASSUME EdgeInv, Disturbance
    PROVE  [Next]_vars
  <1>1. CASE \E c \in CRs : ControllerStep(User(c))
    BY <1>1 DEF ControllerStep, Next
  <1>2. CASE ControllerStep(WorkerFails)
    BY <1>2 DEF ControllerStep, WorkerFails, WorkerStep, Next
  <1>3. CASE ControllerStep(External)
    BY <1>3 DEF ControllerStep, Next
  <1>4. CASE \E z \in Zones : ControllerStep(ZoneChangesOutside(z))
    BY <1>4 DEF ControllerStep, ZoneChangesOutside, Next
  <1>5. CASE ZoneFails
    BY <1>5, ZoneStepMaps
  <1>6. CASE EdgeRestart
    BY <1>6 DEF EdgeRestart, Next
  <1> QED
    BY <1>1, <1>2, <1>3, <1>4, <1>5, <1>6 DEF Disturbance

LEMMA StepMaps ==
    ASSUME EdgeInv, [EdgeNext]_evars
    PROVE  [Next]_vars
  <1>1. CASE \E c \in CRs : ControllerStep(Reconcile(c))
    BY <1>1 DEF ControllerStep, Next
  <1>2. CASE ControllerStep(WorkerGoes)
    BY <1>2 DEF ControllerStep, WorkerGoes, WorkerStep, Next
  <1>3. CASE ControllerStep(Deliver)
    BY <1>3 DEF ControllerStep, Next
  <1>4. CASE ZoneStep \/ \E z \in Zones : ZoneReconcile(z)
    BY <1>4, ZoneStepMaps
  <1>5. CASE Receive
    BY <1>5, ReceiveMaps
  <1>6. CASE Disturbance
    BY <1>6, DisturbanceMaps
  <1>7. CASE BecomesCalm \/ UNCHANGED evars
    BY <1>7 DEF BecomesCalm, evars
  <1> QED
    BY <1>1, <1>2, <1>3, <1>4, <1>5, <1>6, <1>7 DEF EdgeNext, OperatorStep

-----------------------------------------------------------------------------
(***************************************************************************)
(* The coordinator's own variables                                         *)
(***************************************************************************)

\* The bulk list holds records as they are in CF.
LEMMA BulkListType ==
    ASSUME TypeOK, NEW z \in Zones, NEW s \in BulkLists(z)
    PROVE  s \in [Hosts -> Listed \cup {None}]
  <1>1. ASSUME NEW r \in DOMAIN cf
        PROVE  [id |-> r, cfg |-> cf[r].cfg, ssl |-> cf[r].ssl] \in Listed
    <2>1. cf[r] \in Record /\ r \in Nat \ {0}
      BY <1>1 DEF TypeOK
    <2> QED
      BY <2>1 DEF Record, Listed
  <1> QED
    BY <1>1 DEF BulkLists

LEMMA NoListType == NoList \in [Hosts -> Listed \cup {None}]
  BY DEF NoList

LEMMA IdleInv ==
    ASSUME CoordInv, Idle, chan' \in Seq(CRs), Len(chan') <= DriftBuffer, calm' \in BOOLEAN
    PROVE  CoordInv'
  BY NoListType DEF Idle, CoordInv, CoordTypeOK

LEMMA SendInv ==
    ASSUME CoordInv, NEW c \in CRs, SendDriftEvent(c), UNCHANGED calm
    PROVE  CoordInv'
  <1>1. chan' \in Seq(CRs) /\ Len(chan') <= DriftBuffer
    BY DriftBufferAssumption DEF SendDriftEvent, CoordInv, CoordTypeOK
  <1>2. CASE Idle
    BY <1>1, <1>2, IdleInv DEF CoordInv, CoordTypeOK
  <1>3. CASE todo' = todo \ {c} /\ UNCHANGED <<zpc, zcur, snap>>
    BY <1>1, <1>3 DEF CoordInv, CoordTypeOK
  <1> QED
    BY <1>2, <1>3 DEF SendDriftEvent

LEMMA CoordNext ==
    ASSUME EdgeInv, [EdgeNext]_evars
    PROVE  CoordInv'
  <1>0. CoordInv /\ TypeOK /\ chan \in Seq(CRs) /\ Len(chan) <= DriftBuffer
    BY DEF EdgeInv, IInv, CoordInv, CoordTypeOK
  <1>1. calm' \in BOOLEAN
    BY DEF EdgeInv, CoordInv, CoordTypeOK, EdgeNext, BecomesCalm, evars
  <1>2. CASE UNCHANGED coord
    BY <1>0, <1>1, <1>2 DEF coord, CoordInv, CoordTypeOK
  <1>3. ASSUME NEW z \in Zones, ZoneReconcile(z) PROVE CoordInv'
    BY <1>0, <1>1, <1>3 DEF ZoneReconcile, CoordInv, CoordTypeOK
  <1>4. CASE InitializeZone
    BY <1>0, <1>1, <1>4 DEF InitializeZone, CoordInv, CoordTypeOK
  <1>5. CASE ListCloudflareHostnames
    <2>1. zcur \in Zones
      BY <1>0, <1>5 DEF ListCloudflareHostnames, CoordInv
    <2>2. snap' \in [Hosts -> Listed \cup {None}]
      BY <1>0, <1>5, <2>1, BulkListType DEF ListCloudflareHostnames
    <2> QED
      BY <1>0, <1>1, <1>5, <2>1, <2>2 DEF ListCloudflareHostnames, CoordInv, CoordTypeOK
  <1>6. CASE DetectDrift
    <2>1. CASE Idle
      BY <1>0, <1>1, <1>6, <2>1, IdleInv DEF DetectDrift
    <2>2. CASE /\ zpc' = "send" /\ todo' \subseteq CRs /\ snap' = NoList
               /\ UNCHANGED <<zcur, chan>>
      BY <1>0, <1>1, <1>6, <2>2, NoListType DEF DetectDrift, CoordInv, CoordTypeOK
    <2> QED
      BY <1>6, <2>1, <2>2 DEF DetectDrift
  <1>7. ASSUME NEW c \in CRs, SendDriftEvent(c), UNCHANGED calm PROVE CoordInv'
    BY <1>0, <1>7, SendInv
  <1>8. CASE Receive
    <2>1. chan' \in Seq(CRs) /\ Len(chan') <= Len(chan)
      BY <1>0, <1>8 DEF Receive
    <2> QED
      BY <1>0, <1>1, <1>8, <2>1, DriftBufferAssumption DEF Receive, CoordInv, CoordTypeOK
  <1>9. CASE ZoneFails \/ ZoneGone
    BY <1>0, <1>1, <1>9, IdleInv DEF ZoneFails, ZoneGone
  <1>10. CASE EdgeRestart
    <2>1. chan' \in Seq(CRs) /\ Len(chan') <= DriftBuffer
      BY <1>10, DriftBufferAssumption DEF EdgeRestart
    <2> QED
      BY <1>0, <1>1, <1>10, <2>1, IdleInv DEF EdgeRestart
  <1>11. CASE BecomesCalm \/ UNCHANGED evars
    BY <1>2, <1>11 DEF BecomesCalm, evars
  <1> QED
    BY <1>2, <1>3, <1>4, <1>5, <1>6, <1>7, <1>8, <1>9, <1>10, <1>11
       DEF EdgeNext, OperatorStep, ZoneStep, Disturbance, ControllerStep

LEMMA EdgeInvariance == EdgeSafety => []EdgeInv
  <1>1. EdgeInit => EdgeInv
    <2> SUFFICES ASSUME EdgeInit PROVE EdgeInv
      OBVIOUS
    <2>1. IInv
      BY InitIInv DEF EdgeInit
    <2>2. chan \in Seq(CRs) /\ Len(chan) <= DriftBuffer
      BY DriftBufferAssumption DEF EdgeInit
    <2>3. snap \in [Hosts -> Listed \cup {None}]
      BY NoListType DEF EdgeInit
    <2>4. CoordInv
      BY <2>2, <2>3 DEF EdgeInit, CoordInv, CoordTypeOK
    <2> QED
      BY <2>1, <2>4 DEF EdgeInv
  <1>2. EdgeInv /\ [EdgeNext]_evars => EdgeInv'
    <2> SUFFICES ASSUME EdgeInv, [EdgeNext]_evars PROVE EdgeInv'
      OBVIOUS
    <2>1. IInv'
      BY StepMaps, IInvNext DEF EdgeInv
    <2> QED
      BY <2>1, CoordNext DEF EdgeInv
  <1> QED
    BY <1>1, <1>2, PTL DEF EdgeSafety

-----------------------------------------------------------------------------
(***************************************************************************)
(* Theorems                                                                *)
(***************************************************************************)

\* Whatever detectCustomHostnameDrift, initializeZone and the channel do, they
\* do nothing to CRs and records that CustomHostname does not allow: with the
\* Zone worker's steps hidden, the operator behaves as CustomHostname.
THEOREM OperatorImplementsController == EdgeSafety => Spec
  <1>1. EdgeInit => Init
    BY DEF EdgeInit
  <1>2. EdgeInv /\ [EdgeNext]_evars => [Next]_vars
    BY StepMaps
  <1> QED
    BY <1>1, <1>2, EdgeInvariance, PTL DEF EdgeSafety, Spec

\* sendDriftEvent never sends to a full channel (it blocks), and what the
\* coordinator holds is of its type.
THEOREM CoordinatorTypeCorrect == EdgeSafety => []CoordTypeOK
  <1>1. EdgeInv => CoordTypeOK
    BY DEF EdgeInv, CoordInv
  <1> QED
    BY <1>1, EdgeInvariance, PTL

\* The operator, its coordinator included, makes records only under the finalizer,
\* loses no user's write, leaves the status of a terminating CR as it is, forgets no
\* CR, records ids of a CR's own hostname, reports consistently, counts creates only
\* for records that were lost, keeps the count of errors until a success, and makes no
\* write to Cloudflare that the spec it read forbids.
THEOREM OperatorIsSafe ==
    EdgeSafety => /\ [](CreateUnderFinalizer /\ NothingForgotten /\ RecordedHost)
                  /\ [](StatusConsistent /\ RecreateOnlyAfterLoss)
                  /\ NoLostUpdate /\ TerminatingStatusFrozen
                  /\ PolicyRespected /\ ErrorsOutlastDetours
  BY OperatorImplementsController, CreatesAreGuarded, NothingIsForgotten, IdsAreOfOwnHost,
     StatusesAreConsistent, RecreatesReplaceLosses, NoUpdateIsLost,
     TerminatingStatusIsFrozen, PoliciesAreRespected, ErrorsAreKept, PTL

\* With its coordinator, that may enqueue any CR at any time, the operator still makes
\* one record of a hostname.
THEOREM OperatorMakesOneRecord ==
    ASSUME RetriesAreSafe PROVE EdgeSafety => []OneRecordPerHost
  BY OperatorImplementsController, OneRecordIsMade

\* The operator as a whole keeps the promises of CHLifecycle, lets a CR go only when
\* its record is gone, and deletes for the CR that is being deleted only.
THEOREM OperatorImplementsLifecycle ==
    ASSUME ZoneIsFixed, OwnOnlyIsExact
    PROVE  EdgeSafety =>
             ImplementsLifecycle /\ ReleaseMeansDeleted /\ DeletesOnlyForTerminating
  BY OperatorImplementsController, ControllerImplementsLifecycle, ReleasedIsDeleted,
     DeletesAreForTerminating
=============================================================================
