---------------------------- MODULE EdgeOperator ----------------------------
(***************************************************************************)
(* The whole operator: the CustomHostname controller of CustomHostname     *)
(* together with the Zone controller, whose worker is the coordinator.     *)
(*                                                                         *)
(* One Zone reconcile initializes the zone if need be, lists the records   *)
(* of the zone in CF, then the CRs of the zone in the informer cache,      *)
(* compares them, and sends every CR that differs to the CustomHostname    *)
(* controller.  The two lists are taken at different times, and the sends  *)
(* go through a channel of bounded size on which the worker may block.     *)
(***************************************************************************)
EXTENDS CustomHostname

CONSTANT DriftBuffer   \* --drift-buffer

ASSUME DriftBufferAssumption == DriftBuffer \in Nat \ {0}
ASSUME ReadyAssumption == "ready" \in ZoneModes

VARIABLES
    zpc,   \* what the Zone worker does next, "idle" between reconciles
    zcur,  \* the zone being reconciled
    snap,  \* its bulk list: hostname -> a record as it was, or None
    todo,  \* CRs that are still to be sent
    chan,  \* driftEvents: CRs sent and not yet received
    calm   \* from now on nothing fails and nobody else acts; for properties only

coord == <<zpc, zcur, snap, todo, chan>>
evars == <<vars, coord, calm>>

Listed == [id : Nat \ {0}, cfg : Cfgs, ssl : {"pending", "active"}]

NoList == [h \in Hosts |-> None]

CoordTypeOK ==
    /\ zpc \in {"idle", "get", "list", "compare", "send"}
    /\ zcur \in Zones \cup {None}
    /\ snap \in [Hosts -> Listed \cup {None}]
    /\ todo \subseteq CRs
    /\ chan \in Seq(CRs) /\ Len(chan) <= DriftBuffer
    /\ calm \in BOOLEAN

-----------------------------------------------------------------------------
(***************************************************************************)
(* The Zone worker                                                         *)
(***************************************************************************)

Controller == UNCHANGED <<api, cache, watch, cf, queue, worker, dryRun>>

Idle == zpc' = "idle" /\ zcur' = None /\ snap' = NoList /\ todo' = {}

\* needsInit: the domain is unknown, or the Zone was edited since (which is left
\* open).  Without a secret the reconcile fails before it does anything.
ZoneReconcile(z) ==
    /\ zpc = "idle" /\ zone[z] # "missing"
    /\ zcur' = z
    /\ zpc' \in IF zone[z] = "uninit" THEN {"get"} ELSE {"get", "list"}
    /\ UNCHANGED <<zone, snap, todo, chan>> /\ Controller

\* The GET of the zone succeeds and its result is written to the status; that the
\* secret is gone by now does not matter, for the client has the token.
InitializeZone ==
    /\ zpc = "get"
    /\ zone' = [zone EXCEPT ![zcur] = IF @ = "missing" THEN @ ELSE "ready"]
    /\ zpc' = "list"
    /\ UNCHANGED <<zcur, snap, todo, chan>> /\ Controller

\* The Zone is gone by now, so that its status cannot be written.
ZoneGone ==
    /\ zpc = "get" /\ zone[zcur] = "missing"
    /\ Idle
    /\ UNCHANGED <<zone, chan>> /\ Controller

\* A call fails or a status write is refused: the zone is reconciled again later.
ZoneFails ==
    /\ zpc \in {"get", "list", "compare"}
    /\ Idle
    /\ UNCHANGED <<zone, chan>> /\ Controller

\* Of two records with one hostname the one listed last counts.
BulkLists(z) ==
    {s \in [Hosts -> {None} \cup {[id |-> r, cfg |-> cf[r].cfg, ssl |-> cf[r].ssl] :
                                     r \in DOMAIN cf}] :
       \A h \in Hosts : IF s[h] = None THEN FindByHostname(z, h) = {0}
                        ELSE s[h].id \in FindByHostname(z, h)}

ListCloudflareHostnames ==
    /\ zpc = "list" /\ zpc' = "compare"
    /\ snap' \in BulkLists(zcur)
    /\ UNCHANGED <<zone, zcur, todo, chan>> /\ Controller

\* Fault: two records with the same certificate state are taken for one.
SSLStatusChanged_StateOnly(s, rec) == s.ssl # rec.ssl

\* status.ssl holds the id of the certificate, so it differs for another record.
SSLStatusChanged(s, rec) == s.ssl # rec.ssl \/ s.id # rec.id

\* Fault: a record that is gone is left to the next change of the CR.
Enqueued_IgnoresGone(o, rec) ==
    /\ rec # None
    /\ IF Drifted(o.spec, rec) THEN o.status.cond # "HostnameConflict"
       ELSE SSLStatusChanged(o.status, rec) \/ o.status.errs

\* Is the CR o to be enqueued when rec is what the bulk list has for it?
Enqueued(o, rec) ==
    IF rec = None THEN TRUE
    ELSE IF Drifted(o.spec, rec) THEN o.status.cond # "HostnameConflict"
    ELSE SSLStatusChanged(o.status, rec) \/ o.status.errs

DetectDrift ==
    LET drifted == {c \in CRs : /\ cache[c] # None /\ cache[c].spec.zone = zcur
                                /\ Enqueued(cache[c], snap[HostOf[c]])}
    IN  /\ zpc = "compare"
        /\ \/ drifted = {} /\ Idle
           \/ /\ drifted # {}
              /\ zpc' = "send" /\ todo' = drifted /\ snap' = NoList
              /\ UNCHANGED zcur
        /\ UNCHANGED <<zone, chan>> /\ Controller

\* Fault: the send never blocks.
SendDriftEvent_Unbounded(c) ==
    /\ zpc = "send" /\ c \in todo
    /\ chan' = Append(chan, c)
    /\ \/ todo = {c} /\ Idle
       \/ todo # {c} /\ todo' = todo \ {c} /\ UNCHANGED <<zpc, zcur, snap>>
    /\ UNCHANGED zone /\ Controller

\* The send blocks while the channel is full.
SendDriftEvent(c) ==
    /\ zpc = "send" /\ c \in todo
    /\ Len(chan) < DriftBuffer
    /\ chan' = Append(chan, c)
    /\ \/ todo = {c} /\ Idle
       \/ todo # {c} /\ todo' = todo \ {c} /\ UNCHANGED <<zpc, zcur, snap>>
    /\ UNCHANGED zone /\ Controller

ZoneStep ==
    \/ InitializeZone \/ ZoneGone \/ ListCloudflareHostnames \/ DetectDrift
    \/ \E c \in CRs : SendDriftEvent(c)

\* The CustomHostname controller receives from the channel.
Receive ==
    /\ chan # <<>>
    /\ DriftEvent(Head(chan))
    /\ chan' = Tail(chan)
    /\ UNCHANGED <<zpc, zcur, snap, todo>>

-----------------------------------------------------------------------------
(***************************************************************************)
(* The system                                                              *)
(***************************************************************************)

\* CF has no choice but to refuse the call: the record to edit is gone, or the one
\* to create is there by now.
Refused ==
    \/ pc = "edit" /\ ~InZone(ch.status.id, ch.spec.zone)
    \/ /\ pc = "create" /\ CFRejectsDuplicates
       /\ FindByHostname(ch.spec.zone, HostOf[cur]) # {0}

\* The CustomHostname worker, where CF and the API server do what they are asked
\* and can do.  That a stale write is refused is not a failure.
WorkerGoes ==
    \/ LookupMissing \/ LookupFound \/ CreateAttempt \/ EditAttempt
    \/ Predelete \/ DeleteAttempt \/ DeleteNotFound
    \/ AddFinalizer \/ Release \/ PersistStatus
    \/ CallFails /\ Refused
    \/ WriteFails /\ ~fresh

WorkerFails == (CallFails /\ ~Refused) \/ (WriteFails /\ fresh)

ControllerStep(A) == A /\ UNCHANGED coord

OperatorStep ==
    \/ \E c \in CRs : ControllerStep(Reconcile(c))
    \/ ControllerStep(WorkerGoes) \/ ControllerStep(Deliver)
    \/ \E z \in Zones : ZoneReconcile(z)
    \/ ZoneStep
    \/ Receive

\* What happens to Zones and secrets from outside: only the Zone worker makes an
\* uninitialized zone ready.
ZoneChangesOutside(z) ==
    /\ ZoneChanges(z)
    /\ ~(zone[z] = "uninit" /\ zone'[z] = "ready")

EdgeRestart == Restart /\ Idle /\ chan' = <<>>

\* Anything the operator has no hand in, and every failure.
Disturbance ==
    \/ \E c \in CRs : ControllerStep(User(c))
    \/ ControllerStep(WorkerFails) \/ ControllerStep(External)
    \/ \E z \in Zones : ControllerStep(ZoneChangesOutside(z))
    \/ ZoneFails
    \/ EdgeRestart

BecomesCalm == ~calm /\ calm' = TRUE /\ UNCHANGED <<vars, coord>>

EdgeInit ==
    /\ Init
    /\ zpc = "idle" /\ zcur = None /\ snap = NoList /\ todo = {} /\ chan = <<>>
    /\ calm = FALSE

EdgeNext ==
    \/ OperatorStep /\ UNCHANGED calm
    \/ Disturbance /\ ~calm /\ UNCHANGED calm
    \/ BecomesCalm

\* The goroutines of the process run; the work queues are served in order, so no
\* key waits for ever, and a zone comes back after every drift interval.
Fairness ==
    /\ WF_evars(ControllerStep(WorkerGoes) /\ UNCHANGED calm)
    /\ WF_evars(ControllerStep(Deliver) /\ UNCHANGED calm)
    /\ WF_evars(Receive /\ UNCHANGED calm)
    /\ WF_evars(ZoneStep /\ UNCHANGED calm)
    /\ \A c \in CRs : SF_evars(ControllerStep(Reconcile(c)) /\ UNCHANGED calm)
    /\ \A z \in Zones : SF_evars(ZoneReconcile(z) /\ UNCHANGED calm)

EdgeSafety == EdgeInit /\ [][EdgeNext]_evars

EdgeSpec == EdgeSafety /\ Fairness

-----------------------------------------------------------------------------
(***************************************************************************)
(* Properties                                                              *)
(***************************************************************************)

\* The status tells what CF has, with no error counted, and CF has what the spec
\* asks for as far as the policy lets the operator enforce it.
Reflected(c) ==
    LET o == api[c]
        r == o.status.id
    IN  /\ r \in FindByHostname(o.spec.zone, HostOf[c]) \ {0}
        /\ o.status.ssl = cf[r].ssl /\ ~o.status.errs
        /\ MayEdit(o.spec) => ~Drifted(o.spec, cf[r])
        /\ o.status.cond = IF cf[r].ssl = "active" THEN "Ready" ELSE "SSLPending"

\* There is nothing to reflect and the policy keeps the operator from making it.
Waiting(c) ==
    /\ FindByHostname(api[c].spec.zone, HostOf[c]) = {0}
    /\ \/ /\ api[c].status.cond = "WaitingForExternal"
          /\ EffectiveManagementPolicy(api[c].spec) = "observe"
       \/ api[c].status.cond = "DryRun" /\ dryRun

Settled(c) ==
    \/ api[c] = None
    \/ api[c] # None /\ ~HasClient(api[c].spec)
    \/ /\ api[c] # None /\ HasClient(api[c].spec) /\ ~api[c].term
       /\ IF OriginNotInZone(api[c].spec) THEN api[c].status.cond = "Error"
          ELSE Reflected(c) \/ Waiting(c)

\* The worker has to create a record, and the bound on records does not let it.
Exhausted == pc = "create" /\ Len(cf) = MaxRecords

\* Once the disturbances cease every CR of a usable zone settles: it is removed if
\* it was being deleted, and else its record and status are brought in line,
\* whatever was lost before - unless CF takes no more records.
Converges ==
    <>calm => <>[](Exhausted \/ \A c \in CRs : Settled(c))

\* Two CRs of one hostname may share its record, which goes with the one that is
\* deleted first: the CR that is left finds the record gone, or its association
\* outdated, and is served again.
SurvivorServed ==
    (<>[](calm /\ \E c \in CRs : \A p \in CRs \ {c} : api[p] = None))
       => <>[](Exhausted \/ \A c \in CRs : Settled(c))

\* zone_customhostname_drift.go, isHostnameConflict: two CRs that claim one hostname
\* do not update its record back and forth.
NoEditWar == <>calm => <>[](pc # "edit")

\* customhostname_controller.go, detectConflict: when two CRs race and are both
\* associated with the record, this heals by itself: not both stay in conflict.
RaceHeals ==
    <>calm => []<>(\E c \in CRs : \/ api[c] = None
                                  \/ api[c].status.cond # "HostnameConflict")

\* docs/architecture.md: HostnameConflict clears automatically when the owning CR is
\* deleted.
ConflictClears ==
    <>calm => \A c \in CRs :
       []<>(\/ api[c] = None \/ api[c].term \/ zone[api[c].spec.zone] = "missing"
            \/ api[c].status.cond # "HostnameConflict"
            \/ \E p \in CRs \ {c} : api[p] # None)
=============================================================================
