--------------------------- MODULE CustomHostname ---------------------------
(***************************************************************************)
(* The CustomHostname controller of the operator: one worker that          *)
(* reconciles CustomHostname objects (CRs) with the custom hostname        *)
(* records of Cloudflare (CF).                                             *)
(*                                                                         *)
(* Four places hold state that is never updated together: the API server   *)
(* (api), the informer's copy of it (cache), which lags behind by the      *)
(* events of watch, Cloudflare (cf), and the copy the worker computes on   *)
(* (ch).  A reconcile is several steps: it reads the cache, calls CF once  *)
(* or more, and ends in at most one write to the API server, which         *)
(* optimistic concurrency refuses when the object has changed.  Users,     *)
(* other CF clients, the watch and restarts act between any two steps.     *)
(*                                                                         *)
(* The Zone coordinator is left open here: it may enqueue any CR at any    *)
(* time (DriftEvent).                                                      *)
(***************************************************************************)
EXTENDS Naturals, Sequences, FiniteSets

CONSTANTS
    CRs,                  \* names of CustomHostname objects
    None,                 \* no object, no CR
    Hosts,                \* hostnames
    HostOf,               \* spec.hostname of each CR: immutable
    Zones,                \* Zone objects, each a Cloudflare zone
    ZoneModes,            \* the states of Zone objects that are considered
    Cfgs,                 \* values of the managed fields: origin, SNI, SSL
    OutOfZone,            \* the Cfgs whose origin is outside every zone
    Specs,                \* the specs users may write
    ManagementPolicy,     \* --management-policy
    DeletePolicy,         \* --delete-policy
    DryRunModes,          \* values of --dry-run that a (re)start may choose
    MaxRetries,           \* --cf-api-max-retries
    CFRejectsDuplicates,  \* does CF refuse a second record of a hostname?
    LostReplies,          \* may CF apply a write whose reply is lost?
    ExtOps,               \* what CF and its other clients do to records
    MaxRecords,           \* bound: records ever made in CF
    MaxLag                \* bound: watch events not yet delivered

AnySpec == [zone : Zones, cfg : Cfgs,
            mgmt : {"", "manage", "create", "observe"},
            del  : {"", "always", "own-only", "never"}]

Conds == {"None", "Ready", "SSLPending", "WaitingForExternal",
          "HostnameConflict", "Error", "DryRun"}

\* Every reason setError is called with is the condition "Error"; errs is
\* consecutiveErrors > 0, ssl stands for status.ssl and status.hostnameStatus,
\* id = 0 for the empty status.id.
Status == [id : Nat, ssl : {"none", "pending", "active"},
           errs : BOOLEAN, creates : Nat, cond : Conds]

\* fin: the operator's finalizer is present; term: deletionTimestamp is set.
Object == [spec : Specs, fin : BOOLEAN, term : BOOLEAN, status : Status]

\* A custom hostname in CF.  by: the CR it was created for, None when another
\* client made it.  Deleted records stay, with live = FALSE: ids are not reused.
Record == [zone : Zones, host : Hosts, cfg : Cfgs, ssl : {"pending", "active"},
           by : CRs \cup {None}, live : BOOLEAN]

\* The flags main accepts; with any other value the process exits at once.
ValidFlags ==
    /\ ManagementPolicy \in {"manage", "create", "observe"}
    /\ DeletePolicy \in {"always", "own-only", "never"}
    /\ MaxRetries \in Nat

ASSUME NoneAssumption == None \notin CRs /\ None \notin Object
ASSUME FlagAssumption == ValidFlags
ASSUME BoundAssumption ==
    MaxRetries \in Nat /\ MaxRecords \in Nat /\ MaxLag \in Nat
ASSUME ConfigAssumption ==
    /\ HostOf \in [CRs -> Hosts]
    /\ ZoneModes \subseteq {"missing", "uninit", "ready"}
    /\ ZoneModes # {}
    /\ OutOfZone \subseteq Cfgs
    /\ Specs \subseteq AnySpec
    /\ DryRunModes \subseteq BOOLEAN
    /\ CFRejectsDuplicates \in BOOLEAN /\ LostReplies \in BOOLEAN
    /\ ExtOps \subseteq {"create", "edit", "delete", "ssl"}

VARIABLES
    api,     \* API server: CR -> object or None
    cache,   \* informer cache: CR -> object or None
    watch,   \* API server events the informer has yet to receive, in order
    zone,    \* Zone -> no usable client, or client with domain (un)known
    cf,      \* Cloudflare: the sequence of records; an id is an index
    queue,   \* work queue of the controller: a set of CRs
    pc,      \* what the worker does next, "idle" between reconciles
    cur,     \* the CR being reconciled
    ch,      \* the worker's in-memory copy of it
    fresh,   \* ch carries the resourceVersion the API server holds
    tries,   \* retries made by the current cfRetry
    dryRun   \* --dry-run of the running process

worker == <<pc, cur, ch, fresh, tries>>
vars == <<api, cache, watch, zone, cf, queue, worker, dryRun>>

CFCalls == {"lookup", "create", "edit", "predelete", "delete"}
APIWrites == {"finalizer", "release", "status"}

TypeOK ==
    /\ api \in [CRs -> Object \cup {None}]
    /\ cache \in [CRs -> Object \cup {None}]
    /\ watch \in Seq([cr : CRs, obj : Object \cup {None}])
    /\ zone \in [Zones -> ZoneModes]
    /\ cf \in Seq(Record) /\ Len(cf) <= MaxRecords
    /\ queue \subseteq CRs
    /\ pc \in {"idle"} \cup CFCalls \cup APIWrites
    /\ pc = "idle" => cur = None /\ ch = None
    /\ pc # "idle" => cur \in CRs /\ ch \in Object
    /\ fresh \in BOOLEAN /\ (pc = "idle" => ~fresh)
    /\ tries \in 0..MaxRetries
    /\ dryRun \in BOOLEAN

-----------------------------------------------------------------------------
(***************************************************************************)
(* Decisions of the code that depend on one object                         *)
(***************************************************************************)

EffectiveManagementPolicy(spec) ==
    IF spec.mgmt # "" THEN spec.mgmt ELSE ManagementPolicy

EffectiveDeletePolicy(spec) ==
    IF spec.del # "" THEN spec.del ELSE DeletePolicy

\* Fault: own-only is taken for a policy that keeps the record.
ReleasedWithoutCF_UnlessAlways(o) ==
    \/ o.status.id = 0
    \/ EffectiveManagementPolicy(o.spec) = "observe"
    \/ EffectiveDeletePolicy(o.spec) # "always"

\* A terminating CR whose finalizer is released without asking CF.
ReleasedWithoutCF(o) ==
    \/ o.status.id = 0
    \/ EffectiveManagementPolicy(o.spec) = "observe"
    \/ EffectiveDeletePolicy(o.spec) = "never"

\* own-only: delete only the record the CR is associated with; found = 0
\* when CF has no record of the hostname.
ShouldDeleteInCF(id, found) == found = id

HasClient(spec) == zone[spec.zone] # "missing"

\* The origin check is skipped while the zone's domain is unknown.
OriginNotInZone(spec) == zone[spec.zone] = "ready" /\ spec.cfg \in OutOfZone

\* Fault: CRs of the same hostname are looked for under a wrong index key.
DetectConflict_Never(c) == FALSE

\* Another CR of the same hostname has a CF id, as far as the cache knows.
DetectConflict(c) ==
    \E p \in CRs \ {c} : /\ HostOf[p] = HostOf[c]
                         /\ cache[p] # None
                         /\ cache[p].status.id # 0

\* Fault: provisioning does not wait for the finalizer.
NeedsFinalizer_Never(o) == FALSE

NeedsFinalizer(o) == ~o.fin

\* Fault: the hostname filter is trusted and the exact match is not checked.
FindByHostname_AnyHost(z, h) ==
    LET found == {r \in DOMAIN cf : cf[r].live /\ cf[r].zone = z}
    IN  IF found = {} THEN {0} ELSE found

\* The answers findByHostname may give: 0 for nil, else a matching record.
FindByHostname(z, h) ==
    LET found == {r \in DOMAIN cf : cf[r].live /\ cf[r].zone = z /\ cf[r].host = h}
    IN  IF found = {} THEN {0} ELSE found

Drifted(spec, rec) == rec.cfg # spec.cfg

\* Fault: drift is corrected whatever the management policy.
MayEdit_AnyPolicy(spec) == ~dryRun

MayEdit(spec) == EffectiveManagementPolicy(spec) = "manage" /\ ~dryRun

-----------------------------------------------------------------------------
(***************************************************************************)
(* The status the code computes before it persists it                      *)
(***************************************************************************)

NewStatus == [id |-> 0, ssl |-> "none", errs |-> FALSE, creates |-> 0,
              cond |-> "None"]

SetError(s) == [s EXCEPT !.errs = TRUE, !.cond = "Error"]

\* Fault: a conflict counts as a success.
SetConflict_ClearsErrors(s) ==
    [s EXCEPT !.errs = FALSE, !.cond = "HostnameConflict"]

\* setCondition alone: the error counter stays as it is.
SetConflict(s) == [s EXCEPT !.cond = "HostnameConflict"]

\* Fault: waiting for a record does not clear the error count.
SetWaiting_KeepsErrors(s) == [s EXCEPT !.cond = "WaitingForExternal"]

SetWaiting(s) == [s EXCEPT !.errs = FALSE, !.cond = "WaitingForExternal"]

\* Fault: what a dry-run leaves undone counts as done.
SetDryRun_ClearsErrors(s) == [s EXCEPT !.errs = FALSE, !.cond = "DryRun"]

\* setCondition alone, as in a conflict.
SetDryRun(s) == [s EXCEPT !.cond = "DryRun"]

\* Fault: adopting a record counts as creating it.
Adopt_Counts(s, id) == [s EXCEPT !.id = id, !.creates = @ + 1]

Adopt(s, id) == [s EXCEPT !.id = id]

Refresh(s, ssl) == [s EXCEPT !.ssl = ssl]

Created(s, id, ssl) ==
    [s EXCEPT !.id = id, !.ssl = ssl, !.creates = @ + 1]

\* Fault: a success does not clear the error count.
RequeueOrReady_KeepsErrors(s) ==
    [s EXCEPT !.cond = IF s.ssl = "active" THEN "Ready" ELSE "SSLPending"]

RequeueOrReady(s) ==
    [s EXCEPT !.errs = FALSE,
              !.cond = IF s.ssl = "active" THEN "Ready" ELSE "SSLPending"]

-----------------------------------------------------------------------------
(***************************************************************************)
(* The API server and its watch                                            *)
(***************************************************************************)

Pending(c) == \E i \in DOMAIN watch : watch[i].cr = c

\* The API server stores obj for c and tells its watchers.
Put(c, obj) ==
    /\ Len(watch) < MaxLag
    /\ api' = [api EXCEPT ![c] = obj]
    /\ watch' = Append(watch, [cr |-> c, obj |-> obj])

\* Someone else than the worker writes c: a copy the worker has is outdated.
PutByOther(c, obj) ==
    /\ Put(c, obj)
    /\ fresh' = (fresh /\ cur # c)
    /\ UNCHANGED <<cache, zone, cf, queue, pc, cur, ch, tries, dryRun>>

\* setError counts up, so an error status always differs from the stored one.
StatusChanges(c, s) == s # api[c].status \/ s.cond = "Error"

\* Fault: an event of a provisioned CR is dropped even when it terminates.
FastWritePredicate_NoTerm(old, new) ==
    \/ new = None
    \/ old = None /\ new.status.id = 0
    \/ old # None /\ (old.spec # new.spec \/ old.term # new.term)

\* The event filter of the controller: generation changes with the spec and
\* when the deletion timestamp is set.
FastWritePredicate(old, new) ==
    \/ new = None
    \/ old = None /\ (new.term \/ new.status.id = 0)
    \/ old # None /\ (old.spec # new.spec \/ old.term # new.term)

\* The informer receives the next event and the controller enqueues the CR.
Deliver ==
    /\ watch # <<>>
    /\ LET e == Head(watch)
       IN  /\ cache' = [cache EXCEPT ![e.cr] = e.obj]
           /\ queue' = IF FastWritePredicate(cache[e.cr], e.obj)
                       THEN queue \cup {e.cr} ELSE queue
    /\ watch' = Tail(watch)
    /\ UNCHANGED <<api, zone, cf, worker, dryRun>>

\* The Zone coordinator sends a drift event for c.
DriftEvent(c) ==
    /\ queue' = queue \cup {c}
    /\ UNCHANGED <<api, cache, watch, zone, cf, worker, dryRun>>

-----------------------------------------------------------------------------
(***************************************************************************)
(* The worker: from the queue to the first step outside the process        *)
(***************************************************************************)

\* Take c from the queue, compute on the copy o of it, and do next.
Begin(c, o, next) ==
    /\ pc' = next /\ cur' = c /\ ch' = o
    /\ fresh' = ~Pending(c)
    /\ tries' = 0
    /\ queue' = queue \ {c}
    /\ UNCHANGED <<api, cache, watch, zone, cf, dryRun>>

Takes(c) == pc = "idle" /\ c \in queue

Alive(c) == cache[c] # None /\ ~cache[c].term

Terminating(c) == cache[c] # None /\ cache[c].term

WithStatus(o, s) == [o EXCEPT !.status = s]

ReconcileGone(c) ==
    /\ Takes(c) /\ cache[c] = None
    /\ queue' = queue \ {c}
    /\ UNCHANGED <<api, cache, watch, zone, cf, worker, dryRun>>

ReconcileRelease(c) ==
    /\ Takes(c) /\ Terminating(c)
    /\ ReleasedWithoutCF(cache[c])
    /\ Begin(c, cache[c], "release")

\* Fault: without a client the error goes to the status and not to the queue.
ReconcileDelete_SetsError(c) ==
    /\ Takes(c) /\ Terminating(c)
    /\ ~ReleasedWithoutCF(cache[c])
    /\ IF HasClient(cache[c].spec) THEN Begin(c, cache[c], "delete")
       ELSE Begin(c, WithStatus(cache[c], SetError(cache[c].status)), "status")

\* Without a client the error is returned and the key is queued again: no step.
ReconcileDelete(c) ==
    /\ Takes(c) /\ Terminating(c)
    /\ ~ReleasedWithoutCF(cache[c]) /\ HasClient(cache[c].spec)
    /\ Begin(c, cache[c],
             IF dryRun THEN "release"
             ELSE IF EffectiveDeletePolicy(cache[c].spec) = "own-only"
                  THEN "predelete" ELSE "delete")

Rejected(spec) == ~HasClient(spec) \/ OriginNotInZone(spec)

ReconcileError(c) ==
    /\ Takes(c) /\ Alive(c)
    /\ Rejected(cache[c].spec)
    /\ Begin(c, WithStatus(cache[c], SetError(cache[c].status)), "status")

ReconcileAddFinalizer(c) ==
    /\ Takes(c) /\ Alive(c)
    /\ ~Rejected(cache[c].spec) /\ NeedsFinalizer(cache[c])
    /\ Begin(c, cache[c], "finalizer")

\* The checks before the conflict check are passed.
Managed(c) ==
    /\ Takes(c) /\ Alive(c)
    /\ ~Rejected(cache[c].spec) /\ ~NeedsFinalizer(cache[c])

ReconcileConflict(c) ==
    /\ Managed(c) /\ DetectConflict(c)
    /\ Begin(c, WithStatus(cache[c], SetConflict(cache[c].status)), "status")

\* Fault: a CR without an id is created without looking the hostname up.
ReconcileLookup_CreatesFirst(c) ==
    /\ Managed(c) /\ ~DetectConflict(c)
    /\ Begin(c, cache[c], IF cache[c].status.id = 0 THEN "create" ELSE "lookup")

ReconcileLookup(c) ==
    /\ Managed(c) /\ ~DetectConflict(c)
    /\ Begin(c, cache[c], "lookup")

Reconcile(c) ==
    \/ ReconcileGone(c) \/ ReconcileRelease(c) \/ ReconcileDelete(c)
    \/ ReconcileError(c) \/ ReconcileAddFinalizer(c)
    \/ ReconcileConflict(c) \/ ReconcileLookup(c)

-----------------------------------------------------------------------------
(***************************************************************************)
(* The worker: calls to Cloudflare                                         *)
(***************************************************************************)

\* Go on with status s in memory; every call starts with its retries unused.
Goto(next, s) ==
    /\ pc' = next
    /\ ch' = WithStatus(ch, s)
    /\ tries' = 0
    /\ UNCHANGED <<api, cache, watch, zone, queue, cur, fresh, dryRun>>

\* requeueOrReady on the status s just computed.
Settle(s) == Goto("status", RequeueOrReady(s))

\* The reconcile returns with an error: the key is queued again.
Abort ==
    /\ pc' = "idle" /\ cur' = None /\ ch' = None /\ fresh' = FALSE /\ tries' = 0
    /\ queue' = queue \cup {cur}

\* Fault: a failed delete releases the finalizer all the same.
GiveUp_Releases ==
    /\ pc \in CFCalls
    /\ Goto(IF pc = "delete" THEN "release" ELSE "status",
            IF pc = "delete" THEN ch.status ELSE SetError(ch.status))

\* cfRetry returns an error to its caller.
GiveUp ==
    \/ /\ pc \in {"lookup", "create", "edit"}
       /\ Goto("status", SetError(ch.status))
    \/ /\ pc \in {"predelete", "delete"}
       /\ Abort
       /\ UNCHANGED <<api, cache, watch, zone, dryRun>>

\* Fault: one retry too many.
Retry_OneMore ==
    /\ tries <= MaxRetries
    /\ tries' = tries + 1
    /\ UNCHANGED <<api, cache, watch, zone, queue, pc, cur, ch, fresh, dryRun>>

Retry ==
    /\ tries < MaxRetries
    /\ tries' = tries + 1
    /\ UNCHANGED <<api, cache, watch, zone, queue, pc, cur, ch, fresh, dryRun>>

\* One attempt of cfRetry failed: another at once, or the error is final.
FailedAttempt == Retry \/ (tries = MaxRetries /\ GiveUp)

\* An attempt fails without effect; on 429 cfRetry does not try again.
CallFails ==
    /\ pc \in CFCalls
    /\ FailedAttempt \/ GiveUp
    /\ UNCHANGED cf

LookupMissing ==
    /\ pc = "lookup"
    /\ 0 \in FindByHostname(ch.spec.zone, HostOf[cur])
    /\ \/ /\ EffectiveManagementPolicy(ch.spec) = "observe"
          /\ Goto("status", SetWaiting(ch.status))
       \/ /\ EffectiveManagementPolicy(ch.spec) # "observe" /\ dryRun
          /\ Goto("status", SetDryRun(ch.status))
       \/ /\ EffectiveManagementPolicy(ch.spec) # "observe" /\ ~dryRun
          /\ Goto("create", ch.status)
    /\ UNCHANGED cf

LookupFound ==
    /\ pc = "lookup"
    /\ \E r \in FindByHostname(ch.spec.zone, HostOf[cur]) \ {0} :
          LET s == Adopt(ch.status, r)
          IN  \/ /\ Drifted(ch.spec, cf[r]) /\ MayEdit(ch.spec)
                 /\ Goto("edit", s)
              \/ /\ ~(Drifted(ch.spec, cf[r]) /\ MayEdit(ch.spec))
                 /\ Settle(Refresh(s, cf[r].ssl))
    /\ UNCHANGED cf

\* CF makes a record, unless it refuses duplicates and has one.
CFCreate(z, h, cfg, ssl, by) ==
    /\ Len(cf) < MaxRecords
    /\ CFRejectsDuplicates => FindByHostname(z, h) = {0}
    /\ cf' = Append(cf, [zone |-> z, host |-> h, cfg |-> cfg, ssl |-> ssl,
                         by |-> by, live |-> TRUE])

CreateAttempt ==
    /\ pc = "create"
    /\ \E ssl \in {"pending", "active"} :
          /\ CFCreate(ch.spec.zone, HostOf[cur], ch.spec.cfg, ssl, cur)
          /\ \/ Settle(Created(ch.status, Len(cf) + 1, ssl))
             \/ LostReplies /\ FailedAttempt

\* CF knows the record id under zone z.
InZone(id, z) == id \in DOMAIN cf /\ cf[id].live /\ cf[id].zone = z

EditAttempt ==
    /\ pc = "edit"
    /\ InZone(ch.status.id, ch.spec.zone)
    /\ \E ssl \in {"pending", "active"} :
          /\ cf' = [cf EXCEPT ![ch.status.id].cfg = ch.spec.cfg,
                              ![ch.status.id].ssl = ssl]
          /\ \/ Settle(Refresh(ch.status, ssl))
             \/ LostReplies /\ FailedAttempt

Predelete ==
    /\ pc = "predelete"
    /\ \E r \in FindByHostname(ch.spec.zone, HostOf[cur]) :
          Goto(IF ShouldDeleteInCF(ch.status.id, r) THEN "delete" ELSE "release",
               ch.status)
    /\ UNCHANGED cf

DeleteAttempt ==
    /\ pc = "delete"
    /\ InZone(ch.status.id, ch.spec.zone)
    /\ cf' = [cf EXCEPT ![ch.status.id].live = FALSE]
    /\ \/ Goto("release", ch.status)
       \/ LostReplies /\ FailedAttempt

\* 404: retried like any error, but as the final answer it is a success.
DeleteNotFound ==
    /\ pc = "delete"
    /\ ~InZone(ch.status.id, ch.spec.zone)
    /\ \/ Retry
       \/ tries = MaxRetries /\ Goto("release", ch.status)
    /\ UNCHANGED cf

-----------------------------------------------------------------------------
(***************************************************************************)
(* The worker: the write that ends a reconcile                             *)
(***************************************************************************)

\* Fault: the finalizer is written without comparing resourceVersions.
AddFinalizer_AnyVersion ==
    /\ pc = "finalizer" /\ api[cur] # None
    /\ Put(cur, [ch EXCEPT !.fin = TRUE, !.status = api[cur].status])
    /\ Abort
    /\ UNCHANGED <<cache, zone, cf, dryRun>>

\* Update sends the whole object but for the status; it is refused unless fresh.
AddFinalizer ==
    /\ pc = "finalizer" /\ fresh
    /\ Put(cur, [ch EXCEPT !.fin = TRUE, !.status = api[cur].status])
    /\ Abort
    /\ UNCHANGED <<cache, zone, cf, dryRun>>

Done ==
    /\ pc' = "idle" /\ cur' = None /\ ch' = None /\ fresh' = FALSE /\ tries' = 0
    /\ UNCHANGED queue

\* The API server removes a terminating object with its last finalizer.
Release ==
    /\ pc = "release" /\ fresh
    /\ Put(cur, None)
    /\ Done
    /\ UNCHANGED <<cache, zone, cf, dryRun>>

\* Fault: the status is patched without comparing resourceVersions.
PersistStatus_AnyVersion ==
    /\ pc = "status" /\ api[cur] # None
    /\ Put(cur, WithStatus(api[cur], ch.status))
    /\ Done
    /\ UNCHANGED <<cache, zone, cf, dryRun>>

\* Status().Update sends the status only.
PersistStatus ==
    /\ pc = "status" /\ fresh
    /\ \/ /\ StatusChanges(cur, ch.status)
          /\ Put(cur, WithStatus(api[cur], ch.status))
       \/ /\ ~StatusChanges(cur, ch.status)
          /\ UNCHANGED <<api, watch>>
    /\ Done
    /\ UNCHANGED <<cache, zone, cf, dryRun>>

\* A stale resourceVersion or an unreachable API server: nothing is written.
WriteFails ==
    /\ pc \in APIWrites
    /\ Abort
    /\ UNCHANGED <<api, cache, watch, zone, cf, dryRun>>

WorkerStep ==
    \/ LookupMissing \/ LookupFound \/ CreateAttempt \/ EditAttempt
    \/ Predelete \/ DeleteAttempt \/ DeleteNotFound \/ CallFails
    \/ AddFinalizer \/ Release \/ PersistStatus \/ WriteFails

-----------------------------------------------------------------------------
(***************************************************************************)
(* Users, Cloudflare and its other clients, Zone objects, the process      *)
(***************************************************************************)

CreateCR(c) ==
    /\ api[c] = None
    /\ \E spec \in Specs :
          PutByOther(c, [spec |-> spec, fin |-> FALSE, term |-> FALSE,
                         status |-> NewStatus])

EditSpec(c) ==
    /\ api[c] # None
    /\ \E spec \in Specs \ {api[c].spec} :
          PutByOther(c, [api[c] EXCEPT !.spec = spec])

DeleteCR(c) ==
    /\ api[c] # None /\ ~api[c].term
    /\ PutByOther(c, IF api[c].fin THEN [api[c] EXCEPT !.term = TRUE] ELSE None)

User(c) == CreateCR(c) \/ EditSpec(c) \/ DeleteCR(c)

OnlyCF == UNCHANGED <<api, cache, watch, zone, queue, worker, dryRun>>

ExtCreate ==
    /\ "create" \in ExtOps
    /\ \E z \in Zones, h \in Hosts, cfg \in Cfgs : CFCreate(z, h, cfg, "pending", None)
    /\ OnlyCF

ExtEdit(r) ==
    /\ "edit" \in ExtOps /\ cf[r].live
    /\ \E cfg \in Cfgs \ {cf[r].cfg} : cf' = [cf EXCEPT ![r].cfg = cfg]
    /\ OnlyCF

ExtDelete(r) ==
    /\ "delete" \in ExtOps /\ cf[r].live
    /\ cf' = [cf EXCEPT ![r].live = FALSE]
    /\ OnlyCF

\* Validation succeeds, or the certificate is replaced.
SSLChanges(r) ==
    /\ "ssl" \in ExtOps /\ cf[r].live
    /\ cf' = [cf EXCEPT ![r].ssl = IF @ = "active" THEN "pending" ELSE "active"]
    /\ OnlyCF

External ==
    ExtCreate \/ \E r \in DOMAIN cf : ExtEdit(r) \/ ExtDelete(r) \/ SSLChanges(r)

\* Zones and secrets are created and removed, and zones get initialized.
ZoneChanges(z) ==
    /\ \E m \in ZoneModes \ {zone[z]} : zone' = [zone EXCEPT ![z] = m]
    /\ UNCHANGED <<api, cache, watch, cf, queue, worker, dryRun>>

\* The process dies at any point.  The next one lists the API server: a Create
\* event per CR.
Restart ==
    /\ dryRun' \in DryRunModes
    /\ cache' = api /\ watch' = <<>>
    /\ queue' = {c \in CRs : api[c] # None /\ FastWritePredicate(None, api[c])}
    /\ pc' = "idle" /\ cur' = None /\ ch' = None /\ fresh' = FALSE /\ tries' = 0
    /\ UNCHANGED <<api, zone, cf>>

Init ==
    /\ api = [c \in CRs |-> None] /\ cache = api /\ watch = <<>>
    /\ zone \in [Zones -> ZoneModes]
    /\ cf = <<>>
    /\ queue = {}
    /\ pc = "idle" /\ cur = None /\ ch = None /\ fresh = FALSE /\ tries = 0
    /\ dryRun \in DryRunModes

Next ==
    \/ \E c \in CRs : Reconcile(c) \/ DriftEvent(c) \/ User(c)
    \/ WorkerStep
    \/ Deliver
    \/ External
    \/ \E z \in Zones : ZoneChanges(z)
    \/ Restart

Spec == Init /\ [][Next]_vars

-----------------------------------------------------------------------------
(***************************************************************************)
(* Properties                                                              *)
(***************************************************************************)

\* A record is created in CF only for a CR that, at the API server and not just
\* in the worker's copy, exists and carries the finalizer: a deletion requested
\* at any time then waits for the worker.
CreateUnderFinalizer ==
    pc = "create" => api[cur] # None /\ api[cur].fin

\* The CR is in the work queue, in the worker's hands, or an event is under way.
Scheduled(c) == c \in queue \/ cur = c \/ Pending(c)

\* A CR that is being deleted, and one that was never reconciled to the end, is
\* never left to the Zone coordinator: whatever fails, is outdated, restarts or
\* is filtered by fastWritePredicate, the controller comes back to it.
NothingForgotten ==
    \A c \in CRs : api[c] # None /\ (api[c].term \/ api[c].status.cond = "None")
                     => Scheduled(c)

\* The id a CR records is, dead or alive, a record of the CR's own hostname:
\* deleting by it never removes another hostname.
RecordedHost ==
    \A c \in CRs : api[c] # None /\ api[c].status.id # 0
                     => cf[api[c].status.id].host = HostOf[c]

\* With one worker that looks a hostname up before it creates it, the operator
\* never makes two records of a hostname for two CRs, nor for one, even if CF
\* would allow it.  In such a CF two things make a twin all the same: another
\* client's create between the operator's lookup and its own, which the formula
\* leaves out, and cfRetry repeating a create whose reply was lost without a new
\* lookup, which it does not: there the property fails.
OneRecordPerHost ==
    \A r, q \in DOMAIN cf :
       (/\ cf[r].live /\ cf[q].live /\ cf[r].zone = cf[q].zone /\ cf[r].host = cf[q].host
        /\ CFRejectsDuplicates \/ (cf[r].by # None /\ cf[q].by # None))
         => r = q

\* The records made for a CR of the name c that do not serve it in zone z: deleted,
\* or left behind in another zone.  Those of its earlier incarnations count too.
Lost(c, z) == {r \in DOMAIN cf : cf[r].by = c /\ ~(cf[r].live /\ cf[r].zone = z)}

\* status.createCount above 1 means that records were lost: each create that
\* is counted beyond the first replaces a record that is gone from CF, or that
\* the zoneRef has moved away from.
RecreateOnlyAfterLoss ==
    \A c \in CRs : api[c] # None =>
       Cardinality(Lost(c, api[c].spec.zone)) + 1 >= api[c].status.creates

\* What the stored status says of a CR.  Ready and SSLPending are only reported of
\* a known record and by the state of its certificate, Error only with an error
\* counted.  And an error counter that is not 0, by which the drift cycle enqueues
\* the CR again and again, is only stored with Error or with the two conditions
\* that are set without touching the counter: HostnameConflict and DryRun.
StatusConsistent ==
    \A c \in CRs : api[c] # None =>
       LET s == api[c].status
       IN  /\ s.cond = "Ready" => s.ssl = "active" /\ s.id # 0
           /\ s.cond = "SSLPending" => s.ssl = "pending" /\ s.id # 0
           /\ s.cond = "Error" => s.errs
           /\ s.errs => s.cond \in {"Error", "HostnameConflict", "DryRun"}

\* How the error counter may get from the status s to the status t.
ErrorStep(s, t) ==
    t.errs # s.errs =>
       IF t.errs THEN t.cond = "Error"
       ELSE t.cond \in {"Ready", "SSLPending", "WaitingForExternal"}

\* docs/architecture.md, consecutiveErrors: it resets to 0 on success.  Errors are
\* counted and forgotten by the reconciles that fail and succeed only: neither a
\* conflict nor a dry-run in between, a stale copy, a refused write, a user's
\* write or a restart starts the count or ends it.
ErrorsOutlastDetours ==
    [][\A c \in CRs : api[c] # None /\ api'[c] # None
                        => ErrorStep(api[c].status, api'[c].status)]_vars

\* The worker's writes never undo what a user wrote since it read the object,
\* and an object it lets go was being deleted.
NoLostUpdate ==
    [][WorkerStep => \A c \in CRs :
         api'[c] # api[c] =>
           IF api'[c] = None THEN api[c].term
           ELSE api'[c].spec = api[c].spec /\ api'[c].term = api[c].term]_vars

\* From the deletion request on the status, with the id that handleDelete will
\* use, no longer changes; only the finalizer's release ends the deletion.
TerminatingStatusFrozen ==
    [][\A c \in CRs :
         api[c] # None /\ api[c].term =>
           \/ api'[c] = None /\ pc = "release" /\ cur = c
           \/ api'[c] # None /\ api'[c].term /\ api'[c].status = api[c].status]_vars

\* A CR of the policies manage and always, once associated with a record, is
\* only let go when this record is gone from CF.
ReleaseMeansDeleted ==
    [][\A c \in CRs :
         (/\ api[c] # None /\ api[c].fin /\ api[c].status.id # 0
          /\ api'[c] = None /\ ~dryRun
          /\ EffectiveManagementPolicy(api[c].spec) # "observe"
          /\ EffectiveDeletePolicy(api[c].spec) = "always")
            => ~cf[api[c].status.id].live]_vars

\* The operator deletes a record of CF only for a CR that at this moment is
\* being deleted and is associated with this record.
DeletesOnlyForTerminating ==
    [][DeleteAttempt => /\ api[cur] # None /\ api[cur].term
                        /\ api[cur].status.id = ch.status.id]_vars

\* Every write to CF is one that the spec the worker read allows: none in dry-run
\* or under observe, no edit unless manage, no delete under never.  That spec is
\* the one in force unless the CR was written to after the reconcile began: a
\* policy changed meanwhile takes effect with the next reconcile, while dry-run,
\* which only a restart changes, takes effect at once.
PolicyRespected ==
    [][WorkerStep /\ cf' # cf =>
         LET mgmt == EffectiveManagementPolicy(ch.spec)
         IN  /\ ~dryRun
             /\ mgmt # "observe"
             /\ pc = "edit" => mgmt = "manage"
             /\ pc = "delete" => EffectiveDeletePolicy(ch.spec) # "never"
             /\ fresh => api[cur].spec = ch.spec]_vars

\* docs/architecture.md: the finalizer ensures the deletion in CF when a CR is
\* deleted, even across restarts.  A record made for a CR never outlives it.
NoOrphan ==
    \A r \in DOMAIN cf : cf[r].live /\ cf[r].by # None => api[cf[r].by] # None
=============================================================================
