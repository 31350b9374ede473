---------------------------- MODULE CHRefinement ----------------------------
(***************************************************************************)
(* The CustomHostname controller implements CHLifecycle: what the API      *)
(* server and Cloudflare hold goes through the phases promised there.      *)
(***************************************************************************)
EXTENDS CustomHostname

PhaseOf(o) ==
    IF o = None THEN "absent"
    ELSE IF o.term THEN "doomed"
    ELSE IF o.fin THEN "held"
    ELSE "claimed"

\* The policies in force let the record outlive the CR.
Keeps(o) ==
    \/ dryRun
    \/ EffectiveManagementPolicy(o.spec) = "observe"
    \/ EffectiveDeletePolicy(o.spec) = "never"

IdOf(o) == IF o = None THEN 0 ELSE o.status.id

\* Of a record the life of a CR tells who made it, of which hostname, and if it is
\* still there.
Shown(rec) == [host |-> rec.host, by |-> rec.by, live |-> rec.live]

-----------------------------------------------------------------------------
(***************************************************************************)
(* The refinement mapping                                                  *)
(***************************************************************************)

Phase == [c \in CRs |-> PhaseOf(api[c])]

Id == [c \in CRs |-> IdOf(api[c])]

Kept == [c \in CRs |-> api[c] # None /\ Keeps(api[c])]

ShownRecords == [r \in DOMAIN cf |-> Shown(cf[r])]

Lifecycle == INSTANCE CHLifecycle WITH
    phase <- Phase, id <- Id, keeps <- Kept, records <- ShownRecords

\* While zoneRefs do not move, and no second record of a hostname misleads the
\* lookup of own-only, every step of the controller is one that the life of a CR
\* allows: records are made under the finalizer, ids are recorded before the
\* deletion is requested, a record is removed for its own doomed CR only, and the
\* finalizer goes last, after the record unless a policy keeps it.
ImplementsLifecycle == Lifecycle!LSpec
=============================================================================
