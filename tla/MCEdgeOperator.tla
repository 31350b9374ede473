-------------------------- MODULE MCEdgeOperator --------------------------
(***************************************************************************)
(* Values of the constants of EdgeOperator for TLC.                        *)
(***************************************************************************)
EXTENDS EdgeOperator

CONSTANTS c1, c2, h1, h2, z1, z2, a, b,
    Claim   \* the specs of the CRs that race

SpecOf(z, cfg, mgmt, del) == [zone |-> z, cfg |-> cfg, mgmt |-> mgmt, del |-> del]

SameHost == [c \in CRs |-> h1]

\* The operator's policies, with one of two values of the managed fields.
ManagedSpecs == {SpecOf(z1, a, "", ""), SpecOf(z1, b, "", "")}

OneSpec == {SpecOf(z1, a, "", "")}

\* Claims that agree, that differ, and that differ and leave the record in CF.
KeepingSpecs == {SpecOf(z1, a, "", "never"), SpecOf(z1, b, "", "never")}

SameClaims == [c \in CRs |-> SpecOf(z1, a, "", "")]

OtherClaims == [c \in CRs |-> SpecOf(z1, IF c = c1 THEN a ELSE b, "", "")]

KeepingClaims == [c \in CRs |-> SpecOf(z1, IF c = c1 THEN a ELSE b, "", "never")]

(***************************************************************************)
(* Claims for one hostname: the CRs have just been made and the controller *)
(* knows of them.  What else may happen is chosen below; that it is little *)
(* keeps the graphs small enough for liveness.                             *)
(***************************************************************************)
Claims ==
    /\ api = [c \in CRs |-> [spec |-> Claim[c], fin |-> FALSE, term |-> FALSE,
                             status |-> NewStatus]]
    /\ cache = api /\ watch = <<>> /\ queue = CRs
    /\ zone \in [Zones -> ZoneModes] /\ cf = <<>>
    /\ pc = "idle" /\ cur = None /\ ch = None /\ fresh = FALSE /\ tries = 0
    /\ dryRun \in DryRunModes
    /\ zpc = "idle" /\ zcur = None /\ snap = NoList /\ todo = {} /\ chan = <<>>

OperatorGoes == OperatorStep /\ UNCHANGED calm

\* Of two claims users may delete one, or do nothing at all.
CalmInit == Claims /\ calm = TRUE

\* By symmetry it is c1 that is deleted, if any, and it is not made again.
RaceNext == OperatorGoes \/ (ControllerStep(DeleteCR(c1)) /\ UNCHANGED calm)

RaceSpec == CalmInit /\ [][RaceNext]_evars /\ Fairness

CalmRaceSpec == CalmInit /\ [][OperatorGoes]_evars /\ Fairness

=============================================================================
