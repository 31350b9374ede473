-------------------------- MODULE MCCustomHostname --------------------------
(***************************************************************************)
(* Values of the constants of CustomHostname for TLC.                      *)
(***************************************************************************)
EXTENDS CHRefinement, TLC

CONSTANTS c1, c2, h1, h2, z1, z2, a, b

SpecOf(z, cfg, mgmt, del) == [zone |-> z, cfg |-> cfg, mgmt |-> mgmt, del |-> del]

SameHost == [c \in CRs |-> h1]

\* The operator's default policies with one of two origins, or an origin
\* outside the zone where a cfg lists it in OutOfZone.
ManagedSpecs == {SpecOf(z1, a, "", ""), SpecOf(z1, b, "", "")}

\* Policies between manage and observe, and between deleting and keeping.
PolicySpecs == {SpecOf(z1, a, "", "own-only"), SpecOf(z1, b, "create", "never"),
                SpecOf(z1, a, "observe", "")}

\* A zoneRef that moves between two zones.
MovingSpecs == {SpecOf(z1, a, "", ""), SpecOf(z2, a, "", "")}

OneSpec == {SpecOf(z1, a, "", "")}

SymmetricCRs == Permutations(CRs)

=============================================================================
