----------------------------- MODULE CHLifecycle -----------------------------
(***************************************************************************)
(* What the operator promises of a CustomHostname object (CR) and of       *)
(* Cloudflare, without saying how: there is no worker, no cache, no retry  *)
(* and no restart here.                                                    *)
(*                                                                         *)
(* A CR is absent, or claimed as long as only the user knows of it, or     *)
(* held by the operator's finalizer, or doomed when its deletion has been  *)
(* requested.  The operator touches Cloudflare and the id of the CR in     *)
(* some of these phases only, and lets a doomed CR go when its record is   *)
(* gone, unless the policy keeps the record.                               *)
(***************************************************************************)
EXTENDS Naturals, Sequences

CONSTANTS CRs, None, Hosts, HostOf,
    ExtOps   \* what clients of Cloudflare other than the operator do

VARIABLES
    phase,   \* CR -> where it is in its life
    id,      \* CR -> the record it is associated with, or 0
    keeps,   \* CR -> does the policy in force keep its record?
    records  \* the records of Cloudflare, dead ones included

lvars == <<phase, id, keeps, records>>

Phases == {"absent", "claimed", "held", "doomed"}

Records == [host : Hosts, by : CRs \cup {None}, live : BOOLEAN]

LTypeOK ==
    /\ phase \in [CRs -> Phases]
    /\ id \in [CRs -> Nat]
    /\ keeps \in [CRs -> BOOLEAN]
    /\ records \in Seq(Records)

\* The records a CR may be associated with.
RecordsOf(c) == {r \in DOMAIN records : records[r].host = HostOf[c]}

Settable(c) == \E k \in BOOLEAN : keeps' = [keeps EXCEPT ![c] = k]

-----------------------------------------------------------------------------
(***************************************************************************)
(* Users                                                                   *)
(***************************************************************************)

Claim(c) ==
    /\ phase[c] = "absent"
    /\ phase' = [phase EXCEPT ![c] = "claimed"]
    /\ Settable(c)
    /\ UNCHANGED <<id, records>>

Withdraw(c) ==
    /\ phase[c] = "claimed"
    /\ phase' = [phase EXCEPT ![c] = "absent"]
    /\ Settable(c)
    /\ UNCHANGED <<id, records>>

Doom(c) ==
    /\ phase[c] = "held"
    /\ phase' = [phase EXCEPT ![c] = "doomed"]
    /\ UNCHANGED <<id, keeps, records>>

\* A spec is edited or the process restarts with other flags.
PoliciesChange ==
    /\ keeps' \in [CRs -> BOOLEAN]
    /\ UNCHANGED <<phase, id, records>>

-----------------------------------------------------------------------------
(***************************************************************************)
(* The operator                                                            *)
(***************************************************************************)

Hold(c) ==
    /\ phase[c] = "claimed"
    /\ phase' = [phase EXCEPT ![c] = "held"]
    /\ UNCHANGED <<id, keeps, records>>

\* A record is made for a held CR.  The deletion may be requested while the
\* request is on its way to Cloudflare.
Provision(c) ==
    /\ phase[c] \in {"held", "doomed"}
    /\ records' = Append(records, [host |-> HostOf[c], by |-> c, live |-> TRUE])
    /\ UNCHANGED <<phase, id, keeps>>

\* Only a CR that is not being deleted gets an id, of a record of its hostname.
Associate(c) ==
    /\ phase[c] = "held"
    /\ \E r \in RecordsOf(c) : id' = [id EXCEPT ![c] = r]
    /\ UNCHANGED <<phase, keeps, records>>

\* The operator removes a record only for a doomed CR that is associated with it.
\* A policy edited during the deletion may come too late to keep the record.
Remove(c) ==
    /\ phase[c] = "doomed" /\ id[c] # 0
    /\ records' = [records EXCEPT ![id[c]].live = FALSE]
    /\ UNCHANGED <<phase, id, keeps>>

\* The record of a CR is gone, or there was none.
Cleared(c) == id[c] # 0 => ~records[id[c]].live

Release(c) ==
    /\ phase[c] = "doomed"
    /\ Cleared(c) \/ keeps[c]
    /\ phase' = [phase EXCEPT ![c] = "absent"]
    /\ id' = [id EXCEPT ![c] = 0]
    /\ Settable(c)
    /\ UNCHANGED records

-----------------------------------------------------------------------------
(***************************************************************************)
(* Other clients of Cloudflare                                             *)
(***************************************************************************)

OtherCreates ==
    /\ "create" \in ExtOps
    /\ \E h \in Hosts :
          records' = Append(records, [host |-> h, by |-> None, live |-> TRUE])
    /\ UNCHANGED <<phase, id, keeps>>

OtherDeletes ==
    /\ "delete" \in ExtOps
    /\ \E r \in DOMAIN records : records' = [records EXCEPT ![r].live = FALSE]
    /\ UNCHANGED <<phase, id, keeps>>

LInit ==
    /\ phase = [c \in CRs |-> "absent"]
    /\ id = [c \in CRs |-> 0]
    /\ keeps \in [CRs -> BOOLEAN]
    /\ records = <<>>

LNext ==
    \/ \E c \in CRs :
          \/ Claim(c) \/ Withdraw(c) \/ Doom(c)
          \/ Hold(c) \/ Provision(c) \/ Associate(c) \/ Remove(c) \/ Release(c)
    \/ PoliciesChange
    \/ OtherCreates \/ OtherDeletes

LSpec == LInit /\ [][LNext]_lvars
=============================================================================
