-------------------------- MODULE RemovalAccounting --------------------------
(***************************************************************************)
(* What submitting and deleting Removals promises, seen from outside: a    *)
(* Removal is open until it is either submitted, for good, or deleted, for *)
(* good; and the production inputs of a credit batch get at most one       *)
(* owner, a Removal that is submitted.  Nothing is said of attempts,       *)
(* locks, versions or the registry.                                        *)
(***************************************************************************)
CONSTANTS
    Removals,
    Batches,
    None,        \* the owner of a batch nobody has claimed
    Members      \* Members[r]: the credit batches of Removal r

VARIABLES
    phase,       \* phase[r]: "open", "submitted" or "deleted"
    owner        \* owner[b]: the Removal that sent b's production inputs

accountingVars == <<phase, owner>>

Phases == {"open", "submitted", "deleted"}

AccountingInit ==
    /\ phase = [r \in Removals |-> "open"]
    /\ owner = [b \in Batches |-> None]

\* The first submission of r, or one that replaces an earlier one.
Submit(r, batches) ==
    /\ phase[r] \in {"open", "submitted"}
    /\ \A b \in batches : owner[b] \in {None, r}
    /\ phase' = [phase EXCEPT ![r] = "submitted"]
    /\ owner' = [b \in Batches |-> IF b \in batches THEN r ELSE owner[b]]

Delete(r) ==
    /\ phase[r] = "open"
    /\ phase' = [phase EXCEPT ![r] = "deleted"]
    /\ UNCHANGED owner

AccountingNext ==
    \E r \in Removals :
        \/ \E batches \in SUBSET Members[r] : Submit(r, batches)
        \/ Delete(r)

AccountingSpec == AccountingInit /\ [][AccountingNext]_accountingVars
=============================================================================
