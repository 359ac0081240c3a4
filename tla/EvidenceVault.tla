--------------------------- MODULE EvidenceVault ---------------------------
(***************************************************************************)
(* What document uploads promise about one document: its evidence is       *)
(* attached at most once, with bytes the declaration admits, stays         *)
(* readable and unchanged until the document is withdrawn, and neither     *)
(* happens while the record that owns it is sealed by a submission.        *)
(***************************************************************************)
CONSTANTS
    Admitted,       \* the contents the declaration admits
    Empty,          \* no evidence yet
    Withdrawn       \* the document is gone

VARIABLES
    evidence,       \* Empty, Withdrawn or the bytes a reader is served
    sealed          \* the owner belongs to submitted certification history

vaultVars == <<evidence, sealed>>

VaultInit ==
    /\ evidence = Empty
    /\ sealed = FALSE

Attach(c) ==
    /\ ~sealed
    /\ evidence = Empty
    /\ evidence' = c
    /\ UNCHANGED sealed

Withdraw ==
    /\ ~sealed
    /\ evidence' = Withdrawn
    /\ UNCHANGED sealed

\* The retention policy removes the row of an upload that never became
\* evidence, whatever its owner's state.
Discard ==
    /\ evidence = Empty
    /\ evidence' = Withdrawn
    /\ UNCHANGED sealed

Seal ==
    /\ sealed' \in BOOLEAN
    /\ UNCHANGED evidence

VaultNext ==
    \/ \E c \in Admitted : Attach(c)
    \/ Withdraw
    \/ Discard
    \/ Seal

VaultSpec == VaultInit /\ [][VaultNext]_vaultVars
=============================================================================
