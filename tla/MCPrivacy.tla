------------------------------- MODULE MCPrivacy -------------------------------
(* The deletion of accounts and the credential documents, side by side: they   *)
(* share no state, so each behaviour is one of the one or one of the other.    *)
EXTENDS AccountDeletion, CredentialVault, TLC

VARIABLE part
vars == <<part, deletionVars, vaultVars>>
Alike == Permutations(People) \cup Permutations(Cleaners) \cup Permutations(Docs)

OtherPart(p) ==
  CASE p = "accounts" -> suspend = TRUE
    [] p = "documents" -> owns = People /\ guards = People

Init == DeletionInit /\ VaultInit /\ part \in {"accounts", "documents"} /\ OtherPart(part)
Next ==
  \/ part = "accounts" /\ DeletionNext /\ UNCHANGED <<part, vaultVars>>
  \/ part = "documents" /\ VaultNext /\ UNCHANGED <<part, deletionVars>>
Spec == Init /\ [][Next]_vars
=============================================================================
