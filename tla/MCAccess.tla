------------------------------- MODULE MCAccess -------------------------------
(* Delegates of a household and sign-in, side by side: they share no state.    *)
(* One guardian and one delegate with two contacts; and two addresses and one  *)
(* student with a guardian.  The parts share their model values.               *)
EXTENDS ChildAccess, SignIn, TLC

CONSTANTS g1, c1, d1, k1, k2

OneOwner == [k \in Contacts |-> d1]
ApproveForAll == {[scopes |-> {"approve_rides"}, cover |-> [all |-> TRUE, named |-> {}]]}
NoRights == {{}}
Faults == {"none", "refused"}

VARIABLE part
vars == <<part, childVars, signInVars>>
Alike == Permutations({k1, k2})

\* Only sign-in begins in different states.
Init ==
  /\ ChildInit /\ SignInInit
  /\ part \in {"household", "sign-in"}
  /\ part = "household" => \A k \in Emails : owner[k] = Nobody

Next ==
  \/ part = "household" /\ ChildNext /\ UNCHANGED <<part, signInVars>>
  \/ part = "sign-in" /\ SignInNext /\ UNCHANGED <<part, childVars>>

Spec == Init /\ [][Next]_vars
=============================================================================
