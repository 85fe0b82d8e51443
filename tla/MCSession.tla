------------------------------ MODULE MCSession ------------------------------
(***************************************************************************)
(* A few logins and tokens of two workers and one user.                    *)
(***************************************************************************)
EXTENDS Session, TLC

MCConfs == {[key |-> "k1", session |-> 1], [key |-> "k2", session |-> 0]}

\* The bound of the exploration: what follows a query that left its quotes.  The
\* properties of the table speak of what came before, the others do not read it.
AsMeant == plain

\* Workers are alike, and secrets are told apart by equality only.
Alike == Permutations(Workers) \cup Permutations(Secrets)
==============================================================================
