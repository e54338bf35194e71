----------------------------- MODULE MCAccounts -----------------------------
EXTENDS Accounts, TLC

\* Accounts and addresses are interchangeable.
Symmetry == Permutations(Users) \cup Permutations(Emails)
=============================================================================
