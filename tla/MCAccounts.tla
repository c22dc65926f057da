----------------------------- MODULE MCAccounts -----------------------------
(* Instances of Accounts for TLC. *)
EXTENDS Accounts, TLC

CONSTANTS r1, r2, login, call

TwoRegistrations == {r1, r2}
OneLogin == {login}
OneCall == {call}

\* One email in two spellings.
OneEmail == {"ann", "Ann"}
LowerCase == [e \in OneEmail |-> "ann"]

\* "long" begins with the 72 bytes that "other" consists of.
ThreePasswords == {"secret", "other", "long"}
OnlyLong == {"long"}
First72Bytes == [p \in ThreePasswords |-> IF p = "long" THEN "other" ELSE p]

RegistrationSymmetry == Permutations(TwoRegistrations)
=============================================================================
