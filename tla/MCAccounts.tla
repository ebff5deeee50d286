------------------------------ MODULE MCAccounts ------------------------------
(***************************************************************************)
(* Instance of module Accounts for TLC.                                    *)
(***************************************************************************)
EXTENDS Accounts, TLC

CONSTANTS admin, user, p1, p2, u1, u2, s1

TwoEmails == {admin, user}
TwoUrls == {u1, u2}
TwoRequests == {p1, p2}
OneSeeder == {s1}

AccountsSymmetry == Permutations(TwoUrls) \cup Permutations(TwoRequests)
=============================================================================
