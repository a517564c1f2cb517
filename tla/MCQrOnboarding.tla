--------------------------- MODULE MCQrOnboarding ---------------------------
(* Two logins of one phone for one amoCRM account.                            *)
EXTENDS QrOnboarding

CONSTANTS l1, l2, phone1, amo1

MCLogins == {l1, l2}
MCPhones == {phone1}
MCAmoAccounts == {amo1}
=============================================================================
