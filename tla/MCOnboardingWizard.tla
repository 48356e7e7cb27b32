------------------------- MODULE MCOnboardingWizard -------------------------
(* Two wallets and one governance.  w1 holds license tokens; w2 has an     *)
(* empty license-token account; the governance's treasury holds tokens.    *)
EXTENDS OnboardingWizard

CONSTANTS w1, w2, gA

MCHasAccount == {w1, w2, Treasury(gA)}
MCLicensed == {w1, Treasury(gA)}

(* For the licensing run: the treasury's license-token account is empty.  *)
MCLicensedOwnWallet == {w1}
====
