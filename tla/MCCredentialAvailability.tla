---------------------- MODULE MCCredentialAvailability ----------------------
\* CredentialAvailability for TLC: three tokens, the first and
\* the last of the same material (a rollback), and a fourth that shares the
\* second epoch.
EXTENDS CredentialAvailability, TLC

CONSTANTS g1, g2, g3, g4, m1, m2

MCEpoch == g1 :> 1 @@ g2 :> 2 @@ g3 :> 3 @@ g4 :> 2
MCMaterial == g1 :> m1 @@ g2 :> m2 @@ g3 :> m1 @@ g4 :> m1
=============================================================================
