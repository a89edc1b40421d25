-------------------------- MODULE MCOnboardingBridge --------------------------
\* Instance of the composed contract for TLC: two admins, one token, one funder
\* and at most two proposals, of any of the ten kinds.
EXTENDS OnboardingBridge

CONSTANTS a, b

MCAdminVecs == {<<a, b>>, <<b>>}
MCTiers == {[index |-> 0, threshold |-> 0, discount |-> 5000]}
===============================================================================
