----------------------------- MODULE MCGovernance -----------------------------
\* Instance of Governance for TLC: three accounts in admin vectors of several
\* lengths, one of which names an account twice, and one non-governance action of
\* each sensitivity.
EXTENDS Governance

CONSTANTS a, b, c

MCAccounts == {a, b, c}
MCAdminVecs == {<<a, b>>, <<c>>, <<a, c, c>>}
MCOther == {[kind |-> "Pause"], [kind |-> "ArchiveOldEntries"]}
===============================================================================
