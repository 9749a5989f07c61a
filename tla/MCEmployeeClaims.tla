-------------------------- MODULE MCEmployeeClaims --------------------------
\* EmployeeClaims with symmetric approvals and handlers.
EXTENDS EmployeeClaims, TLC

ClaimSymmetry == Permutations(ApprovalRequests) \cup Permutations(Handlers)
=============================================================================
