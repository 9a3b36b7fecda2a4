------------------------- MODULE MCProposalPublish -------------------------
\* ProposalPublish on small instances, for TLC.
EXTENDS ProposalPublish

CONSTANTS f1, f2  \* two fixes of one rule
=============================================================================
