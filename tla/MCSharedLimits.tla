--------------------------- MODULE MCSharedLimits ---------------------------
\* Small instances of SharedLimits: a credential and its model, one request a
\* window for the credential and one token a window for the model.
EXTENDS SharedLimits

CONSTANTS cred, model

CredAndModel == {<<cred, model>>}
MCCounters == {<<cred, "rpm">>, <<model, "tpm">>}
Limits == [c \in MCCounters |-> 1]
=============================================================================
