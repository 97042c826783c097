----------------------------- MODULE MCBatchEdit -----------------------------
EXTENDS BatchEdit, MCBatchFiles
==============================================================================
