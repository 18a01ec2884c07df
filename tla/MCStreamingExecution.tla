------------------------ MODULE MCStreamingExecution ------------------------
\* StreamingExecution for TLC.
EXTENDS StreamingExecution
=============================================================================
