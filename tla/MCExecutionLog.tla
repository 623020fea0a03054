-------------------------- MODULE MCExecutionLog --------------------------
EXTENDS ExecutionLog
MCLineBytes == <<1, 3>>
===========================================================================
