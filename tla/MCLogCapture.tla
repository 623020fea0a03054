--------------------------- MODULE MCLogCapture ---------------------------
EXTENDS LogCapture
CONSTANTS ui
MCLineBytes == <<1, 2>>
MCMsgBytes == <<1, 2, 1>>
===========================================================================
