-------------------------- MODULE MCLogMigration --------------------------
EXTENDS LogMigration
CONSTANTS a, b
MCTexts == {<<a>>, <<b>>, <<a, b>>, <<Bad>>}
===========================================================================
