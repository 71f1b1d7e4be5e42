---------------------------- MODULE MCHookFiles ----------------------------
EXTENDS HookFiles
============================================================================
