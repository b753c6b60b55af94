---------------------------- MODULE MCClientLink ----------------------------
EXTENDS ClientLink

CONSTANTS server, world, loop
=============================================================================
