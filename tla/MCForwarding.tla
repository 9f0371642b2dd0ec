---------------------------- MODULE MCForwarding ----------------------------
EXTENDS Forwarding
=============================================================================
