----------------------------- MODULE MCStartup ------------------------------
\* Startup with up to two parameters: all options, all builds, both kinds of peer.
EXTENDS Startup
=============================================================================
