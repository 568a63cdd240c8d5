-------------------------- MODULE MCAgentServices --------------------------
\* Launchers, commands and the number of instances come from the cfg files.
EXTENDS AgentServices
=============================================================================
