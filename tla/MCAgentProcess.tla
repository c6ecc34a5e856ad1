---------------------------- MODULE MCAgentProcess ----------------------------
\* One agent, the heartbeat of its process and one other request of its token;
\* an entry lives for two units of a clock of three, so that it can expire, and
\* a round has two tries, so that one can fail and the next be answered.
EXTENDS AgentProcess
=============================================================================
