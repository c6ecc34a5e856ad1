----------------------------- MODULE MCAgentQuota -----------------------------
\* A limit of two agents, three requests and a bind over three connections:
\* enough for a repeated removal, for an add that uses the room it made, for an
\* insert that waits for the gap, and for three requests that each hold a
\* connection to exhaust the pool.
EXTENDS AgentQuota
=============================================================================
