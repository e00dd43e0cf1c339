----------------------------- MODULE MCAgentRun -----------------------------
(* Small instances of AgentRun for TLC. *)
EXTENDS AgentRun

CONSTANTS c1, c2

MCCallIDs == {c1, c2}

\* One call, two calls, and a response that repeats a call ID.
MCResponses == {<<c1>>, <<c1, c2>>, <<c2, c2>>}

\* For liveness: one call, or two, in each response.
MCOneCall == {<<c1>>, <<c1, c2>>}
=============================================================================
