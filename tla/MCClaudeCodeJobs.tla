-------------------------- MODULE MCClaudeCodeJobs --------------------------
(* Small instances of ClaudeCodeJobs for TLC.                               *)
EXTENDS ClaudeCodeJobs

CONSTANTS a, b, d, k, l, f, g
=============================================================================
