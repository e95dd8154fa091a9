--------------------------- MODULE MCMemoryRecords ---------------------------
(* MemoryRecords on small instances. *)
EXTENDS MemoryRecords

CONSTANTS h1, h2

\* "Concurrent owner and administrator actions use status-guarded updates"
\* (docs/superpowers/specs/2026-07-24-memory-governance-and-procedural-memory-
\* design.md, section 12): a candidate that was rejected has no memory.
RejectionsStand == \A i \in Items : cand[i] = "rejected" => mem[i] = "none"
\* "Memory index failure leaves the SQLite status authoritative and queues an index
\* repair" (the same section).
FailuresAreRepaired == \A i \in Items : mem[i] = "confirmed" => i \in Findable
=============================================================================
