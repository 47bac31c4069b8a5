-------------------------- MODULE MCThrottledJobs --------------------------
\* Jobs of one tenant sharing one limiter: one of each kind.
EXTENDS ThrottledJobs

CONSTANTS chunk, audit, single

MCJobs == {chunk, audit, single}
MCKindOf == [j \in Jobs |-> CASE j = chunk -> "chunk"
                              [] j = audit -> "audit"
                              [] j = single -> "single"]
=============================================================================
