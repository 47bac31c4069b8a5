-------------------------- MODULE MCTenantLimiter --------------------------
\* A clock with seven readings that may jump either way: long enough to drain
\* the bucket, fill it past its capacity, open the breaker and outlive it.
EXTENDS TenantLimiter, Settings

MCTimes == 0..6
=============================================================================
