----------------------------- MODULE LockLevels -----------------------------
\* The locking levels of a database file (os.h).
EXTENDS Integers

NO_LOCK == 0
SHARED_LOCK == 1
RESERVED_LOCK == 2
PENDING_LOCK == 3
EXCLUSIVE_LOCK == 4
Levels == NO_LOCK .. EXCLUSIVE_LOCK
=============================================================================
