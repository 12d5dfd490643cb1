---------------------------- MODULE MCSemaphore -----------------------------
EXTENDS Semaphore
CONSTANTS t1, t2, t3
=============================================================================
