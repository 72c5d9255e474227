--------------------------- MODULE RecursiveMutex ---------------------------
(***************************************************************************)
(* What vpl_th.h promises of VPLMutex_t and VPLCond_TimedWait: a lock that *)
(* one thread holds, any number of times, and that a wait gives up whole   *)
(* and gets back whole.                                                    *)
(***************************************************************************)
EXTENDS Naturals

CONSTANTS Threads, NoThread

VARIABLES
    owner,      \* the thread that holds the mutex, or NoThread
    depth,      \* how many times it has locked it
    owed        \* the depth that a thread in VPLCond_TimedWait will have again

mutexVars == <<owner, depth, owed>>

Init == owner = NoThread /\ depth = 0 /\ owed = [t \in Threads |-> 0]

Lock(t) ==
    /\ owner \in {NoThread, t} /\ owed[t] = 0
    /\ owner' = t /\ depth' = depth + 1
    /\ UNCHANGED owed

Unlock(t) ==
    /\ owner = t
    /\ depth' = depth - 1
    /\ owner' = IF depth = 1 THEN NoThread ELSE t
    /\ UNCHANGED owed

\* The mutex is free while its holder waits, however deep it was held.
WaitBegin(t) ==
    /\ owner = t
    /\ owner' = NoThread /\ depth' = 0
    /\ owed' = [owed EXCEPT ![t] = depth]

WaitEnd(t) ==
    /\ owner = NoThread /\ owed[t] > 0
    /\ owner' = t /\ depth' = owed[t]
    /\ owed' = [owed EXCEPT ![t] = 0]

Next == \E t \in Threads : Lock(t) \/ Unlock(t) \/ WaitBegin(t) \/ WaitEnd(t)

Spec == Init /\ [][Next]_mutexVars
=============================================================================
