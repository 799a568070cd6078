\* An IDFC and three DFCs of two priorities on one queue, under fairness.
SPECIFICATION FairSpec
CONSTANTS
    i1 = i1
    d1 = d1
    d2 = d2
    d3 = d3
    q1 = q1
    Idfc = {i1}
    Dfc = {d1, d2, d3}
    Queue = {q1}
    QueueOf <- OneQueue
    Priority <- Ranked
    Idler = {i1, d1}
    Null = Null
INVARIANTS
    QueuesExact
    NothingForgotten
PROPERTIES
    RunsOnlyIfQueued
    EveryCallEnds
