----------------------------- MODULE MCHeapFile -----------------------------
(* Heap files of two small pages, with rows of one and of two units.        *)
EXTENDS HeapFile

CONSTANTS small, middle

TwoSizes == [v \in Row |-> IF v = small THEN 1 ELSE 2]
=============================================================================
