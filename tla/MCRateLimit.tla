------------------------------ MODULE MCRateLimit ------------------------------
(* RateLimit with few requests of one officer and one client.                  *)
EXTENDS RateLimit, TLC

CONSTANTS c1, o1

Shape(officer, target) == [client |-> c1, officer |-> officer, target |-> target]

\* A request for an open path ends after its first check, which these make too.
SomeShapes == {Shape(o1, "upload"), Shape(None, "protected")}

SomeLimits == [ip |-> 2, user |-> 1, upload |-> 1]

Symmetry == Permutations(Requests)
===============================================================================
