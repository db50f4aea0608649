-------------------------- MODULE MCCausalScheduler --------------------------
EXTENDS CausalScheduler

None == {}
Routes1 == {1}
Routes2 == {2}
Routes3 == {3}
Routes4 == {4}
Routes5 == {5}
Routes6 == {6}
Recurrence == [x \in Companies \cup Reviews \cup Contacts |-> IF x \in Reviews THEN 3 ELSE 2]
=============================================================================
