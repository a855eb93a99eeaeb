\* Every plan of four steps, visited in every order.
CONSTANT StepId = {1, 2, 3, 4}
SPECIFICATION FairSearch
INVARIANTS SearchType SearchSound DepthBounded
PROPERTY SearchEnds
CHECK_DEADLOCK FALSE
