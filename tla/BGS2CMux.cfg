SPECIFICATION Spec
CONSTANT NumNodes = 4
INVARIANTS ClosesItsOwn FirstNodeHasMux TurnedOffLeavesNoNode
PROPERTY CallsReturn
