SPECIFICATION Spec
CONSTANT MaxPushes = 2
INVARIANT AllInvocationsHandled
CHECK_DEADLOCK FALSE
