CONSTANT Unused = Unused
SPECIFICATION Spec
INVARIANTS InterestKept HandedOver DescriptorsSound
PROPERTIES Served
CHECK_DEADLOCK FALSE
