CONSTANT Samples <- FittingSamples
SPECIFICATION Spec
INVARIANTS TypeOK NoPushFails ListsArrive DisksArrive ThreadGroupsWhole
