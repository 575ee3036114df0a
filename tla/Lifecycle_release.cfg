SPECIFICATION Spec
CONSTANT Modes = {"run", "supervise-containerboot"}
INVARIANT OwnershipRetained
