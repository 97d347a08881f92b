\* A host that may stop answering.
CONSTANTS
  Chunks = 2
  Typed = 2
SPECIFICATION CommandSpec
PROPERTIES TimeoutReturns
