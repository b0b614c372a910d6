CONSTANTS
  MaxVersion = 2
  Paths = {d1, d2}
  None = None
  Unparsable = Unparsable
  Broken = Broken
SPECIFICATION Spec
INVARIANT LocalVersionKnownAtComparison
