CONSTANTS
  LineMax = 4
  Text = {x, y}
  MaxSegment = 6
SPECIFICATION Spec
INVARIANT PromptRecognised
