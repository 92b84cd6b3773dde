CONSTANTS
  lower = lower
  upper = upper
  outside = outside
  None = None
  Paths = {lower, upper, outside}
  Inside = {lower, upper}
  InImage = {lower}
  ImageBits <- MCImageBits
  Upper <- MCUpper
SPECIFICATION Spec
INVARIANTS TypeOK FoundWhenPresent OneLayerPerPath WritableMeansUpper
