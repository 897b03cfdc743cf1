CONSTANTS
  Sizes = {1, 2, 3}
SPECIFICATION Spec
INVARIANTS NoPixelLost ComposedIsSequential TypeNamesTransform ShownUpright LosslessSaveAgrees PrintedIsShown
