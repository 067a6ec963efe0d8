SPECIFICATION Spec
CONSTANTS
  Devices = {d1}
  Levels = {0, 3}
PROPERTY PostsAreSeen
