SPECIFICATION Spec
CONSTANTS
    MaxCommand = 1
    MaxRestarts = 1
    Handlers = {h1, h2}
PROPERTIES LostCommandClosed
