SPECIFICATION Spec
CONSTANT MaxAttempts = 1
PROPERTY ForeignTargetIsFinal
