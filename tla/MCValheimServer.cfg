SPECIFICATION Spec
PROPERTY StoppedSaved
