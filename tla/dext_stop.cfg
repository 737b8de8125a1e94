SPECIFICATION Spec
PROPERTIES
    StopDisablesOperation
