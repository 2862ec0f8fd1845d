SPECIFICATION Spec
CONSTANT VM <- DisableOnly
PROPERTY
    DisableDisables
