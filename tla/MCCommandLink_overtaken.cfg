SPECIFICATION LinkSpec
CONSTANTS
    LinkModulus = 16
    Uses <- MCHasty
    MaxEmergencies = 2
    MaxLosses = 2
PROPERTIES
    OvertakenCommandsAreRejected
