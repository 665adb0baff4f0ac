SPECIFICATION Spec
CONSTANTS
    ABIs <- AllABIs
    PadBytes <- PadValues
    NONE = NONE
INVARIANT RoundTrip
