CONSTANTS
    Blobs <- MCBlobs
    Numbers = {0, 1, 77000}
    AccountSchemas <- MCSchemas
SPECIFICATION Spec
INVARIANTS
    RowsRoundTrip
    
