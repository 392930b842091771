\* Names of up to 3 characters ('a' and 'b') against the 3-byte filename
\* field they fill, and inode numbers 1, 2 and 256 (whose low byte is 0).
\* FT_REGULAR is 1.
CONSTANTS
    MAX_FILE_NAME_LEN = 3
    Letters = {97, 98}
    INos = {1, 2, 256}
    FType = 1
SPECIFICATION Spec
INVARIANT NameFoundAfterCreate
