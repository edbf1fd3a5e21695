\* Tables of up to four rows of which the views see three.
SPECIFICATION Spec
CONSTANTS
    Names <- MCNames
    Glued <- MCGlued
    Hyphenated <- MCHyphenated
    Limit = 3
    MaxRows = 4
    CertPEMs <- MCCertPEMs
    KeyPEMs <- MCKeyPEMs
    Hours <- MCHours
INVARIANTS TypeOK HiddenWithoutCompany TreeHasTwoLevels ConflictsAreOverlaps WildcardSecretShared UploadsAreUsable StatusesAgree
