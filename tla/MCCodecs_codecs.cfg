SPECIFICATION Spec
CONSTANTS
    Bytes <- SomeBytes
    MaxText = 4
    LineSizes = {2, 6}
    JsonInputs <- JsonTexts
    Pieces <- MailPieces
    MaxPieces = 5
    Messages <- Mails
    ReadSizes = {1, 2, 3, 7}
    LineMax = 8
    NameSize = 1
    MaxValue = 8
    Width = 2
    Numbers <- Addends
    MaskLens = {0, 1, 4, 7, 8, 9, 12}
    Starts <- FirstAddresses
    Parts = 2
    Typed <- TypedChars
    MaxTyped <- TypedSizes
    ByteSamples <- EdgeBytes
    V6Samples <- Addresses6
    Frames <- FrameSamples
    Octets <- SomeOctets
    MaxOctets = 6
    CvPieces <- TextPieces
    MaxWrites = 3
    CvTexts <- LineTexts
    WideTexts <- WideSamples
    CvReads = {1, 2, 3, 6}
INVARIANTS
    RoundTrips
    ParsesTheLanguage
    MailKept
    HeaderKept
    AddressesComputed
    AddressTexts
    PacketsRead
    TextConverted
CHECK_DEADLOCK FALSE
