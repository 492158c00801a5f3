CONSTANTS
    r1 = r1
    r2 = r2
    prose = prose
    mixed = mixed
    login = login
    test = test
    key = key
    name = name
    city = city
    mail = mail
    p = p
    h1 = h1
    h2 = h2
    h3 = h3
    h4 = h4
    Req <- MCReq
    Text <- MCText
    Value <- MCValue
    Plain <- MCPlain
    Hash <- MCHash
    Content <- MCContent
    HashOf <- MCHashOf
    RegexFinds <- MCRegexFinds
    LLMFinds <- MCLLMFinds
    TestText <- MCTestText
    AlwaysValue <- MCAlwaysValue
    Bodies <- MCSkipBodies
    RawTexts <- MCSkipRawTexts
    LLMEnabled = TRUE
    SkipIfRegex = TRUE
    BatchSize = 1
    MaxEntries = 0
SPECIFICATION FairSpec
PROPERTY EveryRequestForwarded
