SPECIFICATION Spec
CONSTANTS
    none = none
    v1 = v1
    v2 = v2
    https = https
    site = site
    other = other
    cert1 = cert1
    Text <- Texts
    Denoted <- Spelled
    Addresses <- Configurable
    Nothing = none
    Server = {v1, v2}
    Port = {https}
    Template = {site, other}
    File = {cert1}
    Dot = "."
    Star = "*"
    Lower <- LowerCase
    Domains <- MCDomains
    Literals <- MCLiterals
    CommonNames <- MCCommonNames
INVARIANTS TypeOK VIPFindsServed DomainsCovered
