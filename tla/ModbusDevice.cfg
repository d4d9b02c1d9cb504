SPECIFICATION FairSpec
CONSTANTS
    Holders = {d1, d2}
    Reading = {d1}
    NoOne = NoOne
INVARIANTS OneFirstOwner OnlyOwnersTalk CloseLetsGo
PROPERTIES CallsReturn
