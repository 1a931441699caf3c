SPECIFICATION MCSpec
CONSTANTS
    ada = ada
    bob = bob
    buyer = buyer
    seller = seller
    other = other
    Profiles = {buyer, seller, other}
    Persons = {ada, bob}
    Person <- MCPerson
    None = None
    none = none
    Categories = {c1, c2, c3}
    MaxFocus = 3
    MaxLookUps = 5
    MaxTaps = 4
    MaxPending = 3
    MaxRestarts = 1
INVARIANTS SessionWhole SignedInByPassword OnePerson QuietAccountFresh CategoriesShown
CHECK_DEADLOCK FALSE
SYMMETRY Symmetry
