SPECIFICATION Spec
CONSTANTS
    MaxSeq = 4
    Page = 1
    MaxPage = 2
    Fits = 1
    MaxFaults = 1
PROPERTY HolesRepaired
