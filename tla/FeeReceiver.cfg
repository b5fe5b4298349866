SPECIFICATION Spec
CONSTANTS
    Admin = admin
    Creator = creator
    Donor = donor
    Keys = {admin, creator, donor}
    Configs = {0, 1}
    Mints = {1, 2}
    SupportedMints = {1, 2}
    CreatePoolFees = {0, 1}
    Rent <- MCRent
    Wealth <- MCWealth
    Donors = {donor}
    Donations = {2, 4}
    DonationTargets <- MCTargets
INVARIANTS
    FeeDoesNotBlockCreation
CHECK_DEADLOCK FALSE
