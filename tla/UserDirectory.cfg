SPECIFICATION Spec
CONSTANTS
  Texts <- AllTexts
  Nfkc <- Composed
  Fold <- Folded
  WithAt <- Addresses
  Sized <- AllTexts
  Email <- Mail
  Phone <- Numbering
  Ids <- Accounts
  Typed <- Candidates
  MaxEntries = 2
INVARIANTS TypeOK IndexFaithful OwnAccountOnly ReachedIfStable ReachedAsPrinted RefusedForCause
