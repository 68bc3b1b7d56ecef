SPECIFICATION Spec
CONSTANTS
    Requests = {r1, r2}
    Mails = {m1, bounce, lost}
    WithMessageId = {m1, bounce}
    Unroutable = {lost}
    Ignored = {bounce}
    MaxTries = 2
    MaxSecrets = 2
    None = None
SYMMETRY Symmetry
INVARIANTS TypeOK PostedOnce AnswersTrue DeployedKeyStays ConfirmedIsUsable
PROPERTY CommitsAuthorized
