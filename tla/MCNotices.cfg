SPECIFICATION Spec
CONSTANTS
    ann = ann
    bob = bob
    carl = carl
    expired = expired
    expiring = expiring
    wild = wild
    alert1 = alert1
    mail1 = mail1
    mail2 = mail2
    User = {ann, bob}
    Applicant = {carl}
    Topic = {expired, expiring}
    Wildcard = wild
    Key <- Keys
    Alert = {alert1}
    AccountMail = {mail1, mail2}
    About <- Abouts
    MaxEvents = 1
    MaxCopies = 2
    MaxChanges = 3
CHECK_DEADLOCK FALSE
INVARIANTS SteadySubscribersReached WaitingAccountsGetMail
PROPERTIES RemovalFreezes
