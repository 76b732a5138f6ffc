SPECIFICATION Spec
SYMMETRY Symmetric
CONSTANTS
  KeyIds = {admin, clerk}
  Admin = admin
  admin = admin
  clerk = clerk
  Threads = {t1, t2}
  t1 = t1
  t2 = t2
  Tokens = {s1, s2, s3}
  s1 = s1
  s2 = s2
  s3 = s3
  Otps = {o1}
  o1 = o1
  MaxSecret = 2
  MaxLockouts = 1
  MaxRestarts = 1
INVARIANT TypeOK
INVARIANT SettledSessionsDieWithTheirKey
INVARIANT LockedKeyHasNoSettledLogin
INVARIANT OtpIsSpentFirst
PROPERTY RetiredSecretStaysRetired
