SPECIFICATION Spec
SYMMETRY Symmetric
CONSTANTS
  KeyIds = {admin}
  Admin = admin
  admin = admin
  Threads = {t1, t2}
  t1 = t1
  t2 = t2
  Tokens = {s1, s2}
  s1 = s1
  s2 = s2
  Otps = {o1}
  o1 = o1
  MaxSecret = 2
  MaxLockouts = 1
  MaxRestarts = 0
INVARIANT OtpSpentOnce
