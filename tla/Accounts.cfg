\* Two registrations at a time, one seed process that dies and runs again.
SPECIFICATION Spec
CONSTANTS
  admin = admin
  user = user
  p1 = p1
  p2 = p2
  u1 = u1
  u2 = u2
  s1 = s1
  Emails <- TwoEmails
  Admin = admin
  Urls <- TwoUrls
  Requests <- TwoRequests
  Seeders <- OneSeeder
  AccessTtl = 1
  RefreshTtl = 2
  Slow = 1
  MaxGranted = 1
  MaxTime = 2
SYMMETRY AccountsSymmetry
INVARIANTS
  TypeOK
  OneAccount
  OneWinner
  NoRenewal
  SeedIdempotent
  AccountsInv
