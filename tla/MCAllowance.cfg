\* Transactions whose time is up to a tick old when they commit.
SPECIFICATION Spec
CONSTANTS
  ann = ann
  ben = ben
  u1 = u1
  u2 = u2
  u3 = u3
  NoUser = NoUser
  User = {ann, ben}
  Upload = {u1, u2, u3}
  DayLength = 2
  MonthLength = 2
  DailyLimit = 1
  MonthlyLimit = 2
  GlobalLimit = 2
  UploadTTL = 2
  ReservationTTL = 3
  MaxLag = 1
  MaxTime = 5
SYMMETRY Alike
\* The instance stops when its time and its uploads are used up.
CHECK_DEADLOCK FALSE
INVARIANTS
  AllowanceTypeOK
  LimitsHold
  
