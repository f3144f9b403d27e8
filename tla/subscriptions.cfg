SPECIFICATION Spec
CONSTANTS
  s1 = s1
  s2 = s2
  addr = addr
  single = single
  double = double
  hard = hard
  soft = soft
  complaint = complaint
  Subs = {s1, s2}
  NoSub = NoSub
  EmailOf <- SameAddress
  Lists = {single, double}
  Double = {double}
  Public = {single, double}
  Types = {hard, soft, complaint}
  Count <- Thresholds
  Action <- Actions
  r1 = r1
  Requests = {r1}
SYMMETRY Symmetry
INVARIANTS TypeOK LeftStaysLeft MailIsWanted BarredStaysOut BouncedAreOut
