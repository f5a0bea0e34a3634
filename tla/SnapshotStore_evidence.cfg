\* One key, four versions, the code's own number of retained versions.
SPECIFICATION Spec
CONSTANTS
  k1 = k1  k2 = k2  d1 = d1  d2 = d2  r1 = r1
  p1 = p1  p2 = p2  None = None
  Keys = {k1}
  Payloads = {d1, d2}
  Raw = {r1}
  Publishers = {p1}
  Restorers = {}
  Retainers = {p2}
  RetiredKept = 2
  RetentionAge = 0
  MaxTime = 1
  Versions <- SharedVersions
  KeyOf <- OneKeyOf
  PayloadOf <- SharedPayloadOf
  EvidenceOf <- OneEvidence
INVARIANTS SafePointEvidence
