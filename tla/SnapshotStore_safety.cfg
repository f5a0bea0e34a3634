\* Two processes, each able to publish, restore and clean up.
SPECIFICATION Spec
CONSTANTS
  k1 = k1  k2 = k2  d1 = d1  d2 = d2  r1 = r1
  p1 = p1  p2 = p2  None = None
  Keys = {k1, k2}
  Payloads = {d1, d2}
  Raw = {r1}
  Publishers = {p1}
  Restorers = {p1, p2}
  Retainers = {p2}
  RetiredKept = 1
  RetentionAge = 0
  MaxTime = 1
  Versions <- SharedVersions
  KeyOf <- SharedKeyOf
  PayloadOf <- SharedPayloadOf
  EvidenceOf <- SharedEvidence
INVARIANTS TypeOK PayloadKept HeadServed LockedWorkUndisturbed NoDanglingEvidence LockOwned RetiredWasServed
PROPERTIES SafePointKept ReadsSpec
