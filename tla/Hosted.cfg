SPECIFICATION HostsSpec
CONSTANTS
  o1 = o1
  o2 = o2
  r1 = r1
  r2 = r2
  m1 = m1
  m2 = m2
  d1 = d1
  b1 = b1
  b2 = b2
  q1 = q1
  q2 = q2
  w1 = w1
  w2 = w2
  w3 = w3
  s1 = s1
  s2 = s2
  s3 = s3
  Owners = {o1, o2}
  HReceipts = {r1, r2}
  Merchants = {m1, m2}
  Docs = {d1}
  Bytes = {b1, b2}
  Format <- OneFormat
  Requests = {q1, q2}
  MaxCalls = 2
  Workers = {w1, w2, w3}
  Servers = {s1, s2, s3}
  Names = {"a", "b", "c"}
  Migrations <- ThreeReleases
  Free = Free
CONSTRAINT FewFailures
SYMMETRY Symmetric
CHECK_DEADLOCK FALSE
INVARIANTS
  HostsTypeOK
  AckedIsStored
  ObjectIsAccountedFor
  ServedIsRecorded
  OwnersAgree
  ShownIsOwn
  RecordedOnce
  ReadyByOwnJob
  ProbeIsOnItsWay
  StartsDoNotCollide
  ServesItsSchema
