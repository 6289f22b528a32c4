\* One account, one photo, one request at a time.
SPECIFICATION Spec
CONSTANTS
  u1 = u1  t1 = t1  p1 = p1  None = None
  Owners = {u1}
  Tenants = {t1}
  Photos = {p1}
  Requests = {1}
  TenantOf <- MCTenantOf
  InPhoto <- MCInPhoto
  PhotoTenant <- MCPhotoTenant
  MaxFaces = 1
  MaxPoints = 2
INVARIANT SearchFindsTheFace
CHECK_DEADLOCK FALSE
