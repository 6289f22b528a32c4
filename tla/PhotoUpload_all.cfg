\* One file in two albums, two photos, two overlapping requests, one worker.
SPECIFICATION Spec
CONSTANTS
  f1 = f1  f2 = f2  a1 = a1  a2 = a2  p1 = p1  p2 = p2  r1 = r1  r2 = r2  w1 = w1
  Files <- MCOneFile
  Albums <- MCAlbums
  Photos <- MCPhotos
  Requests <- MCRequests
  Workers <- MCWorkers
  NoAlbum = NoAlbum
  NoObject = NoObject
  NoPhoto = NoPhoto
SYMMETRY MCSymmetry
INVARIANTS PhotosHaveBytes OneOfEachFile QueuedOnce
