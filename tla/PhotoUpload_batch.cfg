\* Two files in one album: a batch of two thumbnails.
SPECIFICATION Spec
CONSTANTS
  f1 = f1  f2 = f2  a1 = a1  a2 = a2  p1 = p1  p2 = p2  r1 = r1  r2 = r2  w1 = w1
  Files <- MCFiles
  Albums <- MCOneAlbum
  Photos <- MCPhotos
  Requests <- MCOneRequest
  Workers <- MCWorkers
  NoAlbum = NoAlbum
  NoObject = NoObject
  NoPhoto = NoPhoto
SYMMETRY MCNoSymmetry
INVARIANT BatchRunsThrough
