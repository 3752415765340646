CONSTANTS
  p1 = p1
  p2 = p2
  ann = ann
  w1 = w1
  w2 = w2
  h1 = h1
  h2 = h2
  h3 = h3
  Photo = {p1, p2}
  Student = {ann}
  PhotoOf <- MCPhotoOf
  Worker = {w1, w2}
  Handler = {h1, h2, h3}
  WorkerOf <- MCWorkerOf
SPECIFICATION Spec
INVARIANTS FacesInv CacheIsTable PhotosNumbered
PROPERTY LoadHeals
