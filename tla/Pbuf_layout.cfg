\* Clients that pass any length that the assertions let pass.
SPECIFICATION Spec
CONSTANTS
  UMod = 8
  SMod = 16
  PBUF_MAX_SIZE = 5
  Lens <- AllLens
  Headers = {link, network}
INVARIANTS
  TypeOK
  WellFormed
  LenTracks
  HeadersInside
