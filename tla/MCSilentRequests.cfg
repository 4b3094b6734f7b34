CONSTANTS
  Sector <- MCSector
  Icaos = {"EDDK", "EDDF", "EDDM"}
  Callsigns = {"c1"}
  MaxBehind = 3
SPECIFICATION TimedSpec
INVARIANTS
  TypeOK
  AskedOnce
PROPERTIES
  PublishesFirstAnswers
  AirportsArrive
