\* The life of two contracts, the daily job, a manual run and one stop of the server.
SPECIFICATION Spec
CONSTANTS
  Null = Null
  Contracts = {c1, c2}
  Depositors = {d1}
  Notices = {1}
  LastDay = 2
  MaxSaves = 1
  MaxIncidents = 1
INVARIANTS
  TypeOK
  OneAlertPerEdition
  MarkedMeansAnnounced
PROPERTIES
  JobRespectsTheManager
  DueIsAnnounced
  OverdueExpires
