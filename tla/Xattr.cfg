SPECIFICATION FairSpec
CONSTANTS
  Plain = {"user"}
  Lengths <- FewLengths
  MaxChanges = 3
INVARIANTS TypeOK ReportOfOneMoment NoTornValue
PROPERTIES EveryReportEnds
