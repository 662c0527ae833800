SPECIFICATION FairSpec
CONSTANTS
 MaxLoads=2
 MaxChanges=2
 Polling=TRUE
 Wide<-Second
 Happenings<-Everything
INVARIANTS TypeOK NothingSlips
 
