SPECIFICATION FairSpec
CONSTANTS
 daemon=daemon
 w1=w1
 Daemon=daemon
 NoProcess=NoProcess
 Windows<-OneWindow
 Choices<-Defaults
 Happenings<-JustClose
 MaxCopies=1
 MaxForeign=0
PROPERTIES TimerStillApplies
