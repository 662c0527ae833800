SPECIFICATION FairSpec
CONSTANTS
 daemon=daemon
 w1=w1
 Daemon=daemon
 NoProcess=NoProcess
 Windows<-OneWindow
 Choices<-Three
 Happenings<-All
 MaxCopies=2
 MaxForeign=1
INVARIANTS TypeOK 
PROPERTIES TakesOnlyItsOwn TimerTakesBack
