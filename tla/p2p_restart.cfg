SPECIFICATION FairSpec
CONSTANTS
    NoCaller = NoCaller
    NoGen = NoGen
    NoCall = NoCall
    Untaken = Untaken
    Manager = Manager
    Boot = Boot
    Callers = {t1}
    Peers = {p1}
    MaxGen = 3
    MaxCalls = 1
    Bootstraps <- OneBootstrap
    FirstModes = {"client"}
INVARIANTS
    OneLoopServes
    SharedClientIsServed
PROPERTIES
    CallsEnd
    ClientComesBack
