\* The service installed, started, stopped and removed, with the threads of its process.
SPECIFICATION FairSpec
PROPERTIES StatusGoesForward StopEnds
