\* The documented reaction to a kmscon that is slow to start its child.
SPECIFICATION FairSpec
PROPERTY NextWayAfterTimeout
