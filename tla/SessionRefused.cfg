SPECIFICATION FairSpec
PROPERTY RefusedTriesAgain
