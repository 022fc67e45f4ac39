SPECIFICATION FairSpec
PROPERTY SweptReconnects
