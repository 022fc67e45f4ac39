SPECIFICATION Spec
PROPERTY ExpiryIsInvisible
