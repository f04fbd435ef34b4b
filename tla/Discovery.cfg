SPECIFICATION Spec
CONSTANTS
    Nil = Nil
    i1 = i1
    i2 = i2
    a = a
    b = b
    Names <- MCNames
    Classes = {"media", "unclassified"}
    Handlers = {h1, h2}
    Addresses <- MCAddresses
    ClassOf <- MCClassOf
    ConfiguredId <- MCConfiguredId
    MaxMessages <- SomeMessages
    MaxNamings <- SomeNamings
CHECK_DEADLOCK FALSE
SYMMETRY HandlerSymmetry
INVARIANTS StoreConsistent PrimaryIndexSound
 
