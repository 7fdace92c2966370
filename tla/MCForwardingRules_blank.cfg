\* The edit form's promise about a blank outgoing secret.
SPECIFICATION Spec
CONSTANTS
    Sources = {"github"}
    Editors = {e1, e2}
    Secrets = {"k1", "k2"}
    Headers = {"X-Sig"}
    MaxRequests = 3
PROPERTIES
    BlankKeepsSecrets
CHECK_DEADLOCK FALSE
