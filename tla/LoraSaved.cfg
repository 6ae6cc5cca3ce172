SPECIFICATION Spec
CONSTANTS
  Order <- MCOrder
  Word <- MCWord
  Texts <- MCTexts
  Catalogs = {{"acid", "vapor", "dup"}, {"acid", "vapor"}}
  Defaults = {"vapor"}
PROPERTIES SavedTogglesLoaded
CHECK_DEADLOCK FALSE
