SPECIFICATION Spec
CONSTANTS
  Order <- MCOrder
  Word <- MCWord
  Texts <- MCTexts
  Catalogs = {{"acid", "vapor", "dup"}, {"acid", "vapor"}}
  Defaults = {"vapor"}
INVARIANTS TypeOK PromptInStep
CHECK_DEADLOCK FALSE
