SPECIFICATION Spec
CONSTANTS
  CJSON_NESTING_LIMIT = 3
  MIN_PORT = 1024
  MAX_PORT = 49151
  IdMod = 32
  ULongMod = 128
  Users <- Users0
  Groups <- Groups0
  Environment <- Env0
  FirstLines <- Lines0
  Inputs <- MCInputs
INVARIANTS
  IdListsDenote
  JsonFaithful
  
  StringsFaithful
  ConfigurationObeyed
  AccountsFaithful
