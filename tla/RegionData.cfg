SPECIFICATION Spec
CONSTANTS
  JsValues <- MCJsValues
  Unwritable <- MCUnwritable
  Text <- MCText
  JavaValues <- MCJavaValues
  TicksPerMs = 4
  ClockBits = 6
  MantissaBits = 3
  PutInputs <- MCPutInputs
  GetInputs <- MCGetInputs
  MapInputs <- MCMapInputs
  KeyArrays <- MCKeyArrays
  OtherKeys <- MCOtherKeys
INVARIANTS
  TypeOK
  ShapesHaveOwnNames
  SilentIntegersDistinct
PROPERTIES
  MapSpec
