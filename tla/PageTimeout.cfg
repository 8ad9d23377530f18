SPECIFICATION Spec
CONSTANTS
  text = text
  resume = resume
  Fields <- TwoFields
  Uploads <- OneUpload
  Required <- TwoFields
  NextButton = NextButton
  LastPage = 2
  MaxTabs = 2
  Slots <- TwoSlots
  PageLimit = 2
  MutationRetries = 1
  ProviderRetries = 1
  VerifyReads = 2
CHECK_DEADLOCK FALSE
PROPERTY TimeoutProvesNoEffect
